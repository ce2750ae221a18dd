----------------------------- MODULE StreamProofs -----------------------------
(***************************************************************************)
(* ForgottenWasDelivered and StreamTypeOK of StreamDelivery, for every log,  *)
(* every kind of source, every window of the consumer and any number of     *)
(* mishaps.                                                                *)
(***************************************************************************)
EXTENDS StreamDelivery, TLAPS

(* An event that the server may forget.                                    *)
Settled(e) == e \in delivered \cup refused \cup skipped \/ FollowsInTx(e)

StreamShape ==
  /\ stream \in Streams /\ up \in BOOLEAN /\ reader \in BOOLEAN
  /\ reader => stream = "kafka"
  /\ stream = "kafka" => confirmed = 0 /\ (up => reader) /\ (~reader => held = <<>>)
  /\ server \in Nat /\ confirmed \in Nat /\ position \in Nat /\ produced \in 0..Len(TxEnd)
  /\ sending \in Seq(Events) /\ (~up => sending = <<>>)
  /\ held \in Seq([event : Events, try : Nat])
  /\ request \in [Events -> Requests] /\ tries \in [Events -> Nat]
  /\ stream # "webhook" => \A e \in Events : request[e] = "none"

(* A 200 goes to a loaded event only, and so does a signal to answer it.    *)
Answered ==
  /\ \A e \in Events : request[e] = "ok" => e \in delivered
  /\ \A s \in signals : s.ok => s.id.event \in delivered

(* What the server stores, and what the next standby status will make it    *)
(* store, is settled.                                                      *)
PositionSettled == \A e \in Events : e <= server \/ e <= confirmed => Settled(e)

HeldBefore(e, n) == \E i \in 1..n : i \in DOMAIN held /\ held[i].event = e
SentBefore(e, n) == \E i \in 1..n : i \in DOMAIN sending /\ sending[i] = e

(* An event that was read is settled, or with the consumer, or about to be  *)
(* sent; and the three follow each other in the order of the log.  This is *)
(* what lets the Ack of one row stand for all the rows before it.          *)
InOrderOfLog ==
  stream # "webhook" =>
    /\ up \/ reader => \A e \in Events :
         e <= position => Settled(e) \/ HeldBefore(e, Len(held)) \/ SentBefore(e, Len(sending))
    /\ \A i \in DOMAIN held, e \in Events :
         e < held[i].event => Settled(e) \/ HeldBefore(e, i - 1)
    /\ \A i \in DOMAIN sending, e \in Events :
         e < sending[i] => Settled(e) \/ HeldBefore(e, Len(held)) \/ SentBefore(e, i - 1)

StreamInv == StreamShape /\ Answered /\ PositionSettled /\ InOrderOfLog

(* The log, and its transactions.                                          *)
LEMMA Log ==
  /\ Len(TxEnd) \in Nat /\ Events = 1..Len(TxEnd) /\ Posted \subseteq Events
  /\ \A e \in Events : TxEnd[e] \in e..Len(TxEnd) /\ \A f \in e..TxEnd[e] : TxEnd[f] = TxEnd[e]
BY StreamsAssumption DEF Events

LEMMA InitInv == StreamInit => StreamInv
<1> SUFFICES ASSUME StreamInit PROVE StreamInv OBVIOUS
<1>1. StreamShape
  <2>1. /\ sending \in Seq(Events) /\ held \in Seq([event : Events, try : Nat])
        /\ request \in [Events -> Requests] /\ tries \in [Events -> Nat]
    BY DEF StreamInit, Requests
  <2>2. produced \in 0..Len(TxEnd)
    BY Log DEF StreamInit
  <2>3. /\ stream \in Streams /\ up = FALSE /\ reader = FALSE /\ sending = <<>> /\ held = <<>>
        /\ server = 0 /\ confirmed = 0 /\ position = 0
    BY DEF StreamInit
  <2>4. stream # "webhook" => \A e \in Events : request[e] = "none"
    BY DEF StreamInit
  <2> QED BY <2>1, <2>2, <2>3, <2>4 DEF StreamShape
<1>2. Answered /\ PositionSettled
  BY Log DEF StreamInit, Answered, PositionSettled
<1>3. InOrderOfLog
  BY Log DEF StreamInit, InOrderOfLog, HeldBefore, SentBefore
<1> QED BY <1>1, <1>2, <1>3 DEF StreamInv

(* Steps that leave the rows and what is settled alone.                     *)
LEMMA Unmoved ==
  ASSUME StreamInv, StreamShape', Answered',
         stream' = stream, held' = held, sending' = sending,
         delivered' = delivered, refused' = refused, skipped' = skipped,
         server' = server, confirmed' = confirmed, position' = position, up' = up,
         reader' = reader
  PROVE StreamInv'
<1>1. PositionSettled'
  BY DEF StreamInv, PositionSettled, Settled, FollowsInTx
<1>2. InOrderOfLog'
  BY DEF StreamInv, InOrderOfLog, HeldBefore, SentBefore, Settled, FollowsInTx
<1> QED BY <1>1, <1>2 DEF StreamInv

LEMMA ProduceInv == StreamInv /\ Produce => StreamInv'
<1> SUFFICES ASSUME StreamInv, Produce PROVE StreamInv' OBVIOUS
<1>1. produced' \in 0..Len(TxEnd)
  BY Log DEF StreamInv, StreamShape, Produce
<1>2. StreamShape'
  BY <1>1 DEF StreamInv, StreamShape, Produce
<1>3. Answered'
  BY DEF StreamInv, Answered, Produce
<1> QED BY <1>2, <1>3, Unmoved DEF Produce

LEMMA CrashInv == StreamInv /\ Crash => StreamInv'
<1> SUFFICES ASSUME StreamInv, Crash PROVE StreamInv' OBVIOUS
<1>1. StreamShape'
  <2>1. sending' \in Seq(Events) /\ held' \in Seq([event : Events, try : Nat])
    BY DEF StreamInv, StreamShape, Crash
  <2>2. request' \in [Events -> Requests]
    BY DEF StreamInv, StreamShape, Crash, Requests
  <2> QED BY <2>1, <2>2 DEF StreamInv, StreamShape, Crash
<1>2. Answered'
  BY DEF StreamInv, StreamShape, Answered, Crash
<1>3. PositionSettled'
  BY Log DEF StreamInv, StreamShape, PositionSettled, Settled, FollowsInTx, Crash
<1>4. InOrderOfLog'
  BY DEF InOrderOfLog, HeldBefore, SentBefore, Crash
<1> QED BY <1>1, <1>2, <1>3, <1>4 DEF StreamInv

LEMMA EndSubscribeInv == StreamInv /\ EndSubscribe => StreamInv'
<1> SUFFICES ASSUME StreamInv, EndSubscribe PROVE StreamInv' OBVIOUS
<1>1. StreamShape'
  <2>1. sending' \in Seq(Events) /\ held' \in Seq([event : Events, try : Nat])
    BY DEF StreamInv, StreamShape, EndSubscribe
  <2>2. request' \in [Events -> Requests]
    BY DEF StreamInv, StreamShape, EndSubscribe, Requests
  <2> QED BY <2>1, <2>2 DEF StreamInv, StreamShape, EndSubscribe
<1>2. Answered'
  BY DEF StreamInv, Answered, EndSubscribe
<1>3. \A e \in Events : Settled(e) => Settled(e)'
  BY DEF Settled, FollowsInTx, EndSubscribe
<1>4. PositionSettled'
  BY <1>3 DEF StreamInv, PositionSettled, EndSubscribe
<1>5. \A e \in Events, n \in Nat : HeldBefore(e, n) => HeldBefore(e, n)'
  BY DEF HeldBefore, EndSubscribe
<1>6. \A e \in Events : stream = "kafka" /\ SentBefore(e, Len(sending)) => Settled(e)'
  BY DEF SentBefore, Settled, Range, EndSubscribe
<1>7. /\ Len(held) \in Nat /\ \A i \in DOMAIN held : i - 1 \in Nat
      /\ held' = held /\ stream' = stream /\ sending' = <<>> /\ ~up' /\ position' = position
      /\ reader' = reader
  BY DEF StreamInv, StreamShape, EndSubscribe
<1>8. InOrderOfLog'
  <2> SUFFICES ASSUME stream # "webhook" PROVE InOrderOfLog' BY <1>7 DEF InOrderOfLog
  <2>1. ASSUME reader, NEW e \in Events, e <= position PROVE Settled(e)' \/ HeldBefore(e, Len(held))'
    <3>1. stream = "kafka"
      BY <2>1 DEF StreamInv, StreamShape
    <3> QED BY <2>1, <3>1, <1>3, <1>5, <1>6, <1>7 DEF StreamInv, InOrderOfLog
  <2>2. \A i \in DOMAIN held, e \in Events :
          e < held[i].event => Settled(e)' \/ HeldBefore(e, i - 1)'
    BY <1>3, <1>5, <1>7 DEF StreamInv, InOrderOfLog
  <2> QED BY <1>7, <2>1, <2>2 DEF InOrderOfLog
<1> QED BY <1>1, <1>2, <1>4, <1>8 DEF StreamInv

(* Anew from the stored position; or, a reader that is still there, from    *)
(* its place, behind which all that is not settled is held.                *)
LEMMA SubscribeInv == StreamInv /\ Subscribe => StreamInv'
<1> SUFFICES ASSUME StreamInv, Subscribe PROVE StreamInv' OBVIOUS
<1>1. StreamShape'
  <2>1. reader' \in BOOLEAN /\ (reader' <=> stream = "kafka") /\ up' = TRUE
    BY DEF Subscribe
  <2>2. position' \in {position, produced, server}
    BY DEF Subscribe, StartsAt
  <2>3. /\ confirmed' \in {confirmed, server} /\ (stream = "kafka" => confirmed' = confirmed)
        /\ UNCHANGED <<stream, produced, server, sending, request, held, tries>>
    BY DEF Subscribe
  <2>4. position' \in Nat /\ confirmed' \in Nat
    BY <2>2, <2>3 DEF StreamInv, StreamShape
  <2>5. sending = <<>>
    BY DEF StreamInv, StreamShape, Subscribe
  <2> QED BY <2>1, <2>3, <2>4, <2>5 DEF StreamInv, StreamShape
<1>2. Answered'
  BY DEF StreamInv, Answered, Subscribe
<1>3. /\ sending = <<>> /\ sending' = <<>> /\ held' = held /\ stream' = stream /\ server' = server
      /\ server \in Nat /\ produced \in Nat /\ Len(held) \in Nat
      /\ \A i \in DOMAIN held : i - 1 \in Nat
  BY DEF StreamInv, StreamShape, Subscribe
<1>4. \A e \in Events, n \in Nat : (HeldBefore(e, n) => HeldBefore(e, n)') /\ ~SentBefore(e, n)
  BY <1>3 DEF HeldBefore, SentBefore
<1>5. CASE stream # "kafka"
  <2>1. skipped' = skipped /\ position' = server /\ confirmed' \in {server, confirmed} /\ ~reader
    BY <1>5 DEF StreamInv, StreamShape, Subscribe, StartsAt
  <2>2. \A e \in Events : Settled(e) => Settled(e)'
    BY <2>1 DEF Settled, FollowsInTx, Subscribe
  <2>3. PositionSettled'
    BY <1>3, <2>1, <2>2 DEF StreamInv, PositionSettled
  <2>4. InOrderOfLog'
    BY <1>3, <1>4, <2>1, <2>2 DEF StreamInv, InOrderOfLog, PositionSettled
  <2> QED BY <1>1, <1>2, <2>3, <2>4 DEF StreamInv
<1>6. CASE stream = "kafka" /\ reader
  <2>1. skipped' = skipped /\ position' = position /\ confirmed' = confirmed
    BY <1>6 DEF Subscribe, StartsAt
  <2>2. \A e \in Events : Settled(e) => Settled(e)'
    BY <2>1 DEF Settled, FollowsInTx, Subscribe
  <2>3. PositionSettled'
    BY <1>3, <2>1, <2>2 DEF StreamInv, PositionSettled
  <2>4. InOrderOfLog'
    <3>1. \A e \in Events : e <= position => Settled(e)' \/ HeldBefore(e, Len(held))'
      BY <1>3, <1>4, <1>6, <2>2 DEF StreamInv, InOrderOfLog
    <3>2. \A i \in DOMAIN held, e \in Events :
            e < held[i].event => Settled(e)' \/ HeldBefore(e, i - 1)'
      BY <1>3, <1>4, <1>6, <2>2 DEF StreamInv, InOrderOfLog
    <3> QED BY <1>3, <2>1, <3>1, <3>2 DEF InOrderOfLog
  <2> QED BY <1>1, <1>2, <2>3, <2>4 DEF StreamInv
<1>7. CASE stream = "kafka" /\ ~reader
  <2>1. held = <<>> /\ confirmed = 0 /\ confirmed' = 0
    BY <1>7 DEF StreamInv, StreamShape, Subscribe
  <2>2. \A e \in Events : e <= server => Settled(e)'
    <3> SUFFICES ASSUME NEW e \in Events, e <= server PROVE Settled(e)' OBVIOUS
    <3>1. e \in 1..server /\ server # 0
      BY <1>3, Log
    <3>2. Settled(e)
      BY DEF StreamInv, PositionSettled
    <3>3. skipped' = skipped \cap 1..server
      BY <1>7, <3>1 DEF Subscribe
    <3> QED BY <1>7, <3>1, <3>2, <3>3 DEF Settled, FollowsInTx, Subscribe
  <2>3. PositionSettled'
    BY <1>3, <2>1, <2>2, Log DEF PositionSettled
  <2>4. \A e \in Events : e <= position' => Settled(e)'
    <3>1. CASE server = 0
      <4>1. position' = produced /\ skipped' = skipped \cup 1..produced
        BY <1>7, <3>1 DEF Subscribe, StartsAt
      <4>2. \A e \in Events : e <= position' => e \in skipped'
        BY <1>3, <4>1, Log
      <4> QED BY <4>2 DEF Settled
    <3>2. CASE server # 0
      <4>1. position' = server
        BY <1>7, <3>2 DEF Subscribe, StartsAt
      <4> QED BY <4>1, <2>2
    <3> QED BY <3>1, <3>2
  <2>5. InOrderOfLog'
    BY <1>3, <2>1, <2>4 DEF InOrderOfLog
  <2> QED BY <1>1, <1>2, <2>3, <2>5 DEF StreamInv
<1> QED BY <1>5, <1>6, <1>7

LEMMA ReceiveInv == StreamInv /\ Receive => StreamInv'
<1> SUFFICES ASSUME StreamInv, Receive PROVE StreamInv' OBVIOUS
<1> DEFINE last == IF stream = "cdc" THEN TxEnd[position + 1] ELSE position + 1
<1>1. /\ position + 1 \in Events /\ last \in Events /\ last > position
      /\ position \in Nat
  BY Log DEF StreamInv, StreamShape, Receive
<1>2. /\ position' = last /\ Len(sending') = last - position
      /\ sending' \in Seq(Events) /\ DOMAIN sending' = 1..(last - position)
      /\ \A i \in 1..(last - position) : sending'[i] = position + i
  <2>1. position' = last /\ sending' = [i \in 1..(last - position) |-> position + i]
    BY DEF Receive
  <2> HIDE DEF last
  <2>2. last \in Nat /\ last - position \in Nat /\ last <= Len(TxEnd)
    BY <1>1, Log
  <2>3. \A i \in 1..(last - position) : position + i \in Events
    BY <1>1, <2>2, Log
  <2> QED BY <2>1, <2>2, <2>3
<1> HIDE DEF last
<1>3. StreamShape'
  BY <1>1, <1>2, Log DEF StreamInv, StreamShape, Receive
<1>4. Answered'
  BY DEF StreamInv, Answered, Receive
<1>5. PositionSettled'
  BY DEF StreamInv, PositionSettled, Settled, FollowsInTx, Receive
<1>6. \A e \in Events, n \in Nat :
        (Settled(e) => Settled(e)') /\ (HeldBefore(e, n) => HeldBefore(e, n)')
  BY DEF Settled, FollowsInTx, HeldBefore, Receive
<1>7. Len(held) \in Nat /\ Len(held)' = Len(held) /\ up
  BY DEF StreamInv, StreamShape, Receive
<1>8. \A e \in Events : stream # "webhook" /\ e <= position => Settled(e)' \/ HeldBefore(e, Len(held))'
  BY <1>6, <1>7 DEF StreamInv, InOrderOfLog, SentBefore, Receive
<1>9. \A e \in Events, n \in Nat : e > position /\ e - position <= n /\ e <= last => SentBefore(e, n)'
  <2> SUFFICES ASSUME NEW e \in Events, NEW n \in Nat, e > position, e - position <= n, e <= last
               PROVE SentBefore(e, n)'
    OBVIOUS
  <2>1. e - position \in 1..n /\ e - position \in DOMAIN sending' /\ sending'[e - position] = e
    BY <1>1, <1>2, Log
  <2> QED BY <2>1 DEF SentBefore
<1>10. stream' = stream /\ held' = held
  BY DEF Receive
<1>11. InOrderOfLog'
  <2> SUFFICES ASSUME stream # "webhook" PROVE InOrderOfLog' BY <1>10 DEF InOrderOfLog
  <2>1. \A e \in Events : e <= position' =>
          Settled(e)' \/ HeldBefore(e, Len(held))' \/ SentBefore(e, Len(sending))'
    BY <1>1, <1>2, <1>8, <1>9, Log
  <2>2. \A i \in DOMAIN held, e \in Events :
          e < held[i].event => Settled(e)' \/ HeldBefore(e, i - 1)'
    BY <1>6 DEF StreamInv, StreamShape, InOrderOfLog
  <2>3. \A i \in DOMAIN sending', e \in Events : e < sending'[i] =>
          Settled(e)' \/ HeldBefore(e, Len(held))' \/ SentBefore(e, i - 1)'
    BY <1>1, <1>2, <1>8, <1>9, Log
  <2> QED BY <2>1, <2>2, <2>3, <1>10 DEF InOrderOfLog
<1> QED BY <1>3, <1>4, <1>5, <1>11 DEF StreamInv

LEMMA RecordInv == StreamInv /\ Record => StreamInv'
<1> SUFFICES ASSUME StreamInv, Record PROVE StreamInv' OBVIOUS
<1>1. tries' \in [Events -> Nat]
  BY DEF StreamInv, StreamShape, Record
<1>2. StreamShape'
  BY <1>1 DEF StreamInv, StreamShape, Record
<1>3. Answered'
  BY DEF StreamInv, Answered, Record
<1> QED BY <1>2, <1>3, Unmoved DEF Record

LEMMA SendInv == StreamInv /\ Send => StreamInv'
<1> SUFFICES ASSUME StreamInv, Send PROVE StreamInv' OBVIOUS
<1> DEFINE h == Id(Head(sending))
<1>1. /\ sending \in Seq(Events) /\ sending # <<>> /\ held \in Seq([event : Events, try : Nat])
      /\ Len(held) \in Nat /\ Len(sending) \in Nat \ {0}
      /\ Head(sending) = sending[1] /\ sending[1] \in Events
  BY DEF StreamInv, StreamShape, Send
<1>2. h \in [event : Events, try : Nat] /\ h.event = sending[1]
  BY <1>1 DEF StreamInv, StreamShape, Id
<1> HIDE DEF h
<1>3. /\ held' = Append(held, h) /\ Len(held') = Len(held) + 1
      /\ held' \in Seq([event : Events, try : Nat])
      /\ held'[Len(held) + 1] = h /\ \A i \in DOMAIN held : held'[i] = held[i]
      /\ DOMAIN held' = 1..(Len(held) + 1) /\ DOMAIN held = 1..Len(held)
  BY <1>1, <1>2 DEF Send, h
<1>4. /\ sending' = Tail(sending) /\ sending' \in Seq(Events)
      /\ Len(sending') = Len(sending) - 1 /\ DOMAIN sending' = 1..(Len(sending) - 1)
      /\ \A i \in DOMAIN sending' : sending'[i] = sending[i + 1]
      /\ DOMAIN sending = 1..Len(sending)
  BY <1>1 DEF Send
<1>5. StreamShape'
  BY <1>3, <1>4 DEF StreamInv, StreamShape, Send
<1>6. Answered'
  BY DEF StreamInv, Answered, Send
<1>7. PositionSettled'
  BY DEF StreamInv, PositionSettled, Settled, FollowsInTx, Send
<1>8. \A e \in Events : Settled(e) => Settled(e)'
  BY DEF Settled, FollowsInTx, Send
<1>9. \A e \in Events, n \in 0..Len(held) : HeldBefore(e, n) => HeldBefore(e, n)'
  BY <1>1, <1>3 DEF HeldBefore
<1>10. \A e \in Events : HeldBefore(e, Len(held)) => HeldBefore(e, Len(held))'
  BY <1>1, <1>3 DEF HeldBefore
<1>11. \A e \in Events : e = sending[1] => HeldBefore(e, Len(held))'
  BY <1>1, <1>2, <1>3 DEF HeldBefore
<1>12. \A e \in Events, n \in Nat : SentBefore(e, n) =>
         e = sending[1] \/ (n > 0 /\ SentBefore(e, n - 1)')
  <2> SUFFICES ASSUME NEW e \in Events, NEW n \in Nat, NEW i \in 1..n, i \in DOMAIN sending,
                      sending[i] = e, e # sending[1]
               PROVE n > 0 /\ SentBefore(e, n - 1)'
    BY DEF SentBefore
  <2>1. i > 1 /\ i - 1 \in 1..(n - 1) /\ i - 1 \in DOMAIN sending' /\ sending'[i - 1] = e
    BY <1>1, <1>4
  <2> QED BY <2>1 DEF SentBefore
<1>13. InOrderOfLog'
  <2> SUFFICES ASSUME stream # "webhook" PROVE InOrderOfLog' BY DEF InOrderOfLog, Send
  <2> USE DEF StreamInv, InOrderOfLog
  <2>1. \A e \in Events : e <= position' =>
          Settled(e)' \/ HeldBefore(e, Len(held))' \/ SentBefore(e, Len(sending))'
    BY <1>1, <1>4, <1>8, <1>10, <1>11, <1>12 DEF Send
  <2>2. ASSUME NEW i \in DOMAIN held', NEW e \in Events, e < held'[i].event
        PROVE Settled(e)' \/ HeldBefore(e, i - 1)'
    <3>1. CASE i \in DOMAIN held
      <4>1. i - 1 \in 0..Len(held) BY <3>1, <1>1, <1>3
      <4> QED BY <3>1, <4>1, <2>2, <1>3, <1>8, <1>9
    <3>2. CASE i = Len(held) + 1
      <4>1. e < sending[1] /\ 1 \in DOMAIN sending
        BY <3>2, <2>2, <1>1, <1>2, <1>3, <1>4
      <4>2. ~SentBefore(e, 1 - 1)
        BY DEF SentBefore
      <4>3. Settled(e) \/ HeldBefore(e, Len(held))
        BY <4>1, <4>2
      <4> QED BY <4>3, <3>2, <1>1, <1>8, <1>9
    <3> QED BY <3>1, <3>2, <1>1, <1>3
  <2>3. ASSUME NEW i \in DOMAIN sending', NEW e \in Events, e < sending'[i]
        PROVE Settled(e)' \/ HeldBefore(e, Len(held))' \/ SentBefore(e, i - 1)'
    <3>1. i + 1 \in DOMAIN sending /\ e < sending[i + 1] /\ i \in Nat /\ (i + 1) - 1 = i
      BY <2>3, <1>1, <1>4
    <3>2. Settled(e) \/ HeldBefore(e, Len(held)) \/ SentBefore(e, i)
      BY <3>1
    <3> QED BY <3>1, <3>2, <1>8, <1>10, <1>11, <1>12
  <2> QED BY <2>1, <2>2, <2>3
<1> QED BY <1>5, <1>6, <1>7, <1>13 DEF StreamInv

(* The consumer settles the row it has held longest: the others move up.    *)
LEMMA Pops ==
  ASSUME StreamInv, held # <<>>, held' = Tail(held),
         NEW h \in Events, h = Head(held).event, Settled(h)',
         \A e \in Events : Settled(e) => Settled(e)',
         sending' = sending, position' = position, stream' = stream, up' = up, reader' = reader
  PROVE InOrderOfLog' /\ held' \in Seq([event : Events, try : Nat])
<1>1. /\ held \in Seq([event : Events, try : Nat]) /\ Len(held) \in Nat \ {0}
      /\ DOMAIN held = 1..Len(held) /\ Head(held) = held[1]
  BY DEF StreamInv, StreamShape
<1>2. /\ held' \in Seq([event : Events, try : Nat]) /\ Len(held') = Len(held) - 1
      /\ DOMAIN held' = 1..(Len(held) - 1) /\ \A i \in DOMAIN held' : held'[i] = held[i + 1]
  BY <1>1
<1>4. \A e \in Events, n \in 0..Len(held) : HeldBefore(e, n) =>
        Settled(e)' \/ (n > 0 /\ HeldBefore(e, n - 1)')
  <2> SUFFICES ASSUME NEW e \in Events, NEW n \in 0..Len(held), NEW i \in 1..n,
                      i \in DOMAIN held, held[i].event = e, ~Settled(e)'
               PROVE n > 0 /\ HeldBefore(e, n - 1)'
    BY DEF HeldBefore
  <2>1. i # 1 BY <1>1
  <2>2. n > 0 /\ i - 1 \in 1..(n - 1) /\ i - 1 \in DOMAIN held' /\ held'[i - 1].event = e
    BY <2>1, <1>1, <1>2
  <2> QED BY <2>2 DEF HeldBefore
<1>5. \A e \in Events, n \in Nat : SentBefore(e, n) => SentBefore(e, n)'
  BY DEF SentBefore
<1>6. \A e \in Events : HeldBefore(e, Len(held)) => Settled(e)' \/ HeldBefore(e, Len(held))'
  BY <1>1, <1>2, <1>4
<1>7. InOrderOfLog'
  <2> SUFFICES ASSUME stream # "webhook" PROVE InOrderOfLog' BY DEF InOrderOfLog
  <2> USE DEF StreamInv, InOrderOfLog
  <2>1. ASSUME up \/ reader, NEW e \in Events, e <= position
        PROVE Settled(e)' \/ HeldBefore(e, Len(held))' \/ SentBefore(e, Len(sending))'
    BY <2>1, <1>6, <1>5 DEF StreamShape
  <2>2. ASSUME NEW i \in DOMAIN held', NEW e \in Events, e < held'[i].event
        PROVE Settled(e)' \/ HeldBefore(e, i - 1)'
    <3>1. i + 1 \in DOMAIN held /\ e < held[i + 1].event /\ i \in 0..Len(held) /\ (i + 1) - 1 = i
      BY <2>2, <1>1, <1>2
    <3>2. Settled(e) \/ HeldBefore(e, i)
      BY <3>1
    <3> QED BY <3>1, <3>2, <1>4
  <2>3. ASSUME NEW i \in DOMAIN sending, NEW e \in Events, e < sending[i]
        PROVE Settled(e)' \/ HeldBefore(e, Len(held))' \/ SentBefore(e, i - 1)'
    <3>1. i - 1 \in Nat BY DEF StreamShape
    <3> QED BY <2>3, <3>1, <1>5, <1>6
  <2> QED BY <2>1, <2>2, <2>3
<1> QED BY <1>2, <1>7

(* Everything before the row at the head, and its whole transaction, is     *)
(* settled once that row is.                                               *)
LEMMA HeadIsFirst ==
  ASSUME StreamInv, held # <<>>, stream # "webhook",
         NEW h \in Events, h = Head(held).event, Settled(h)',
         \A e \in Events : Settled(e) => Settled(e)', stream' = stream
  PROVE \A e \in Events :
          e <= h \/ (stream = "cdc" /\ e <= TxEnd[h]) => Settled(e)'
<1>1. 1 \in DOMAIN held /\ held[1].event = h
  <2>1. held \in Seq([event : Events, try : Nat]) BY DEF StreamInv, StreamShape
  <2> QED BY <2>1
<1>2. \A e \in Events : e < h => Settled(e)'
  <2> SUFFICES ASSUME NEW e \in Events, e < h PROVE Settled(e)' OBVIOUS
  <2>1. ~HeldBefore(e, 1 - 1) BY DEF HeldBefore
  <2> QED BY <1>1, <2>1 DEF StreamInv, InOrderOfLog
<1>4. ASSUME stream = "cdc", NEW e \in Events, e > h, e <= TxEnd[h] PROVE Settled(e)'
  <2>1. e \in h..TxEnd[h] /\ e - 1 \in h..TxEnd[h] /\ e > 1
    BY <1>4, <1>1, Log
  <2>2. TxEnd[e] = TxEnd[h] /\ TxEnd[e - 1] = TxEnd[h]
    BY <2>1, <1>1, Log
  <2> QED BY <1>4, <2>1, <2>2 DEF Settled, FollowsInTx
<1> QED BY <1>2, <1>4, Log

LEMMA HeadOfSeq == ASSUME NEW S, NEW s \in Seq(S), s # <<>> PROVE Head(s) \in S
OBVIOUS

LEMMA HeadHeld ==
  ASSUME StreamInv, held # <<>>
  PROVE Head(held) \in [event : Events, try : Nat] /\ Head(held).event \in Events
<1>1. held \in Seq([event : Events, try : Nat])
  BY DEF StreamInv, StreamShape
<1>2. Head(held) \in [event : Events, try : Nat]
  BY <1>1, HeadOfSeq
<1> QED BY <1>2

LEMMA SettleInv ==
  ASSUME StreamInv, held # <<>>, NEW acked \in BOOLEAN, Settle(acked),
         delivered \subseteq delivered', refused \subseteq refused',
         Head(held).event \in (delivered' \cup refused'),
         acked => Head(held).event \in delivered'
  PROVE StreamInv'
<1> DEFINE h == Head(held).event
<1>1. Head(held) \in [event : Events, try : Nat] /\ h \in Events
  BY HeadHeld
<1>2. PICK g \in Events : g = h
  BY <1>1
<1> HIDE DEF h
<1>3. /\ held' = Tail(held) /\ skipped' = skipped /\ stream' = stream /\ up' = up
      /\ sending' = sending /\ position' = position /\ produced' = produced
      /\ request' = request /\ tries' = tries /\ reader' = reader
  BY DEF Settle
<1>4. Settled(g)' /\ \A e \in Events : Settled(e) => Settled(e)'
  BY <1>2, <1>3 DEF Settled, FollowsInTx, h
<1>5. InOrderOfLog' /\ held' \in Seq([event : Events, try : Nat])
  BY <1>2, <1>3, <1>4, Pops DEF h
<1>6. CASE UNCHANGED <<pending, confirmed, server, signals>>
  <2>1. StreamShape'
    BY <1>3, <1>5, <1>6 DEF StreamInv, StreamShape
  <2>2. Answered'
    BY <1>3, <1>6 DEF StreamInv, Answered
  <2>3. PositionSettled'
    BY <1>4, <1>6 DEF StreamInv, PositionSettled
  <2> QED BY <1>5, <2>1, <2>2, <2>3 DEF StreamInv
<1>7. CASE stream = "webhook" /\ Signal(Head(held), acked)
  <2>1. StreamShape'
    BY <1>3, <1>5, <1>7 DEF StreamInv, StreamShape, Signal
  <2>2. Answered'
    BY <1>3, <1>7 DEF StreamInv, Answered, Signal
  <2>3. PositionSettled'
    BY <1>4, <1>7 DEF StreamInv, PositionSettled, Signal
  <2> QED BY <1>5, <2>1, <2>2, <2>3 DEF StreamInv
<1>8. CASE stream # "webhook" /\ Advance(h, acked)
  <2>1. TxEnd[g] \in Nat /\ g \in Nat
    BY Log
  <2>2. StreamShape'
    <3>1. server' \in Nat /\ confirmed' \in Nat /\ (stream = "kafka" => confirmed' = confirmed)
      BY <1>2, <1>8, <2>1 DEF StreamInv, StreamShape, Advance
    <3> QED BY <3>1, <1>3, <1>5 DEF StreamInv, StreamShape
  <2>3. Answered'
    BY <1>3, <1>8 DEF StreamInv, Answered, Advance
  <2>4. \A e \in Events : e <= g \/ (stream = "cdc" /\ e <= TxEnd[g]) => Settled(e)'
    BY <1>2, <1>3, <1>4, <1>8, HeadIsFirst DEF h
  <2>5. \A e \in Events : e <= server \/ e <= confirmed => Settled(e)'
    BY <1>4 DEF StreamInv, PositionSettled
  <2>6. PositionSettled'
    BY <1>2, <1>8, <2>4, <2>5 DEF PositionSettled, Advance
  <2> QED BY <1>5, <2>2, <2>3, <2>6 DEF StreamInv
<1> QED BY <1>6, <1>7, <1>8 DEF Settle, h

LEMMA ConsumerInv == StreamInv /\ (Ack \/ Nack \/ AckFails) => StreamInv'
<1>1. ASSUME StreamInv, Ack PROVE StreamInv'
  <2>1. /\ held # <<>> /\ Settle(TRUE) /\ delivered \subseteq delivered' /\ refused' = refused
        /\ Head(held).event \in delivered'
    BY <1>1 DEF Ack
  <2> QED BY <1>1, <2>1, SettleInv
<1>2. ASSUME StreamInv, Nack PROVE StreamInv'
  <2>1. /\ held # <<>> /\ Settle(FALSE) /\ refused \subseteq refused' /\ delivered' = delivered
        /\ Head(held).event \in refused'
    BY <1>2 DEF Nack
  <2> QED BY <1>2, <2>1, SettleInv
<1>3. ASSUME StreamInv, AckFails PROVE StreamInv'
  <2>1. PICK g \in Events : g = Head(held).event
    BY <1>3, HeadHeld DEF AckFails
  <2>2. Settled(g)' /\ \A e \in Events : Settled(e) => Settled(e)'
    BY <1>3, <2>1 DEF AckFails, Settled, FollowsInTx
  <2>3. InOrderOfLog' /\ held' \in Seq([event : Events, try : Nat])
    BY <1>3, <2>1, <2>2, Pops DEF AckFails
  <2>4. StreamShape'
    BY <1>3, <2>3 DEF AckFails, StreamInv, StreamShape
  <2>5. Answered'
    BY <1>3 DEF AckFails, StreamInv, Answered
  <2>6. PositionSettled'
    BY <1>3, <2>2 DEF AckFails, StreamInv, PositionSettled
  <2> QED BY <2>3, <2>4, <2>5, <2>6 DEF StreamInv
<1> QED BY <1>1, <1>2, <1>3

LEMMA StandbyStatusInv == StreamInv /\ StandbyStatus => StreamInv'
<1> SUFFICES ASSUME StreamInv, StandbyStatus PROVE StreamInv' OBVIOUS
<1>1. StreamShape'
  BY DEF StreamInv, StreamShape, StandbyStatus, Reports
<1>2. Answered'
  BY DEF StreamInv, Answered, StandbyStatus
<1>3. PositionSettled'
  BY DEF StreamInv, PositionSettled, Settled, FollowsInTx, StandbyStatus, Reports
<1>4. InOrderOfLog'
  BY DEF StreamInv, InOrderOfLog, HeldBefore, SentBefore, Settled, FollowsInTx, StandbyStatus
<1> QED BY <1>1, <1>2, <1>3, <1>4 DEF StreamInv

LEMMA HandlerInv ==
  ASSUME StreamInv, NEW e \in Posted,
         Post(e) \/ Offer(e) \/ Answer(e) \/ AckTimeout(e) \/ SenderLeaves(e)
  PROVE StreamInv'
<1>1. e \in Events
  BY Log
<1>2. CASE Post(e)
  <2>1. tries' \in [Events -> Nat] /\ request' \in [Events -> Requests]
    BY <1>1, <1>2 DEF StreamInv, StreamShape, Post, Requests
  <2>2. StreamShape'
    BY <1>1, <1>2, <2>1 DEF StreamInv, StreamShape, Post
  <2>3. Answered'
    BY <1>1, <1>2 DEF StreamInv, StreamShape, Answered, Post
  <2> QED BY <1>2, <2>2, <2>3, Unmoved DEF Post
<1>3. CASE Offer(e)
  <2>1. Id(e) \in [event : Events, try : Nat]
    BY <1>1 DEF StreamInv, StreamShape, Id
  <2>2. stream = "webhook"
    BY <1>1, <1>3 DEF StreamInv, StreamShape, Offer
  <2>3. request' \in [Events -> Requests] /\ held' \in Seq([event : Events, try : Nat])
    BY <1>1, <1>3, <2>1 DEF StreamInv, StreamShape, Offer, Requests
  <2>4. StreamShape'
    BY <1>1, <1>3, <2>2, <2>3 DEF StreamInv, StreamShape, Offer
  <2>5. Answered'
    BY <1>1, <1>3 DEF StreamInv, StreamShape, Answered, Offer
  <2>6. PositionSettled'
    BY <1>3 DEF StreamInv, PositionSettled, Settled, FollowsInTx, Offer
  <2>7. InOrderOfLog'
    BY <1>3, <2>2 DEF InOrderOfLog, Offer
  <2> QED BY <2>4, <2>5, <2>6, <2>7 DEF StreamInv
<1>4. CASE Answer(e) \/ AckTimeout(e) \/ SenderLeaves(e)
  <2>1. /\ request[e] # "none" /\ signals' \subseteq signals
        /\ UNCHANGED handlerFrame
        /\ \E r \in {"ok", "failed"} : request' = [request EXCEPT ![e] = r]
        /\ request'[e] = "ok" => e \in delivered
    <3>1. CASE Answer(e)
      <4>1. PICK s \in signals :
              s.id = Id(e) /\ request' = [request EXCEPT ![e] = IF s.ok THEN "ok" ELSE "failed"]
              /\ signals' = signals \ {s}
        BY <3>1 DEF Answer
      <4>2. s.ok => e \in delivered
        BY <4>1 DEF StreamInv, Answered, Id
      <4>3. (request'[e] = "ok" => s.ok) /\ \E r \in {"ok", "failed"} : request' = [request EXCEPT ![e] = r]
        BY <1>1, <4>1 DEF StreamInv, StreamShape
      <4> QED BY <3>1, <4>1, <4>2, <4>3 DEF Answer
    <3>2. CASE AckTimeout(e) \/ SenderLeaves(e)
      BY <1>1, <3>2 DEF StreamInv, StreamShape, AckTimeout, SenderLeaves
    <3> QED BY <1>4, <3>1, <3>2
  <2>2. stream = "webhook"
    BY <1>1, <2>1 DEF StreamInv, StreamShape
  <2>3. request' \in [Events -> Requests]
    BY <1>1, <2>1 DEF StreamInv, StreamShape, Requests
  <2>4. StreamShape'
    BY <2>1, <2>2, <2>3 DEF StreamInv, StreamShape, handlerFrame
  <2>5. Answered'
    BY <1>1, <2>1 DEF StreamInv, StreamShape, Answered, handlerFrame
  <2> QED BY <2>1, <2>4, <2>5, Unmoved DEF handlerFrame
<1> QED BY <1>2, <1>3, <1>4

LEMMA StreamStep == StreamInv /\ [StreamNext]_streamVars => StreamInv'
<1> SUFFICES ASSUME StreamInv, [StreamNext]_streamVars PROVE StreamInv' OBVIOUS
<1>1. CASE UNCHANGED streamVars
  <2>1. StreamShape' /\ Answered'
    BY <1>1 DEF streamVars, StreamInv, StreamShape, Answered
  <2> QED BY <1>1, <2>1, Unmoved DEF streamVars
<1>2. CASE Produce \/ Crash \/ EndSubscribe \/ Subscribe
  BY <1>2, ProduceInv, CrashInv, EndSubscribeInv, SubscribeInv
<1>3. CASE Receive \/ Record \/ Send \/ StandbyStatus
  BY <1>3, ReceiveInv, RecordInv, SendInv, StandbyStatusInv
<1>4. CASE Ack \/ Nack \/ AckFails
  BY <1>4, ConsumerInv
<1>5. CASE \E e \in Posted : Post(e) \/ Offer(e) \/ Answer(e) \/ AckTimeout(e) \/ SenderLeaves(e)
  BY <1>5, HandlerInv
<1> QED BY <1>1, <1>2, <1>3, <1>4, <1>5 DEF StreamNext

(* What a server may forget was delivered (streaming.go): neither crashes,  *)
(* lost connections and refused commits nor late answers and timeouts of   *)
(* postgres_cdc, kafka and webhook make a stored position, or a 200, run   *)
(* ahead of the consumer, up to the exceptions the invariant names.        *)
THEOREM NothingForgotten == StreamSpec => []ForgottenWasDelivered
<1>1. StreamInv => ForgottenWasDelivered
  BY DEF StreamInv, Answered, PositionSettled, ForgottenWasDelivered, Settled
<1> QED BY <1>1, InitInv, StreamStep, PTL DEF StreamSpec

------------------------------------------------------------------------------
\* Types of the streams, and one answer for each post

(* A row ID is of a row that was read or posted, and never used again; what  *)
(* waits to be answered is not waiting to be settled, so that no second     *)
(* answer to one post can come.  The log of CDC ends with a transaction.    *)
IdsInv ==
  /\ held \in Seq(RowIds) /\ sending \in Seq(Events)
  /\ confirmed <= produced
  /\ stream = "cdc" => \A e \in Events : e <= produced => TxEnd[e] <= produced
  /\ \A i \in DOMAIN sending : sending[i] <= produced
  /\ stream # "webhook" => /\ \A i \in DOMAIN held : held[i].event <= produced
                           /\ \A id \in pending : id.event <= produced
  /\ \A id \in pending : id.try <= tries[id.event]
  /\ \A s \in signals : s.id.try <= tries[s.id.event] /\ s.id \notin pending
  /\ \A e \in Events : /\ request[e] # "none" => stream = "webhook"
                       /\ request[e] \in {"offered", "waiting"} => tries[e] >= 1

StreamTypesInv == StreamTypeOK /\ IdsInv

LEMMA StreamNumbers ==
  ASSUME StreamTypesInv
  PROVE  /\ produced \in Nat /\ server \in Nat /\ position \in Nat /\ confirmed \in Nat
         /\ Len(TxEnd) \in Nat /\ produced <= Len(TxEnd) /\ confirmed <= produced
         /\ position <= produced /\ server <= produced
         /\ tries \in [Events -> 0..MaxTries]
         /\ Window \in Nat /\ MaxTries \in Nat /\ MaxMishaps \in Nat
         /\ mishaps \in 0..MaxMishaps
         /\ Len(held) \in Nat /\ Len(held) <= Window
BY StreamsAssumption DEF StreamTypesInv, StreamTypeOK, IdsInv

LEMMA MishapType == ASSUME StreamTypesInv, Mishap PROVE mishaps' \in 0..MaxMishaps
BY StreamNumbers DEF Mishap

LEMMA ElementsOf == ASSUME NEW S, NEW s \in Seq(S) PROVE Range(s) \subseteq S
BY DEF Range

LEMMA InitTypes == StreamInit => StreamTypesInv
<1> SUFFICES ASSUME StreamInit PROVE StreamTypesInv OBVIOUS
<1> USE DEF StreamInit
<1>1. /\ held \in Seq(RowIds) /\ sending \in Seq(Events) /\ Len(held) = 0
      /\ DOMAIN held = {} /\ DOMAIN sending = {}
  OBVIOUS
<1>2. IdsInv
  BY <1>1, Log DEF IdsInv
<1>3. request \in [Events -> Requests] /\ tries \in [Events -> 0..MaxTries] /\ mishaps \in 0..MaxMishaps
      /\ Len(held) <= Window /\ 0 \in 0..Len(TxEnd)
  BY <1>1, Log, StreamsAssumption DEF Requests
<1>4. Range(held) \subseteq RowIds /\ Range(sending) \subseteq Events
  BY <1>1, ElementsOf
<1>5. /\ {produced, server, position, confirmed} \subseteq 0..Len(TxEnd)
      /\ position <= produced /\ server <= produced
  BY <1>3
<1>6. StreamTypeOK
  BY <1>3, <1>4, <1>5 DEF StreamTypeOK
<1> QED BY <1>2, <1>6 DEF StreamTypesInv

LEMMA ProduceTypes == StreamTypesInv /\ Produce => StreamTypesInv'
<1> SUFFICES ASSUME StreamTypesInv, Produce PROVE StreamTypesInv' OBVIOUS
<1> DEFINE p == produced + 1
<1>1. /\ p \in Events /\ TxEnd[p] \in p..Len(TxEnd) /\ produced \in Nat
      /\ produced' \in p..Len(TxEnd) /\ (stream = "cdc" => produced' = TxEnd[p])
  BY StreamNumbers, Log DEF Produce
<1>2. produced < produced' /\ produced' \in Nat
  BY <1>1, Log
<1>3. UNCHANGED <<stream, server, up, position, reader, sending, confirmed, pending, signals, request,
                  held, tries, mishaps, delivered, refused, skipped>>
  BY DEF Produce
<1>4. ASSUME stream = "cdc", NEW e \in Events, e <= produced' PROVE TxEnd[e] <= produced'
  <2>1. CASE e <= produced
    <3>1. TxEnd[e] <= produced /\ TxEnd[e] \in Nat
      BY <1>4, <2>1, Log DEF StreamTypesInv, IdsInv
    <3> QED BY <1>1, <1>2, <3>1
  <2>2. CASE ~(e <= produced)
    <3>1. e \in p..TxEnd[p]
      BY <1>1, <1>4, <2>2, Log
    <3> QED BY <1>1, <1>4, <3>1, Log
  <2> QED BY <2>1, <2>2
<1> HIDE DEF p
<1>5. IdsInv'
  <2>1. \A i \in DOMAIN sending : sending[i] <= produced'
    BY <1>1, <1>2, Log DEF StreamTypesInv, IdsInv
  <2>2. confirmed <= produced'
    BY <1>2, StreamNumbers
  <2>3. stream # "webhook" => /\ \A i \in DOMAIN held : held[i].event <= produced'
                              /\ \A id \in pending : id.event <= produced'
    <3>1. \A i \in DOMAIN held : held[i].event \in Nat
      <4>1. \A i \in DOMAIN held : held[i] \in RowIds
        BY DEF StreamTypesInv, IdsInv
      <4> QED BY <4>1, Log DEF RowIds
    <3>2. \A id \in pending : id.event \in Nat
      BY Log DEF StreamTypesInv, StreamTypeOK, RowIds
    <3> QED BY <1>1, <1>2, <3>1, <3>2 DEF StreamTypesInv, IdsInv
  <2> QED BY <1>3, <1>4, <2>1, <2>2, <2>3 DEF StreamTypesInv, IdsInv
<1>6. StreamTypeOK'
  <2>1. produced' \in 0..Len(TxEnd) /\ position' <= produced' /\ server' <= produced'
    BY <1>1, <1>2, <1>3, StreamNumbers
  <2> QED BY <1>3, <2>1 DEF StreamTypesInv, StreamTypeOK
<1> QED BY <1>5, <1>6 DEF StreamTypesInv

LEMMA CrashTypes == StreamTypesInv /\ Crash => StreamTypesInv'
<1> SUFFICES ASSUME StreamTypesInv, Crash PROVE StreamTypesInv' OBVIOUS
<1>1. /\ sending' = <<>> /\ confirmed' = 0 /\ pending' = {} /\ signals' = {} /\ held' = <<>> /\ up' = FALSE
      /\ reader' = FALSE
      /\ request' = [e \in Events |-> IF request[e] \in {"offered", "waiting"} THEN "failed"
                                      ELSE request[e]]
      /\ UNCHANGED <<stream, produced, server, position, tries, delivered, refused, skipped>>
  BY DEF Crash
<1>2. held' \in Seq(RowIds) /\ sending' \in Seq(Events) /\ Len(held') = 0
      /\ DOMAIN held' = {} /\ DOMAIN sending' = {}
  BY <1>1
<1>3. request' \in [Events -> Requests] /\ \A e \in Events : request'[e] \notin {"offered", "waiting"}
  BY <1>1 DEF StreamTypesInv, StreamTypeOK, Requests
<1>4. IdsInv'
  BY <1>1, <1>2, <1>3, StreamNumbers DEF StreamTypesInv, IdsInv
<1>5. mishaps' \in 0..MaxMishaps /\ Len(held') <= Window /\ 0 \in 0..Len(TxEnd)
  BY <1>2, MishapType, StreamNumbers DEF Crash
<1>6. Range(held') = {} /\ Range(sending') = {}
  BY <1>2 DEF Range
<1>7. StreamTypeOK'
  BY <1>1, <1>3, <1>5, <1>6 DEF StreamTypesInv, StreamTypeOK
<1> QED BY <1>4, <1>7 DEF StreamTypesInv

LEMMA EndSubscribeTypes == StreamTypesInv /\ EndSubscribe => StreamTypesInv'
<1> SUFFICES ASSUME StreamTypesInv, EndSubscribe PROVE StreamTypesInv' OBVIOUS
<1>1. /\ up' = FALSE /\ sending' = <<>>
      /\ skipped' \in {skipped, skipped \cup Range(sending)}
      /\ UNCHANGED <<stream, produced, server, position, reader, confirmed, pending, signals, request,
                     held, tries, delivered, refused>>
  BY DEF EndSubscribe
<1>2. sending' \in Seq(Events) /\ DOMAIN sending' = {} /\ Range(sending') = {}
  BY <1>1 DEF Range
<1>3. IdsInv'
  BY <1>1, <1>2 DEF StreamTypesInv, IdsInv
<1>4. mishaps' \in 0..MaxMishaps
  BY MishapType DEF EndSubscribe
<1>5. skipped' \subseteq Events
  BY <1>1 DEF StreamTypesInv, StreamTypeOK
<1>6. StreamTypeOK'
  BY <1>1, <1>2, <1>4, <1>5 DEF StreamTypesInv, StreamTypeOK
<1> QED BY <1>3, <1>6 DEF StreamTypesInv

LEMMA SubscribeTypes == StreamTypesInv /\ Subscribe => StreamTypesInv'
<1> SUFFICES ASSUME StreamTypesInv, Subscribe PROVE StreamTypesInv' OBVIOUS
<1>1. /\ up' \in BOOLEAN /\ position' \in {produced, server, position} /\ confirmed' \in {server, confirmed}
      /\ skipped' \in {skipped, skipped \cup 1..produced, skipped \cap 1..server}
      /\ reader' \in BOOLEAN
      /\ UNCHANGED <<stream, produced, server, sending, pending, signals, request, held, tries,
                     mishaps, delivered, refused>>
  BY DEF Subscribe, StartsAt
<1>2. /\ position' \in 0..Len(TxEnd) /\ confirmed' \in 0..Len(TxEnd)
      /\ position' <= produced /\ confirmed' <= produced
      /\ 1..produced \subseteq Events
  BY <1>1, StreamNumbers, Log DEF StreamTypesInv, StreamTypeOK
<1>3. IdsInv'
  BY <1>1, <1>2 DEF StreamTypesInv, IdsInv
<1>4. skipped' \subseteq Events
  BY <1>1, <1>2 DEF StreamTypesInv, StreamTypeOK
<1>5. StreamTypeOK'
  BY <1>1, <1>2, <1>4 DEF StreamTypesInv, StreamTypeOK
<1> QED BY <1>3, <1>5 DEF StreamTypesInv

LEMMA ReceiveTypes == StreamTypesInv /\ Receive => StreamTypesInv'
<1> SUFFICES ASSUME StreamTypesInv, Receive PROVE StreamTypesInv' OBVIOUS
<1> DEFINE last == IF stream = "cdc" THEN TxEnd[position + 1] ELSE position + 1
<1>1. position \in Nat /\ position + 1 \in Events /\ position < produced
  BY StreamNumbers, Log DEF Receive
<1>2. last \in Nat /\ last > position /\ last <= produced /\ last <= Len(TxEnd)
  BY <1>1, StreamNumbers, Log DEF StreamTypesInv, IdsInv
<1>3. /\ position' = last /\ sending' = [i \in 1..(last - position) |-> position + i]
      /\ UNCHANGED <<stream, produced, server, up, reader, confirmed, pending, signals, request,
                     held, tries, mishaps, delivered, refused, skipped>>
  BY DEF Receive
<1> HIDE DEF last
<1>4. ASSUME NEW i \in 1..(last - position)
      PROVE  position + i \in Events /\ position + i <= produced
  <2>1. position + i <= last /\ position + i >= 1 /\ position + i \in Nat
    BY <1>1, <1>2
  <2>2. position + i <= produced /\ position + i <= Len(TxEnd)
    BY <1>2, <2>1, StreamNumbers
  <2> QED BY <2>1, <2>2, Log
<1>5. /\ sending' \in Seq(Events) /\ \A i \in DOMAIN sending' : sending'[i] <= produced
  <2>1. last - position \in Nat
    BY <1>1, <1>2
  <2> QED BY <1>3, <1>4, <2>1
<1>6. IdsInv'
  BY <1>3, <1>5 DEF StreamTypesInv, IdsInv
<1>7. position' \in 0..Len(TxEnd) /\ position' <= produced /\ Range(sending') \subseteq Events
  <2>1. Range(sending') \subseteq Events
    BY <1>5, ElementsOf
  <2> QED BY <1>2, <1>3, <2>1, Log
<1>8. StreamTypeOK'
  BY <1>3, <1>7 DEF StreamTypesInv, StreamTypeOK
<1> QED BY <1>6, <1>8 DEF StreamTypesInv

(* An ID for a reading or a post that no signal and no map has seen.        *)
LEMMA NewId ==
  ASSUME StreamTypesInv, NEW e \in Events, tries[e] < MaxTries,
         tries' = [tries EXCEPT ![e] = @ + 1],
         pending' = pending \cup {[event |-> e, try |-> tries[e] + 1]}, signals' = signals
  PROVE  /\ tries' \in [Events -> 0..MaxTries] /\ pending' \subseteq RowIds
         /\ \A id \in pending' : id.try <= tries'[id.event]
         /\ \A s \in signals : s.id.try <= tries'[s.id.event] /\ s.id \notin pending'
         /\ \A f \in Events : tries[f] >= 1 => tries'[f] >= 1
         /\ tries'[e] >= 1
<1> DEFINE id == [event |-> e, try |-> tries[e] + 1]
<1>1. \A f \in Events : tries[f] \in Nat /\ tries[f] <= MaxTries
  BY StreamNumbers
<1>2. \A f \in Events : tries'[f] = IF f = e THEN tries[e] + 1 ELSE tries[f]
  BY StreamNumbers
<1>3. \A f \in Events : tries'[f] \in Nat /\ tries'[f] <= MaxTries /\ tries[f] <= tries'[f]
  BY <1>1, <1>2, StreamNumbers
<1>4. tries' \in [Events -> 0..MaxTries]
  BY <1>3, StreamNumbers
<1>5. id \in RowIds /\ id.event = e /\ id.try = tries[e] + 1
  BY <1>1, StreamNumbers DEF RowIds
<1>6. pending \subseteq RowIds /\ \A s \in signals : s.id \in RowIds
  BY DEF StreamTypesInv, StreamTypeOK
<1>7. \A i \in RowIds : i.event \in Events /\ i.try \in Nat
  BY StreamNumbers DEF RowIds
<1> HIDE DEF id
<1>8. pending' = pending \cup {id}
  BY DEF id
<1>9. ASSUME NEW i \in pending' PROVE i.try <= tries'[i.event]
  <2>1. CASE i \in pending
    <3>1. i.try <= tries[i.event] /\ i.event \in Events /\ i.try \in Nat
      BY <1>6, <1>7, <2>1 DEF StreamTypesInv, IdsInv
    <3> QED BY <1>1, <1>3, <3>1
  <2>2. CASE i = id
    BY <1>1, <1>2, <1>5, <2>2
  <2> QED BY <1>8, <1>9, <2>1, <2>2
<1>10. ASSUME NEW s \in signals PROVE s.id.try <= tries'[s.id.event] /\ s.id \notin pending'
  <2>1. s.id.try <= tries[s.id.event] /\ s.id \notin pending /\ s.id.event \in Events /\ s.id.try \in Nat
    BY <1>6, <1>7 DEF StreamTypesInv, IdsInv
  <2>2. s.id # id
    BY <1>1, <1>5, <2>1
  <2> QED BY <1>1, <1>3, <1>8, <2>1, <2>2
<1> QED BY <1>1, <1>2, <1>3, <1>4, <1>5, <1>6, <1>8, <1>9, <1>10

LEMMA RecordTypes == StreamTypesInv /\ Record => StreamTypesInv'
<1> SUFFICES ASSUME StreamTypesInv, Record PROVE StreamTypesInv' OBVIOUS
<1> DEFINE h == Head(sending)
<1>1. /\ tries[h] < MaxTries /\ tries' = [tries EXCEPT ![h] = @ + 1]
      /\ pending' = pending \cup {[event |-> h, try |-> tries[h] + 1]}
      /\ UNCHANGED <<stream, produced, server, up, position, reader, sending, confirmed, signals, request,
                     held, mishaps, delivered, refused, skipped>>
  BY DEF Record
<1>2. h \in Events /\ h <= produced
  BY DEF Record, StreamTypesInv, IdsInv
<1> HIDE DEF h
<1>3. /\ tries' \in [Events -> 0..MaxTries] /\ pending' \subseteq RowIds
      /\ \A id \in pending' : id.try <= tries'[id.event]
      /\ \A s \in signals : s.id.try <= tries'[s.id.event] /\ s.id \notin pending'
      /\ \A f \in Events : tries[f] >= 1 => tries'[f] >= 1
  BY <1>1, <1>2, NewId
<1>4. stream # "webhook" => \A id \in pending' : id.event <= produced
  BY <1>1, <1>2 DEF StreamTypesInv, IdsInv
<1>5. IdsInv'
  BY <1>1, <1>3, <1>4 DEF StreamTypesInv, IdsInv
<1>6. StreamTypeOK'
  BY <1>1, <1>3 DEF StreamTypesInv, StreamTypeOK
<1> QED BY <1>5, <1>6 DEF StreamTypesInv

LEMMA PostTypes == ASSUME StreamTypesInv, NEW e \in Posted, Post(e) PROVE StreamTypesInv'
<1>1. /\ tries[e] < MaxTries /\ tries' = [tries EXCEPT ![e] = @ + 1] /\ stream = "webhook"
      /\ pending' = pending \cup {[event |-> e, try |-> tries[e] + 1]}
      /\ request' = [request EXCEPT ![e] = "offered"]
      /\ UNCHANGED <<stream, produced, server, up, position, reader, sending, confirmed, signals, held,
                     mishaps, delivered, refused, skipped>>
  BY DEF Post
<1>2. e \in Events
  BY Log
<1>3. /\ tries' \in [Events -> 0..MaxTries] /\ pending' \subseteq RowIds
      /\ \A id \in pending' : id.try <= tries'[id.event]
      /\ \A s \in signals : s.id.try <= tries'[s.id.event] /\ s.id \notin pending'
      /\ \A f \in Events : tries[f] >= 1 => tries'[f] >= 1
      /\ tries'[e] >= 1
  BY <1>1, <1>2, NewId
<1>4. /\ request' \in [Events -> Requests]
      /\ \A f \in Events : /\ request'[f] # "none" => stream = "webhook"
                           /\ request'[f] \in {"offered", "waiting"} => tries'[f] >= 1
  BY <1>1, <1>2, <1>3 DEF StreamTypesInv, StreamTypeOK, IdsInv, Requests
<1>5. IdsInv'
  BY <1>1, <1>3, <1>4 DEF StreamTypesInv, IdsInv
<1>6. StreamTypeOK'
  BY <1>1, <1>3, <1>4 DEF StreamTypesInv, StreamTypeOK
<1> QED BY <1>5, <1>6 DEF StreamTypesInv

LEMMA HoldsOneMore ==
  ASSUME StreamTypesInv, NEW id \in RowIds, Len(held) < Window, held' = Append(held, id),
         stream # "webhook" => id.event <= produced
  PROVE  /\ held' \in Seq(RowIds) /\ Len(held') <= Window
         /\ stream # "webhook" => \A i \in DOMAIN held' : held'[i].event <= produced
<1>1. held \in Seq(RowIds)
  BY DEF StreamTypesInv, IdsInv
<1>2. held' \in Seq(RowIds) /\ Len(held') = Len(held) + 1 /\ DOMAIN held' = 1..(Len(held) + 1)
      /\ held'[Len(held) + 1] = id /\ \A i \in 1..Len(held) : held'[i] = held[i]
  BY <1>1
<1>3. stream # "webhook" => \A i \in 1..Len(held) : held[i].event <= produced
  BY <1>1 DEF StreamTypesInv, IdsInv
<1>4. \A i \in DOMAIN held' : i \in 1..Len(held) \/ i = Len(held) + 1
  BY <1>2, StreamNumbers
<1>5. Len(held') <= Window
  BY <1>2, StreamNumbers
<1> QED BY <1>2, <1>3, <1>4, <1>5

LEMMA SendTypes == StreamTypesInv /\ Send => StreamTypesInv'
<1> SUFFICES ASSUME StreamTypesInv, Send PROVE StreamTypesInv' OBVIOUS
<1> DEFINE id == Id(Head(sending))
<1>1. /\ id \in pending /\ Len(held) < Window /\ sending # <<>>
      /\ held' = Append(held, id) /\ sending' = Tail(sending)
      /\ UNCHANGED <<stream, produced, server, up, position, reader, confirmed, pending, signals,
                     request, tries, mishaps, delivered, refused, skipped>>
  BY DEF Send
<1> HIDE DEF id
<1>2. id \in RowIds /\ (stream # "webhook" => id.event <= produced)
  BY <1>1 DEF StreamTypesInv, StreamTypeOK, IdsInv
<1>3. /\ held' \in Seq(RowIds) /\ Len(held') <= Window
      /\ stream # "webhook" => \A i \in DOMAIN held' : held'[i].event <= produced
  BY <1>1, <1>2, HoldsOneMore
<1>4. sending' \in Seq(Events) /\ \A i \in DOMAIN sending' : sending'[i] <= produced
  <2>1. sending \in Seq(Events) /\ \A i \in DOMAIN sending : sending[i] <= produced
    BY DEF StreamTypesInv, IdsInv
  <2>2. /\ sending' \in Seq(Events)
        /\ \A i \in DOMAIN sending' : sending'[i] = sending[i + 1] /\ i + 1 \in DOMAIN sending
    BY <1>1, <2>1
  <2> QED BY <2>1, <2>2
<1>5. IdsInv'
  BY <1>1, <1>3, <1>4 DEF StreamTypesInv, IdsInv
<1>6. Range(held') \subseteq RowIds /\ Range(sending') \subseteq Events
  BY <1>3, <1>4, ElementsOf
<1>7. StreamTypeOK'
  BY <1>1, <1>3, <1>6 DEF StreamTypesInv, StreamTypeOK
<1> QED BY <1>5, <1>7 DEF StreamTypesInv

LEMMA OfferTypes == ASSUME StreamTypesInv, NEW e \in Posted, Offer(e) PROVE StreamTypesInv'
<1> DEFINE id == Id(e)
<1>1. /\ request[e] = "offered" /\ Len(held) < Window
      /\ held' = Append(held, id) /\ request' = [request EXCEPT ![e] = "waiting"]
      /\ UNCHANGED <<stream, produced, server, up, position, reader, sending, confirmed, pending, signals,
                     tries, mishaps, delivered, refused, skipped>>
  BY DEF Offer
<1>2. e \in Events /\ stream = "webhook" /\ tries[e] >= 1
  BY <1>1, Log DEF StreamTypesInv, IdsInv
<1>3. id \in RowIds
  BY <1>2, StreamNumbers DEF RowIds, Id
<1> HIDE DEF id
<1>4. /\ held' \in Seq(RowIds) /\ Len(held') <= Window
  BY <1>1, <1>2, <1>3, HoldsOneMore
<1>5. /\ request' \in [Events -> Requests]
      /\ \A f \in Events : request'[f] \in {"offered", "waiting"} => tries[f] >= 1
  BY <1>1, <1>2 DEF StreamTypesInv, StreamTypeOK, IdsInv, Requests
<1>6. IdsInv'
  BY <1>1, <1>2, <1>4, <1>5 DEF StreamTypesInv, IdsInv
<1>7. Range(held') \subseteq RowIds
  BY <1>4, ElementsOf
<1>8. StreamTypeOK'
  BY <1>1, <1>4, <1>5, <1>7 DEF StreamTypesInv, StreamTypeOK
<1> QED BY <1>6, <1>8 DEF StreamTypesInv

\* A post is answered, in time or not; its ID is forgotten.
LEMMA AnsweredTypes ==
  ASSUME StreamTypesInv, NEW e \in Events, request[e] \in {"offered", "waiting"},
         NEW a \in {"ok", "failed"}, request' = [request EXCEPT ![e] = a],
         NEW id, pending' = pending \ {id}, signals' \subseteq signals,
         mishaps' \in 0..MaxMishaps, UNCHANGED handlerFrame
  PROVE  StreamTypesInv'
<1>1. UNCHANGED <<stream, produced, server, up, position, reader, sending, confirmed, held, tries,
                  delivered, refused, skipped>>
  BY DEF handlerFrame
<1>2. /\ request' \in [Events -> Requests]
      /\ \A f \in Events : /\ request'[f] # "none" => stream = "webhook"
                           /\ request'[f] \in {"offered", "waiting"} => tries[f] >= 1
  BY DEF StreamTypesInv, StreamTypeOK, IdsInv, Requests
<1>3. IdsInv'
  BY <1>1, <1>2 DEF StreamTypesInv, IdsInv
<1>4. StreamTypeOK'
  BY <1>1, <1>2 DEF StreamTypesInv, StreamTypeOK
<1> QED BY <1>3, <1>4 DEF StreamTypesInv

LEMMA HandlerTypes ==
  ASSUME StreamTypesInv, NEW e \in Posted, Answer(e) \/ AckTimeout(e) \/ SenderLeaves(e)
  PROVE  StreamTypesInv'
<1>1. e \in Events /\ mishaps \in 0..MaxMishaps
  BY Log, StreamNumbers
<1>2. CASE Answer(e)
  <2>1. PICK s \in signals :
          request' = [request EXCEPT ![e] = IF s.ok THEN "ok" ELSE "failed"] /\ signals' = signals \ {s}
    BY <1>2 DEF Answer
  <2> DEFINE a == IF s.ok THEN "ok" ELSE "failed"
  <2>2. a \in {"ok", "failed"} /\ request' = [request EXCEPT ![e] = a] /\ signals' \subseteq signals
    BY <2>1
  <2> HIDE DEF a
  <2>3. /\ request[e] \in {"offered", "waiting"} /\ pending' = pending \ {Id(e)} /\ mishaps' = mishaps
        /\ UNCHANGED handlerFrame
    BY <1>2 DEF Answer
  <2> QED BY <1>1, <2>2, <2>3, AnsweredTypes
<1>3. CASE AckTimeout(e)
  <2>1. /\ request[e] \in {"offered", "waiting"} /\ pending' = pending \ {Id(e)} /\ mishaps' = mishaps
        /\ request' = [request EXCEPT ![e] = "failed"] /\ signals' = signals /\ UNCHANGED handlerFrame
    BY <1>3 DEF AckTimeout
  <2> QED BY <1>1, <2>1, AnsweredTypes
<1>4. CASE SenderLeaves(e)
  <2>1. /\ request[e] \in {"offered", "waiting"} /\ pending' = pending \ {Id(e)} /\ Mishap
        /\ request' = [request EXCEPT ![e] = "failed"] /\ signals' = signals /\ UNCHANGED handlerFrame
    BY <1>4 DEF SenderLeaves
  <2> QED BY <1>1, <2>1, MishapType, AnsweredTypes
<1> QED BY <1>2, <1>3, <1>4

LEMMA StandbyTypes == StreamTypesInv /\ StandbyStatus => StreamTypesInv'
<1> SUFFICES ASSUME StreamTypesInv, StandbyStatus PROVE StreamTypesInv' OBVIOUS
<1>1. /\ server' \in {confirmed, server}
      /\ UNCHANGED <<stream, produced, up, position, reader, sending, confirmed, pending, signals, request,
                     held, tries, mishaps, delivered, refused, skipped>>
  BY DEF StandbyStatus, Reports
<1>2. server' \in 0..Len(TxEnd) /\ server' <= produced
  BY <1>1, StreamNumbers DEF StreamTypesInv, StreamTypeOK
<1>3. IdsInv'
  BY <1>1 DEF StreamTypesInv, IdsInv
<1>4. StreamTypeOK'
  BY <1>1, <1>2 DEF StreamTypesInv, StreamTypeOK
<1> QED BY <1>3, <1>4 DEF StreamTypesInv

LEMMA HoldsOneLess ==
  ASSUME StreamTypesInv, held # <<>>, held' = Tail(held)
  PROVE  /\ Head(held) \in RowIds /\ (stream # "webhook" => Head(held).event <= produced)
         /\ held' \in Seq(RowIds) /\ Len(held') <= Window /\ Range(held') \subseteq RowIds
         /\ stream # "webhook" => \A i \in DOMAIN held' : held'[i].event <= produced
<1>1. held \in Seq(RowIds) /\ (stream # "webhook" => \A i \in DOMAIN held : held[i].event <= produced)
  BY DEF StreamTypesInv, IdsInv
<1>2. /\ held' \in Seq(RowIds) /\ Len(held') = Len(held) - 1
      /\ \A i \in DOMAIN held' : held'[i] = held[i + 1] /\ i + 1 \in DOMAIN held
  BY <1>1
<1>3. Head(held) = held[1] /\ 1 \in DOMAIN held
  BY <1>1
<1>4. Len(held') <= Window
  BY <1>2, StreamNumbers
<1>5. Range(held') \subseteq RowIds
  BY <1>2, ElementsOf
<1> QED BY <1>1, <1>2, <1>3, <1>4, <1>5

(* What Ack and Nack do, whatever became of the ID in between.              *)
LEMMA SettleTypes ==
  ASSUME StreamTypesInv, held # <<>>, NEW acked \in BOOLEAN, Settle(acked),
         mishaps' \in 0..MaxMishaps, delivered' \subseteq Events, refused' \subseteq Events
  PROVE  StreamTypesInv'
<1> DEFINE id == Head(held)
<1>1. /\ held' = Tail(held)
      /\ IF id \in pending
           THEN /\ pending' = pending \ {id}
                /\ IF stream = "webhook" THEN Signal(id, acked) ELSE Advance(id.event, acked)
           ELSE UNCHANGED <<pending, confirmed, server, signals>>
      /\ UNCHANGED <<stream, produced, up, position, reader, sending, request, tries, skipped>>
  BY DEF Settle
<1>2. /\ id \in RowIds /\ (stream # "webhook" => id.event <= produced)
      /\ held' \in Seq(RowIds) /\ Len(held') <= Window /\ Range(held') \subseteq RowIds
      /\ stream # "webhook" => \A i \in DOMAIN held' : held'[i].event <= produced
  BY <1>1, HoldsOneLess
<1> HIDE DEF id
<1>3. id.event \in Events /\ id.event \in Nat
  BY <1>2, Log DEF RowIds
<1>4. pending' \subseteq pending
  BY <1>1
<1>5. /\ confirmed' \in 0..Len(TxEnd) /\ confirmed' <= produced
      /\ server' \in 0..Len(TxEnd) /\ server' <= produced
  <2>1. stream = "cdc" => TxEnd[id.event] \in 0..Len(TxEnd) /\ TxEnd[id.event] <= produced
    BY <1>2, <1>3, Log DEF StreamTypesInv, IdsInv
  <2>2. /\ confirmed' = confirmed \/ (stream = "cdc" /\ confirmed' = TxEnd[id.event])
        /\ server' = server \/ (stream = "kafka" /\ server' = id.event)
    BY <1>1 DEF Signal, Advance
  <2>3. stream = "kafka" => id.event \in 0..Len(TxEnd) /\ id.event <= produced
    BY <1>2, <1>3, Log
  <2>4. confirmed \in 0..Len(TxEnd) /\ confirmed <= produced
        /\ server \in 0..Len(TxEnd) /\ server <= produced
    BY DEF StreamTypesInv, StreamTypeOK, IdsInv
  <2> QED BY <2>1, <2>2, <2>3, <2>4
<1>6. /\ signals' \subseteq [id : RowIds, ok : BOOLEAN]
      /\ \A s, t \in signals' : s.id = t.id => s = t
      /\ \A s \in signals' : s.id.try <= tries[s.id.event] /\ s.id \notin pending'
  <2>1. /\ signals \subseteq [id : RowIds, ok : BOOLEAN]
        /\ \A s, t \in signals : s.id = t.id => s = t
        /\ \A s \in signals : s.id.try <= tries[s.id.event] /\ s.id \notin pending
    BY DEF StreamTypesInv, StreamTypeOK, IdsInv
  <2>2. CASE signals' = signals
    BY <1>4, <2>1, <2>2
  <2>3. CASE signals' # signals
    <3> DEFINE new == [id |-> id, ok |-> acked]
    <3>1. id \in pending /\ pending' = pending \ {id} /\ signals' = signals \cup {new}
      BY <1>1, <2>3 DEF Signal, Advance
    <3>2. new.id = id /\ new \in [id : RowIds, ok : BOOLEAN] /\ id.try <= tries[id.event]
      BY <1>2, <3>1 DEF StreamTypesInv, IdsInv
    <3> HIDE DEF new
    <3>3. \A s \in signals : s.id # id
      BY <2>1, <3>1
    <3> QED BY <1>4, <2>1, <3>1, <3>2, <3>3
  <2> QED BY <2>2, <2>3
<1>7. IdsInv'
  BY <1>1, <1>2, <1>4, <1>5, <1>6 DEF StreamTypesInv, IdsInv
<1>8. StreamTypeOK'
  BY <1>1, <1>2, <1>4, <1>5, <1>6 DEF StreamTypesInv, StreamTypeOK
<1> QED BY <1>7, <1>8 DEF StreamTypesInv

LEMMA ConsumerTypes == StreamTypesInv /\ (Ack \/ Nack \/ AckFails) => StreamTypesInv'
<1> SUFFICES ASSUME StreamTypesInv, Ack \/ Nack \/ AckFails PROVE StreamTypesInv' OBVIOUS
<1>1. held # <<>> /\ held' = Tail(held)
  BY DEF Ack, Nack, AckFails, Settle
<1>2. Head(held).event \in Events /\ delivered \subseteq Events /\ refused \subseteq Events
      /\ mishaps \in 0..MaxMishaps
  BY <1>1, HoldsOneLess DEF RowIds, StreamTypesInv, StreamTypeOK
<1>3. CASE Ack
  <2>1. Settle(TRUE) /\ delivered' \subseteq Events /\ refused' = refused /\ mishaps' = mishaps
    BY <1>2, <1>3 DEF Ack
  <2> QED BY <1>1, <1>2, <2>1, SettleTypes
<1>4. CASE Nack
  <2>1. Settle(FALSE) /\ refused' \subseteq Events /\ delivered' = delivered /\ Mishap
    BY <1>2, <1>4 DEF Nack
  <2> QED BY <1>1, <1>2, <2>1, MishapType, SettleTypes
<1>5. CASE AckFails
  <2>1. /\ delivered' \subseteq Events /\ Mishap
        /\ UNCHANGED <<stream, produced, server, up, position, reader, sending, confirmed, pending, signals,
                       request, tries, refused, skipped>>
    BY <1>2, <1>5 DEF AckFails
  <2>2. /\ held' \in Seq(RowIds) /\ Len(held') <= Window /\ Range(held') \subseteq RowIds
        /\ stream # "webhook" => \A i \in DOMAIN held' : held'[i].event <= produced
    BY <1>1, HoldsOneLess
  <2>3. IdsInv'
    BY <2>1, <2>2 DEF StreamTypesInv, IdsInv
  <2>4. mishaps' \in 0..MaxMishaps
    BY <2>1, MishapType
  <2>5. StreamTypeOK'
    BY <2>1, <2>2, <2>4 DEF StreamTypesInv, StreamTypeOK
  <2> QED BY <2>3, <2>5 DEF StreamTypesInv
<1> QED BY <1>3, <1>4, <1>5

LEMMA TypesStep == StreamTypesInv /\ [StreamNext]_streamVars => StreamTypesInv'
<1> SUFFICES ASSUME StreamTypesInv, [StreamNext]_streamVars PROVE StreamTypesInv' OBVIOUS
<1>1. CASE UNCHANGED streamVars
  BY <1>1 DEF streamVars, StreamTypesInv, StreamTypeOK, IdsInv
<1>2. CASE Produce \/ Crash \/ EndSubscribe \/ Subscribe
  BY <1>2, ProduceTypes, CrashTypes, EndSubscribeTypes, SubscribeTypes
<1>3. CASE Receive \/ Record \/ Send \/ StandbyStatus
  BY <1>3, ReceiveTypes, RecordTypes, SendTypes, StandbyTypes
<1>4. CASE Ack \/ Nack \/ AckFails
  BY <1>4, ConsumerTypes
<1>5. CASE \E e \in Posted : Post(e) \/ Offer(e) \/ Answer(e) \/ AckTimeout(e) \/ SenderLeaves(e)
  BY <1>5, PostTypes, OfferTypes, HandlerTypes
<1> QED BY <1>1, <1>2, <1>3, <1>4, <1>5 DEF StreamNext

(* Types of the streaming sources: positions stay within the log, the       *)
(* consumer within its window, and of the answers that wait for the posts   *)
(* of webhooks no two are to one post, through late answers and retries.    *)
THEOREM StreamTypeCorrect == StreamSpec => []StreamTypeOK
<1>1. StreamTypesInv => StreamTypeOK
  BY DEF StreamTypesInv
<1> QED BY <1>1, InitTypes, TypesStep, PTL DEF StreamSpec
=============================================================================
