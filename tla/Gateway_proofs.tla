--------------------------- MODULE Gateway_proofs ----------------------------
(***************************************************************************)
(* Proofs about Gateway, for every history size, socket queue, set of      *)
(* messages and number of topics: shutdown joins every thread, the join    *)
(* has an end; commands answer their messages; the feed is the newest      *)
(* frames in order, and no frame the kernel has queued is dropped.         *)
(***************************************************************************)
EXTENDS Gateway, SequenceTheorems, TLAPS

(* Shutdown: what main() has waited for stays as it was left. *)

Waited ==
    /\ main \in {"disconnect", "close", "closeFd", "joinRx", "done"} => server = "ended"
    /\ main \in {"close", "closeFd", "joinRx", "done"} => ~connected
    /\ main \in {"joinRx", "done"} => ~open
    /\ main = "done" => rx = "ended"

LEMMA WaitedInductive == Waited /\ [Next]_vars => Waited'
<1> SUFFICES ASSUME Waited, [Next]_vars PROVE Waited'
  OBVIOUS
<1> USE DEF Waited, connected, threads, can, bus, feed, commands
<1>1. CASE Main
  BY <1>1 DEF Main, OpenOk, OpenFails, Connect, Start, LeaveLoop, StopServer,
              JoinServer, Disconnect, CloseBus, CloseFd, JoinRx
<1>2. CASE Signal \/ ServerStep \/ Lose
  BY <1>2 DEF Signal, ServerStep, Lose
<1>3. CASE TelemetryOnBus \/ OtherOnBus
  BY <1>3 DEF TelemetryOnBus, OtherOnBus, Queue
<1>4. CASE Rx \/ RxInterfaceDown
  BY <1>4 DEF Rx, RxTest, RxCall, RxReceive, RxCache, RxCheck, RxPublish, RxInterfaceDown
<1>5. CASE (\E m \in Messages : Arrive(m)) \/ CbCheck \/ CbWrite
  BY <1>5 DEF Arrive, CbCheck, CbWrite
<1>6. CASE Ended \/ UNCHANGED vars
  BY <1>6 DEF Ended, vars
<1> QED BY <1>1, <1>2, <1>3, <1>4, <1>5, <1>6 DEF Next

\* main() returns only after the receive thread and the server thread have
\* ended, the socket is closed and the broker is disconnected, whatever came
\* in between (gateway/src/main.cpp:103-115 and the stops it calls).
THEOREM ShutdownJoins == Spec => []DoneMeansJoined
<1>1. Init => Waited
  BY DEF Init, Waited
<1>2. Waited => DoneMeansJoined
  BY DEF Waited, DoneMeansJoined
<1> QED BY <1>1, <1>2, WaitedInductive, PTL DEF Spec

------------------------------------------------------------------------------
(* Commands: the callback thread holds the command of the last message that *)
(* arrived, and has written nothing for it yet.                             *)

InHand ==
    /\ handled \in Seq(Messages) /\ sent \in Seq(Nat \X UNION {{Translate(m)[1]} : m \in Messages})
    /\ cb # "idle" =>
          /\ handled # <<>> /\ hand # <<>> /\ hand = Translate(handled[Len(handled)])
          /\ \A i \in DOMAIN sent : sent[i][1] < Len(handled)

Answered == InHand /\ CommandsAnswerMessages

\* A message becomes one command frame or none (MqttPublisher.cpp:81-112).
LEMMA OneCommandOrNone ==
    ASSUME NEW m
    PROVE  Translate(m) # <<>> => Translate(m) = <<Translate(m)[1]>>
  BY DEF Translate

LEMMA ArriveAnswered ==
    ASSUME Answered, NEW m \in Messages, Arrive(m) PROVE Answered'
<1>1. handled' = Append(handled, m) /\ hand' = Translate(m) /\ sent' = sent
  BY DEF Arrive
<1>2. /\ handled' \in Seq(Messages) /\ Len(handled') = Len(handled) + 1
      /\ handled'[Len(handled')] = m
      /\ \A i \in 1 .. Len(handled) : handled'[i] = handled[i]
      /\ DOMAIN handled = 1 .. Len(handled) /\ DOMAIN handled' = 1 .. Len(handled')
  BY <1>1 DEF Answered, InHand
<1>3. InHand'
  BY <1>1, <1>2 DEF Answered, InHand, CommandsAnswerMessages, Arrive
<1>4. CommandsAnswerMessages'
  BY <1>1, <1>2 DEF Answered, InHand, CommandsAnswerMessages
<1> QED BY <1>3, <1>4 DEF Answered

LEMMA WriteAnswered ==
    ASSUME Answered, CbWrite, sent' = Append(sent, <<Len(handled), hand[1]>>)
    PROVE  Answered'
<1> DEFINE k == Len(handled)
<1>1. /\ handled \in Seq(Messages) /\ handled # <<>> /\ hand # <<>>
      /\ hand = Translate(handled[k]) /\ handled' = handled /\ cb' = "idle"
      /\ \A i \in DOMAIN sent : sent[i][1] < k
  BY DEF Answered, InHand, CbWrite
<1>2. k \in DOMAIN handled /\ k \in Nat /\ handled[k] \in Messages
  BY <1>1
<1>3. Translate(handled[k]) = <<hand[1]>>
  BY <1>1, OneCommandOrNone
<1>4. sent' \in Seq(Nat \X UNION {{Translate(m)[1]} : m \in Messages})
  <2>1. hand[1] \in UNION {{Translate(m)[1]} : m \in Messages}
    BY <1>1, <1>2
  <2> QED BY <2>1, <1>2 DEF Answered, InHand
<1>5. /\ Len(sent') = Len(sent) + 1 /\ sent'[Len(sent')] = <<k, hand[1]>>
      /\ \A i \in 1 .. Len(sent) : sent'[i] = sent[i]
      /\ DOMAIN sent = 1 .. Len(sent) /\ DOMAIN sent' = 1 .. Len(sent')
  BY DEF Answered, InHand
<1>6. CommandsAnswerMessages'
  <2>1. \A i \in DOMAIN sent' : /\ sent'[i][1] \in DOMAIN handled
                                /\ Translate(handled[sent'[i][1]]) = <<sent'[i][2]>>
    BY <1>2, <1>3, <1>5 DEF Answered, CommandsAnswerMessages
  <2>2. \A i, j \in DOMAIN sent' : i < j => sent'[i][1] < sent'[j][1]
    BY <1>1, <1>2, <1>5 DEF Answered, CommandsAnswerMessages
  <2> QED BY <1>1, <2>1, <2>2 DEF CommandsAnswerMessages
<1> QED BY <1>1, <1>4, <1>6 DEF Answered, InHand

LEMMA AnsweredInductive == Answered /\ [Next]_vars => Answered'
<1> SUFFICES ASSUME Answered, [Next]_vars PROVE Answered'
  OBVIOUS
<1>1. ASSUME UNCHANGED commands PROVE Answered'
  BY <1>1 DEF Answered, InHand, CommandsAnswerMessages, commands
<1>2. CASE \E m \in Messages : Arrive(m)
  BY <1>2, ArriveAnswered
<1>3. CASE CbCheck
  BY <1>3 DEF CbCheck, Answered, InHand, CommandsAnswerMessages
<1>4. CASE CbWrite
  <2>1. CASE UNCHANGED sent
    BY <1>4, <2>1 DEF CbWrite, Answered, InHand, CommandsAnswerMessages
  <2> QED BY <1>4, <2>1, WriteAnswered DEF CbWrite
<1>5. CASE Main
  BY <1>5, <1>1 DEF Main, OpenOk, OpenFails, Connect, Start, LeaveLoop, StopServer,
              JoinServer, Disconnect, CloseBus, CloseFd, JoinRx
<1>6. CASE Signal \/ ServerStep \/ Lose \/ TelemetryOnBus \/ OtherOnBus
  BY <1>6, <1>1 DEF Signal, ServerStep, Lose, TelemetryOnBus, OtherOnBus, Queue
<1>7. CASE Rx \/ RxInterfaceDown
  BY <1>7, <1>1 DEF Rx, RxTest, RxCall, RxReceive, RxCache, RxCheck, RxPublish,
              RxInterfaceDown
<1>8. CASE Ended \/ UNCHANGED vars
  BY <1>8, <1>1 DEF Ended, vars
<1> QED BY <1>2, <1>3, <1>4, <1>5, <1>6, <1>7, <1>8 DEF Next

\* Every command frame written to the bus is the translation of one message
\* that arrived, no message is answered twice and none out of order, whatever
\* messages come and however often a write fails (MqttPublisher.cpp:81-112
\* against SocketCanFd.cpp:81-102 and close_bus()).
THEOREM CommandsAnswer == Spec => []CommandsAnswerMessages
<1>1. Init => Answered
  BY DEF Init, Answered, InHand, CommandsAnswerMessages
<1>2. Answered => CommandsAnswerMessages
  BY DEF Answered
<1> QED BY <1>1, <1>2, AnsweredInductive, PTL DEF Spec

------------------------------------------------------------------------------
(* The feed: frames pass from the socket's queue through the hand of the    *)
(* receive thread to the cache in the order of their numbers.               *)

InOrder ==
    /\ arrived \in Nat /\ frame \in Nat
    /\ inbox \in Seq(Nat) /\ cached \in Seq(Nat)
    /\ \A i \in 1 .. Len(inbox) : inbox[i] <= arrived
    /\ \A i, j \in 1 .. Len(inbox) : i < j /\ inbox[j] # Other => inbox[i] < inbox[j]
    /\ \A i \in 1 .. Len(cached) : cached[i] \in 1 .. arrived
    /\ \A i, j \in 1 .. Len(cached) : i < j => cached[i] < cached[j]
    /\ \A i \in 1 .. Len(cached), j \in 1 .. Len(inbox) : inbox[j] # Other => cached[i] < inbox[j]
    /\ rx = "cache" =>
          /\ frame \in 1 .. arrived
          /\ \A i \in 1 .. Len(cached) : cached[i] < frame
          /\ \A j \in 1 .. Len(inbox) : inbox[j] # Other => frame < inbox[j]
    /\ rx \in {"check", "publish"} => cached # <<>> /\ frame = cached[Len(cached)]

\* What the API holds, as positions in the sequence of cached frames.
Kept ==
    /\ history \in Seq(Nat)
    /\ Len(history) = IF Len(cached) <= HistoryMax THEN Len(cached) ELSE HistoryMax
    /\ \A k \in 1 .. Len(history) : history[k] = cached[Len(cached) - Len(history) + k]
    /\ latest = IF cached = <<>> THEN None ELSE cached[Len(cached)]

Feed == InOrder /\ Kept

LEMMA InitFeed == Init => Feed
  BY GatewayAssumption DEF Init, Feed, InOrder, Kept, Other, None

\* A frame enters the queue behind all others, with the next number or none.
LEMMA QueueInOrder ==
    ASSUME InOrder, TelemetryOnBus \/ OtherOnBus PROVE InOrder'
<1> PICK f \in Nat : /\ Queue(f) /\ arrived' >= arrived /\ arrived' \in Nat
                     /\ f = Other \/ (f = arrived + 1 /\ arrived' = f)
  BY DEF InOrder, TelemetryOnBus, OtherOnBus, Other
<1>1. UNCHANGED <<cached, frame, rx>>
  BY DEF Queue, can, feed
<1>2. CASE inbox' = inbox
  BY <1>1, <1>2 DEF InOrder
<1>3. CASE inbox' = Append(inbox, f)
  <2>1. /\ inbox' \in Seq(Nat) /\ Len(inbox') = Len(inbox) + 1 /\ inbox'[Len(inbox')] = f
        /\ \A i \in 1 .. Len(inbox) : inbox'[i] = inbox[i] /\ inbox[i] \in Nat
        /\ Len(inbox) \in Nat
    BY <1>3 DEF InOrder
  <2>2. ASSUME NEW i \in 1 .. Len(inbox') PROVE inbox'[i] <= arrived'
    <3>1. CASE i = Len(inbox')
      BY <2>1, <3>1 DEF InOrder, Other
    <3>2. CASE i \in 1 .. Len(inbox)
      <4>1. inbox'[i] = inbox[i] /\ inbox[i] <= arrived /\ inbox[i] \in Nat
        BY <2>1, <3>2 DEF InOrder
      <4> QED BY <4>1 DEF InOrder
    <3> QED BY <2>1, <3>1, <3>2
  <2>3. ASSUME NEW i \in 1 .. Len(inbox'), NEW j \in 1 .. Len(inbox'),
               i < j, inbox'[j] # Other
        PROVE  inbox'[i] < inbox'[j]
    <3>1. i \in 1 .. Len(inbox) /\ inbox'[i] = inbox[i] /\ inbox[i] <= arrived
          /\ inbox[i] \in Nat /\ arrived \in Nat
      BY <2>1, <2>3 DEF InOrder
    <3>2. CASE j = Len(inbox')
      BY <2>1, <2>3, <3>1, <3>2
    <3>3. CASE j \in 1 .. Len(inbox)
      BY <2>1, <2>3, <3>1, <3>3 DEF InOrder
    <3> QED BY <2>1, <3>2, <3>3
  <2>4. ASSUME NEW n \in Nat, n <= arrived,
               \A j \in 1 .. Len(inbox) : inbox[j] # Other => n < inbox[j],
               NEW j \in 1 .. Len(inbox'), inbox'[j] # Other
        PROVE  n < inbox'[j]
    <3>1. CASE j = Len(inbox')
      BY <2>1, <2>4, <3>1 DEF InOrder
    <3>2. CASE j \in 1 .. Len(inbox)
      BY <2>1, <2>4, <3>2
    <3> QED BY <2>1, <3>1, <3>2
  <2>5. ASSUME NEW i \in 1 .. Len(cached)
        PROVE  /\ cached[i] \in 1 .. arrived'
               /\ \A j \in 1 .. Len(inbox') : inbox'[j] # Other => cached[i] < inbox'[j]
    <3>1. /\ cached[i] \in 1 .. arrived /\ arrived \in Nat
          /\ \A j \in 1 .. Len(inbox) : inbox[j] # Other => cached[i] < inbox[j]
      BY DEF InOrder
    <3> QED BY <2>4, <3>1
  <2>6. rx = "cache" => /\ frame \in 1 .. arrived'
                        /\ \A j \in 1 .. Len(inbox') : inbox'[j] # Other => frame < inbox'[j]
    <3>1. rx = "cache" =>
             /\ frame \in 1 .. arrived /\ arrived \in Nat
             /\ \A j \in 1 .. Len(inbox) : inbox[j] # Other => frame < inbox[j]
      BY DEF InOrder
    <3> QED BY <2>4, <3>1
  <2> QED BY <1>1, <2>1, <2>2, <2>3, <2>5, <2>6 DEF InOrder
<1> QED BY <1>2, <1>3 DEF Queue

LEMMA ReceiveInOrder == ASSUME InOrder, RxReceive PROVE InOrder'
<1>1. /\ inbox' \in Seq(Nat) /\ Len(inbox') = Len(inbox) - 1 /\ frame' = inbox[1]
      /\ \A i \in 1 .. Len(inbox) - 1 : inbox'[i] = inbox[i + 1]
      /\ DOMAIN inbox = 1 .. Len(inbox) /\ DOMAIN inbox' = 1 .. Len(inbox')
      /\ Len(inbox) \in Nat \ {0}
  BY DEF InOrder, RxReceive
<1>2. UNCHANGED <<cached, arrived>> /\ rx' = IF frame' = Other THEN "test" ELSE "cache"
  BY DEF RxReceive, feed
<1>3. /\ \A i \in 1 .. Len(inbox) : inbox[i] \in Nat /\ inbox[i] <= arrived
      /\ \A i, j \in 1 .. Len(inbox) : i < j /\ inbox[j] # Other => inbox[i] < inbox[j]
      /\ \A i \in 1 .. Len(cached), j \in 1 .. Len(inbox) :
            inbox[j] # Other => cached[i] < inbox[j]
  BY DEF InOrder
<1>4. \A i \in 1 .. Len(inbox') : i + 1 \in 1 .. Len(inbox) /\ inbox'[i] = inbox[i + 1]
  BY <1>1
<1>5. 1 \in 1 .. Len(inbox) /\ \A i \in 1 .. Len(inbox') : 1 < i + 1
  BY <1>1
<1>6. /\ \A i \in 1 .. Len(inbox') : inbox'[i] <= arrived
      /\ \A i \in 1 .. Len(cached), j \in 1 .. Len(inbox') :
            inbox'[j] # Other => cached[i] < inbox'[j]
  BY <1>3, <1>4
<1>7. ASSUME NEW i \in 1 .. Len(inbox'), NEW j \in 1 .. Len(inbox'),
             i < j, inbox'[j] # Other
      PROVE  inbox'[i] < inbox'[j]
  <2>1. i + 1 < j + 1
    BY <1>1, <1>7
  <2> QED BY <1>3, <1>4, <1>7, <2>1
<1>8. /\ frame' \in Nat /\ frame' <= arrived /\ (frame' # Other => frame' >= 1)
      /\ frame' # Other => \A i \in 1 .. Len(cached) : cached[i] < frame'
      /\ \A j \in 1 .. Len(inbox') : inbox'[j] # Other => frame' < inbox'[j]
  BY <1>1, <1>3, <1>4, <1>5 DEF Other
<1> QED BY <1>1, <1>2, <1>6, <1>7, <1>8 DEF InOrder

\* update_telemetry() appends to the cache what is newer than all of it.
LEMMA CacheFeed == ASSUME Feed, RxCache PROVE Feed'
<1>1. /\ cached' = Append(cached, frame) /\ frame' = frame /\ latest' = frame
      /\ history' = Trim(Append(history, frame)) /\ rx = "cache" /\ rx' = "check"
      /\ UNCHANGED <<inbox, arrived>>
  BY DEF RxCache, bus
<1>2. /\ cached' \in Seq(Nat) /\ Len(cached') = Len(cached) + 1 /\ cached'[Len(cached')] = frame
      /\ \A i \in 1 .. Len(cached) : cached'[i] = cached[i]
      /\ DOMAIN cached = 1 .. Len(cached) /\ DOMAIN cached' = 1 .. Len(cached')
      /\ Len(cached) \in Nat /\ cached' # <<>>
  BY <1>1 DEF Feed, InOrder
<1>3. InOrder'
  BY <1>1, <1>2 DEF Feed, InOrder
<1>4. Kept'
  <2> DEFINE h == Append(history, frame)
  <2>1. /\ h \in Seq(Nat) /\ Len(h) = Len(history) + 1 /\ h[Len(h)] = frame
        /\ \A k \in 1 .. Len(history) : h[k] = history[k]
        /\ Len(history) \in Nat
    BY DEF Feed, InOrder, Kept
  <2>2. \A k \in 1 .. Len(history) : history[k] = cached[Len(cached) - Len(history) + k]
    BY DEF Feed, Kept
  <2>3. /\ HistoryMax \in Nat \ {0} /\ Len(history) <= Len(cached)
        /\ Len(history) <= HistoryMax
        /\ Len(history) = Len(cached) \/ Len(history) = HistoryMax
    BY <1>2, <2>1, GatewayAssumption DEF Feed, Kept
  <2> HIDE DEF h
  <2>4. ASSUME NEW k \in 1 .. Len(h) PROVE h[k] = cached'[Len(cached') - Len(h) + k]
    <3>1. CASE k = Len(h)
      <4>1. Len(cached') - Len(h) + k = Len(cached')
        BY <1>2, <2>1, <3>1
      <4> QED BY <1>2, <2>1, <3>1, <4>1
    <3>2. CASE k \in 1 .. Len(history)
      <4> DEFINE p == Len(cached) - Len(history) + k
      <4>1. p \in 1 .. Len(cached) /\ Len(cached') - Len(h) + k = p
        BY <1>2, <2>1, <2>3, <3>2
      <4>2. h[k] = cached[p]
        BY <2>1, <2>2, <3>2
      <4> QED BY <1>2, <4>1, <4>2
    <3> QED BY <2>1, <3>1, <3>2
  <2>5. /\ history' \in Seq(Nat) /\ latest' = frame
        /\ Len(history') = IF Len(cached') <= HistoryMax THEN Len(cached') ELSE HistoryMax
        /\ \A k \in 1 .. Len(history') : history'[k] = cached'[Len(cached') - Len(history') + k]
    <3>1. CASE Len(h) > HistoryMax
      <4>1. history' = Tail(h)
        BY <1>1, <3>1 DEF Trim, h
      <4>2. /\ history' \in Seq(Nat) /\ Len(history') = Len(h) - 1
            /\ \A k \in 1 .. Len(history') : history'[k] = h[k + 1]
        <5>1. h # <<>>
          BY <2>1
        <5> QED BY <2>1, <4>1, <5>1, HeadTailProperties
      <4>3. Len(history) = HistoryMax /\ HistoryMax <= Len(cached)
        BY <1>2, <2>1, <2>3, <3>1
      <4>4. ASSUME NEW k \in 1 .. Len(history')
            PROVE  history'[k] = cached'[Len(cached') - Len(history') + k]
        <5>1. k + 1 \in 1 .. Len(h)
          BY <2>1, <4>2
        <5>2. Len(cached') - Len(h) + (k + 1) = Len(cached') - Len(history') + k
          BY <1>2, <2>1, <4>2
        <5> QED BY <2>4, <4>2, <5>1, <5>2
      <4>5. Len(history') = HistoryMax /\ ~(Len(cached') <= HistoryMax)
        BY <1>2, <2>1, <2>3, <4>2, <4>3
      <4> QED BY <1>1, <4>2, <4>4, <4>5
    <3>2. CASE ~(Len(h) > HistoryMax)
      <4>1. history' = h
        BY <1>1, <3>2 DEF Trim, h
      <4>2. Len(history) = Len(cached)
        BY <1>2, <2>1, <2>3, <3>2
      <4>3. Len(history') = Len(cached') /\ Len(cached') <= HistoryMax
        BY <1>2, <2>1, <2>3, <3>2, <4>1, <4>2
      <4> QED BY <1>1, <2>1, <2>4, <4>1, <4>3
    <3> QED BY <3>1, <3>2
  <2>6. latest' = IF cached' = <<>> THEN None' ELSE cached'[Len(cached')]
    BY <1>1, <1>2
  <2> QED BY <2>5, <2>6 DEF Kept
<1> QED BY <1>3, <1>4 DEF Feed

LEMMA FeedInductive == Feed /\ [Next]_vars => Feed'
<1> SUFFICES ASSUME Feed, [Next]_vars PROVE Feed'
  OBVIOUS
<1> DEFINE rest == <<frame, cached, latest, history>>
<1>1. ASSUME UNCHANGED <<rest, inbox, arrived>>,
             \/ rx' = rx \/ rx' \notin {"cache", "check", "publish"}
             \/ rx = "check" /\ rx' = "publish"
      PROVE  Feed'
  BY <1>1 DEF Feed, InOrder, Kept
<1>2. CASE TelemetryOnBus \/ OtherOnBus
  <2>1. InOrder'
    BY <1>2, QueueInOrder DEF Feed
  <2>2. UNCHANGED <<rest, rx>>
    BY <1>2 DEF TelemetryOnBus, OtherOnBus, Queue, can, feed
  <2> QED BY <2>1, <2>2 DEF Feed, Kept
<1>3. CASE RxReceive
  <2>1. InOrder'
    BY <1>3, ReceiveInOrder DEF Feed
  <2>2. UNCHANGED <<cached, latest, history>>
    BY <1>3 DEF RxReceive, feed
  <2> QED BY <2>1, <2>2 DEF Feed, Kept
<1>4. CASE RxTest \/ RxCall \/ RxInterfaceDown \/ RxCheck
  BY <1>4, <1>1 DEF RxTest, RxCall, RxInterfaceDown, RxCheck, bus, feed
<1>5. CASE RxPublish
  BY <1>5, <1>1 DEF RxPublish, bus
<1>6. CASE Rx
  BY <1>3, <1>4, <1>5, <1>6, CacheFeed DEF Rx
<1>7. CASE Main
  BY <1>7, <1>1 DEF Main, OpenOk, OpenFails, Connect, Start, LeaveLoop, StopServer,
              JoinServer, Disconnect, CloseBus, CloseFd, JoinRx, can, bus, feed
<1>8. CASE Signal \/ ServerStep \/ Lose \/ CbCheck \/ CbWrite \/ \E m \in Messages : Arrive(m)
  BY <1>8, <1>1 DEF Signal, ServerStep, Lose, CbCheck, CbWrite, Arrive, can, bus, feed
<1>9. CASE Ended \/ UNCHANGED vars
  BY <1>9, <1>1 DEF Ended, vars, can, bus, feed
<1> QED BY <1>2, <1>4, <1>6, <1>7, <1>8, <1>9 DEF Next

------------------------------------------------------------------------------
(* MQTT: while the client is connected, every round before the one of the   *)
(* frame in hand is complete; before connect() nothing has been published,  *)
(* and a connection that is gone does not come back.                        *)

\* The round of p is complete, and the frame in hand is the one after it.
RightBefore(p) ==
    /\ p[2] = Topics /\ p[1] < frame
    /\ \A j \in 1 .. Len(cached) : cached[j] <= p[1] \/ frame <= cached[j]

Published ==
    /\ published \in Seq(Nat \X Nat) /\ topic \in 1 .. Topics
    /\ TopicsKeepStep
    /\ published # <<>> => cached # <<>>
    /\ \A i \in 1 .. Len(published) : published[i][1] <= cached[Len(cached)]
    /\ main \in {"open", "connect"} => ~connected /\ published = <<>> /\ rx # "publish"
    /\ connected =>
          /\ rx = "publish" /\ topic > 1 =>
                published # <<>> /\ published[Len(published)] = <<frame, topic - 1>>
          /\ published # <<>> /\ (rx = "check" \/ (rx = "publish" /\ topic = 1)) =>
                RightBefore(published[Len(published)])
          /\ published # <<>> /\ rx \notin {"check", "publish"} =>
                published[Len(published)] = <<cached[Len(cached)], Topics>>

LEMMA InitPublished == Init => Published
  BY GatewayAssumption DEF Init, Published, TopicsKeepStep, connected

\* The frame that is cached comes right after the last one published.
LEMMA CachePublished == ASSUME Feed, Published, RxCache PROVE Published'
<1>1. /\ cached' = Append(cached, frame) /\ frame' = frame /\ rx = "cache" /\ rx' = "check"
      /\ UNCHANGED <<published, topic, main, connected>>
  BY DEF RxCache, threads, connected
<1>2. /\ cached \in Seq(Nat) /\ frame \in Nat
      /\ cached' \in Seq(Nat) /\ Len(cached') = Len(cached) + 1 /\ cached'[Len(cached')] = frame
      /\ \A i \in 1 .. Len(cached) : cached'[i] = cached[i] /\ cached[i] \in Nat
      /\ DOMAIN cached = 1 .. Len(cached) /\ DOMAIN cached' = 1 .. Len(cached')
      /\ Len(cached) \in Nat /\ cached' # <<>>
  BY <1>1 DEF Feed, InOrder
<1>3. \A i \in 1 .. Len(cached) : cached[i] < frame /\ cached[i] <= cached[Len(cached)]
  <2>1. \A i \in 1 .. Len(cached) : cached[i] < frame
    BY <1>1 DEF Feed, InOrder
  <2>2. \A i, j \in 1 .. Len(cached) : i < j => cached[i] < cached[j]
    BY DEF Feed, InOrder
  <2>3. ASSUME NEW i \in 1 .. Len(cached) PROVE cached[i] <= cached[Len(cached)]
    <3>1. Len(cached) \in Nat /\ cached[i] \in Nat
      BY <1>2
    <3>2. (i = Len(cached) \/ i < Len(cached)) /\ Len(cached) \in 1 .. Len(cached)
      BY <3>1
    <3>3. i < Len(cached) => cached[i] < cached[Len(cached)] /\ cached[Len(cached)] \in Nat
      BY <1>2, <2>2, <3>2
    <3> QED BY <3>1, <3>2, <3>3
  <2> QED BY <2>1, <2>3
<1>4. /\ published \in Seq(Nat \X Nat) /\ Len(published) \in Nat
      /\ \A i \in 1 .. Len(published) :
            /\ published[i] \in Nat \X Nat
            /\ published[i][1] <= cached[Len(cached)] /\ published[i][1] < frame
  <2>1. published # <<>> => Len(cached) \in 1 .. Len(cached)
    BY <1>2, EmptySeq DEF Published
  <2>2. ASSUME NEW i \in 1 .. Len(published)
        PROVE  /\ published[i] \in Nat \X Nat
               /\ published[i][1] <= cached[Len(cached)] /\ published[i][1] < frame
    <3>1. published # <<>> /\ published[i] \in Nat \X Nat
          /\ published[i][1] <= cached[Len(cached)]
      BY DEF Published
    <3> QED BY <1>2, <1>3, <2>1, <3>1
  <2> QED BY <2>2 DEF Published
<1>5. TopicsKeepStep'
  <2>1. ASSUME NEW i \in 1 .. Len(published) - 1, NEW j \in DOMAIN cached',
               \A k \in DOMAIN cached : cached[k] <= published[i][1] \/ published[i + 1][1] <= cached[k]
        PROVE  cached'[j] <= published[i][1] \/ published[i + 1][1] <= cached'[j]
    <3>1. i + 1 \in 1 .. Len(published)
      BY <1>4
    <3>2. published[i + 1][1] \in Nat /\ published[i + 1][1] < frame
      BY <1>4, <3>1
    <3>3. CASE j = Len(cached')
      BY <1>2, <3>2, <3>3
    <3>4. CASE j \in 1 .. Len(cached)
      BY <1>2, <2>1, <3>4
    <3> QED BY <1>2, <3>3, <3>4
  <2> QED BY <1>1, <2>1 DEF Published, TopicsKeepStep
<1>6. ASSUME connected', published # <<>> PROVE RightBefore(published[Len(published)])'
  <2>1. published[Len(published)] = <<cached[Len(cached)], Topics>>
    BY <1>1, <1>6 DEF Published
  <2>2. Len(cached) \in 1 .. Len(cached)
    BY <1>2, <1>6, EmptySeq DEF Published
  <2>3. ASSUME NEW j \in 1 .. Len(cached')
        PROVE  cached'[j] <= cached[Len(cached)] \/ frame <= cached'[j]
    BY <1>2, <1>3
  <2> QED BY <1>1, <1>3, <2>1, <2>2, <2>3 DEF RightBefore
<1>7. \A i \in 1 .. Len(published') : published'[i][1] <= cached'[Len(cached')]
  BY <1>1, <1>2, <1>4
<1> QED BY <1>1, <1>2, <1>5, <1>6, <1>7 DEF Published

\* publish_telemetry() sends the last cached frame, one topic after another.
LEMMA PublishPublished == ASSUME Feed, Published, RxPublish PROVE Published'
<1>1. /\ rx = "publish" /\ rx' \in {"publish", "test"}
      /\ UNCHANGED <<cached, frame, main, connected>>
  BY DEF RxPublish, threads, connected
<1>2. /\ published \in Seq(Nat \X Nat) /\ frame \in Nat /\ topic \in 1 .. Topics
      /\ Topics \in Nat /\ cached \in Seq(Nat) /\ cached # <<>> /\ frame = cached[Len(cached)]
      /\ DOMAIN cached = 1 .. Len(cached) /\ Len(published) \in Nat
      /\ main \notin {"open", "connect"}
  BY <1>1, GatewayAssumption DEF Feed, InOrder, Published
<1>3. CASE ~connected
  <2>1. rx' = "test" /\ topic' = topic /\ published' = published
    BY <1>3 DEF RxPublish
  <2> QED BY <1>1, <1>2, <1>3, <2>1 DEF Published, TopicsKeepStep
<1>4. CASE connected
  <2>1. /\ published' = Append(published, <<frame, topic>>)
        /\ \/ topic < Topics /\ topic' = topic + 1 /\ rx' = "publish"
           \/ topic = Topics /\ topic' = topic /\ rx' = "test"
    BY <1>1, <1>2, <1>4 DEF RxPublish
  <2>2. /\ published' \in Seq(Nat \X Nat) /\ Len(published') = Len(published) + 1
        /\ published'[Len(published')] = <<frame, topic>>
        /\ \A i \in 1 .. Len(published) : published'[i] = published[i]
        /\ published' # <<>>
    <3>1. <<frame, topic>> \in Nat \X Nat /\ published \in Seq(Nat \X Nat)
      BY <1>2
    <3>2. published' = Append(published, <<frame, topic>>)
      BY <2>1
    <3> QED BY <3>1, <3>2, AppendProperties
  <2>3. /\ topic > 1 => published # <<>> /\ published[Len(published)] = <<frame, topic - 1>>
        /\ published # <<>> /\ topic = 1 => RightBefore(published[Len(published)])
    BY <1>1, <1>4 DEF Published
  <2>4. published'[1][2] = 1
    <3>1. CASE published = <<>>
      <4>1. topic = 1 /\ Len(published') = 1
        BY <1>2, <2>2, <2>3, <3>1
      <4> QED BY <2>2, <4>1
    <3>2. CASE published # <<>>
      <4>1. 1 \in 1 .. Len(published) /\ published[1][2] = 1
        BY <1>2, <3>2, EmptySeq DEF Published, TopicsKeepStep
      <4> QED BY <2>2, <4>1
    <3> QED BY <3>1, <3>2
  <2>5. ASSUME NEW i \in 1 .. Len(published') - 1
        PROVE  LET this == published'[i]
                   next == published'[i + 1]
               IN  \/ this[2] < Topics /\ next = <<this[1], this[2] + 1>>
                   \/ /\ this[2] = Topics /\ next[2] = 1 /\ this[1] < next[1]
                      /\ \A j \in DOMAIN cached : cached[j] <= this[1] \/ next[1] <= cached[j]
    <3>1. i \in 1 .. Len(published) /\ published'[i] = published[i]
      BY <1>2, <2>2
    <3>2. CASE i \in 1 .. Len(published) - 1
      <4>1. i + 1 \in 1 .. Len(published) /\ published'[i + 1] = published[i + 1]
        BY <1>2, <2>2, <3>2
      <4> QED BY <3>1, <3>2, <4>1 DEF Published, TopicsKeepStep
    <3>3. CASE i = Len(published)
      <4>1. published # <<>> /\ published'[i + 1] = <<frame, topic>>
        BY <2>2, <3>1, <3>3
      <4>2. CASE topic > 1
        <5>1. published'[i] = <<frame, topic - 1>>
          BY <2>3, <3>1, <3>3, <4>2
        <5>2. topic - 1 < Topics /\ topic - 1 + 1 = topic
          BY <1>2
        <5> QED BY <4>1, <5>1, <5>2
      <4>3. CASE topic = 1
        <5>1. RightBefore(published'[i])
          BY <2>3, <3>1, <3>3, <4>1, <4>3
        <5> QED BY <1>2, <4>1, <4>3, <5>1 DEF RightBefore
      <4> QED BY <1>2, <4>2, <4>3
    <3>4. i \in 1 .. Len(published) - 1 \/ i = Len(published)
      BY <1>2, <3>1
    <3> QED BY <3>2, <3>3, <3>4
  <2>6. TopicsKeepStep'
    BY <1>1, <2>4, <2>5 DEF TopicsKeepStep
  <2>7. \A i \in 1 .. Len(published') : published'[i][1] <= cached'[Len(cached')]
    <3> TAKE i \in 1 .. Len(published')
    <3>1. CASE i \in 1 .. Len(published)
      BY <1>1, <2>2, <3>1 DEF Published
    <3>2. CASE i = Len(published')
      BY <1>1, <1>2, <2>2, <3>2
    <3> QED BY <1>2, <2>2, <3>1, <3>2
  <2>8. topic' \in 1 .. Topics /\ (rx' = "publish" => topic' > 1 /\ topic' - 1 = topic)
    BY <1>2, <2>1
  <2>9. rx' = "test" => published'[Len(published')] = <<cached'[Len(cached')], Topics>>
    BY <1>1, <1>2, <2>1, <2>2
  <2>10. /\ rx' = "publish" /\ topic' > 1 =>
                published'[Len(published')] = <<frame', topic' - 1>>
         /\ rx' # "check" /\ ~(rx' = "publish" /\ topic' = 1)
         /\ rx' \notin {"check", "publish"} =>
                published'[Len(published')] = <<cached'[Len(cached')], Topics>>
    <3>1. rx' = "publish" => published'[Len(published')] = <<frame', topic' - 1>> /\ topic' > 1
      BY <1>1, <2>2, <2>8
    <3>2. rx' \notin {"check", "publish"} => rx' = "test"
      BY <1>1
    <3>3. rx' = "publish" => topic' # 1
      BY <2>8
    <3> QED BY <1>1, <2>9, <3>1, <3>2, <3>3
  <2>11. published' # <<>> /\ cached' # <<>> /\ main' \notin {"open", "connect"}
    BY <1>1, <1>2, <2>2
  <2>12. published' \in Seq(Nat \X Nat) /\ topic' \in 1 .. Topics
    BY <2>2, <2>8
  <2> QED BY <2>6, <2>7, <2>10, <2>11, <2>12 DEF Published
<1> QED BY <1>3, <1>4

LEMMA PublishedInductive == Feed /\ Published /\ [Next]_vars => Published'
<1> SUFFICES ASSUME Feed, Published, [Next]_vars PROVE Published'
  OBVIOUS
<1> DEFINE seen == <<cached, published, topic>>
<1>1. ASSUME UNCHANGED seen, connected' => connected, main' \notin {"open", "connect"} \/ main' = main,
             \/ rx' = rx /\ frame' = frame
             \/ rx \notin {"check", "publish"} /\ rx' \notin {"check", "publish"}
      PROVE  Published'
  <2>1. UNCHANGED TopicsKeepStep
    BY <1>1 DEF TopicsKeepStep
  <2> QED BY <1>1, <2>1 DEF Published, RightBefore
<1>2. CASE RxCheck
  <2>1. /\ rx = "check" /\ rx' = (IF connected THEN "publish" ELSE "test") /\ topic' = 1
        /\ UNCHANGED <<frame, cached, published, main, connected>>
    BY <1>2 DEF RxCheck, threads, feed, connected
  <2>2. UNCHANGED TopicsKeepStep
    BY <2>1 DEF TopicsKeepStep
  <2> QED BY <2>1, <2>2, GatewayAssumption DEF Published, RightBefore
<1>3. CASE RxTest \/ RxCall \/ RxReceive
  BY <1>3, <1>1 DEF RxTest, RxCall, RxReceive, threads, feed, connected
<1>4. CASE RxInterfaceDown
  BY <1>4, <1>1 DEF RxInterfaceDown, threads, feed, connected
<1>5. CASE Rx
  BY <1>2, <1>3, <1>5, CachePublished, PublishPublished DEF Rx
<1>6. CASE TelemetryOnBus \/ OtherOnBus
  BY <1>6, <1>1 DEF TelemetryOnBus, OtherOnBus, Queue, threads, can, feed, connected
<1>7. CASE Main
  <2>1. CASE OpenOk
    <3>1. /\ UNCHANGED <<seen, connected>> /\ main = "open" /\ rx' = "test"
      BY <2>1 DEF OpenOk, feed, connected
    <3>2. UNCHANGED TopicsKeepStep
      BY <3>1 DEF TopicsKeepStep
    <3> QED BY <3>1, <3>2 DEF Published
  <2>2. CASE Connect
    <3>1. /\ UNCHANGED <<seen, frame, rx>> /\ main = "connect" /\ main' = "start"
      BY <2>2 DEF Connect, feed, can
    <3>2. published = <<>> /\ rx # "publish"
      BY <3>1 DEF Published
    <3>3. UNCHANGED TopicsKeepStep
      BY <3>1 DEF TopicsKeepStep
    <3> QED BY <3>1, <3>2, <3>3 DEF Published
  <2>3. CASE OpenFails \/ Start \/ LeaveLoop \/ StopServer \/ JoinServer \/ Disconnect
             \/ CloseBus \/ CloseFd \/ JoinRx
    BY <2>3, <1>1 DEF OpenFails, Start, LeaveLoop, StopServer, JoinServer, Disconnect,
                      CloseBus, CloseFd, JoinRx, can, feed, connected
  <2> QED BY <1>7, <2>1, <2>2, <2>3 DEF Main
<1>8. CASE Signal \/ ServerStep \/ Lose \/ CbCheck \/ CbWrite \/ \E m \in Messages : Arrive(m)
  BY <1>8, <1>1 DEF Signal, ServerStep, Lose, CbCheck, CbWrite, Arrive, threads, can, feed, connected
<1>9. CASE Ended \/ UNCHANGED vars
  BY <1>9, <1>1 DEF Ended, vars, threads, can, feed, connected
<1> QED BY <1>4, <1>5, <1>6, <1>7, <1>8, <1>9 DEF Next

\* Every telemetry frame goes out on every topic, in their order, before the
\* next frame taken off the bus does, and no such frame is left out between
\* two that were published (MqttPublisher.cpp:40-71 under receive_loop()), for
\* any number of topics and a connection lost at any time: only the newest
\* frame published can be missing from a topic.
THEOREM TopicsInStep == Spec => []TopicsKeepStep
<1>1. Published => TopicsKeepStep
  BY DEF Published
<1> QED BY <1>1, InitFeed, FeedInductive, InitPublished, PublishedInductive, PTL DEF Spec

\* A sequence is a suffix of another when its elements are the last ones.
LEMMA LastElementsAreSuffix ==
    ASSUME NEW s \in Seq(Nat), NEW t \in Seq(Nat), Len(s) <= Len(t),
           \A k \in 1 .. Len(s) : s[k] = t[Len(t) - Len(s) + k]
    PROVE  IsSuffix(s, t)
<1> DEFINE r == Reverse(s)
           u == Reverse(t)
<1>1. /\ r \in Seq(Nat) /\ Len(r) = Len(s) /\ \A k \in 1 .. Len(s) : r[k] = s[Len(s) - k + 1]
      /\ u \in Seq(Nat) /\ Len(u) = Len(t) /\ \A k \in 1 .. Len(t) : u[k] = t[Len(t) - k + 1]
  BY DEF Reverse
<1> HIDE DEF r, u
<1>2. \A k \in 1 .. Len(s) : r[k] = u[k]
  <2> TAKE k \in 1 .. Len(s)
  <2>1. /\ Len(s) - k + 1 \in 1 .. Len(s) /\ k \in 1 .. Len(t)
        /\ Len(t) - Len(s) + (Len(s) - k + 1) = Len(t) - k + 1
    OBVIOUS
  <2> QED BY <1>1, <2>1
<1>3. SubSeq(r, 1, Len(r)) = SubSeq(u, 1, Len(r))
  BY <1>1, <1>2
<1> QED BY <1>1, <1>3 DEF IsSuffix, IsPrefix, r, u

\* The history is the newest HistoryMax frames taken off the bus, each once
\* and in order, and both GET requests agree on the newest
\* (HttpsApi.cpp:25-42 and 61-70), for every size of the history.
THEOREM ApiServesNewest == Spec => []HistoryIsNewest
<1>1. ASSUME Feed PROVE HistoryIsNewest
  <2>1. /\ history \in Seq(Nat) /\ cached \in Seq(Nat) /\ HistoryMax \in Nat \ {0}
        /\ Len(history) = IF Len(cached) <= HistoryMax THEN Len(cached) ELSE HistoryMax
        /\ \A k \in 1 .. Len(history) : history[k] = cached[Len(cached) - Len(history) + k]
        /\ latest = IF cached = <<>> THEN None ELSE cached[Len(cached)]
    BY <1>1, GatewayAssumption DEF Feed, InOrder, Kept
  <2>2. Len(history) <= Len(cached) /\ Len(history) <= HistoryMax
        /\ (Len(history) = Len(cached) \/ Len(history) = HistoryMax)
    BY <2>1
  <2>3. IsSuffix(history, cached)
    BY <2>1, <2>2, LastElementsAreSuffix
  <2>4. \A i, j \in DOMAIN cached : i < j => cached[i] < cached[j]
    <3>1. DOMAIN cached = 1 .. Len(cached)
      BY <2>1
    <3> QED BY <1>1, <3>1 DEF Feed, InOrder
  <2>5. IsSuffix(GetLatest, history) /\ (GetLatest = <<>> <=> history = <<>>)
    <3>1. CASE cached = <<>>
      <4>1. GetLatest = <<>> /\ Len(history) = 0
        BY <2>1, <3>1 DEF GetLatest
      <4>2. history = <<>> /\ <<>> \in Seq(Nat)
        BY <2>1, <4>1, EmptySeq
      <4> QED BY <2>1, <4>1, <4>2, LastElementsAreSuffix
    <3>2. CASE cached # <<>>
      <4>1. Len(cached) \in Nat \ {0} /\ Len(cached) \in 1 .. Len(cached)
        BY <2>1, <3>2, EmptySeq
      <4>2. latest = cached[Len(cached)] /\ latest \in Nat
        BY <2>1, <3>2, <4>1
      <4>3. GetLatest = <<latest>> /\ GetLatest \in Seq(Nat) /\ Len(GetLatest) = 1
        BY <4>2 DEF GetLatest, None
      <4>4. Len(history) \in Nat \ {0} /\ history # <<>>
        BY <2>1, <4>1
      <4>5. history[Len(history)] = latest
        <5>1. Len(cached) - Len(history) + Len(history) = Len(cached)
              /\ Len(history) \in 1 .. Len(history)
          BY <4>1, <4>4
        <5> QED BY <2>1, <4>2, <5>1
      <4>6. \A k \in 1 .. Len(GetLatest) : GetLatest[k] = history[Len(history) - Len(GetLatest) + k]
        BY <4>3, <4>4, <4>5
      <4>7. Len(GetLatest) <= Len(history) /\ GetLatest # <<>>
        BY <4>3, <4>4
      <4> QED BY <2>1, <4>3, <4>4, <4>6, <4>7, LastElementsAreSuffix
    <3> QED BY <3>1, <3>2
  <2> QED BY <2>2, <2>3, <2>4, <2>5 DEF HistoryIsNewest, GetHistory
<1> QED BY <1>1, InitFeed, FeedInductive, PTL DEF Spec
------------------------------------------------------------------------------
(* What ends the receive thread, and what it may not lose meanwhile. *)

\* The steps the receive thread may still take once the flag is down and the
\* descriptor closed: those that end the loop, and before them the frame that
\* a read() still waiting brings, with a publish() for each of its topics.
StepsLeft == CASE rx = "test"    -> 1
               [] rx = "call"    -> 2
               [] rx = "publish" -> Topics + 2 - topic
               [] rx = "check"   -> Topics + 2
               [] rx = "cache"   -> Topics + 3
               [] rx = "blocked" -> Topics + 4
               [] OTHER          -> 0

JoinComesNearer ==
    [][main = "joinRx" /\ <<rx, topic>>' # <<rx, topic>>
         => StepsLeft' \in Nat /\ StepsLeft' < StepsLeft /\ StepsLeft <= Topics + 4]_vars

\* What the receive thread finds: it runs only once the bus is open, and the
\* flag and the descriptor stay as close_bus() leaves them.
RxLife ==
    /\ main = "open" => rx = "none"
    /\ main \in {"closeFd", "joinRx", "done"} => ~running
    /\ main \in {"joinRx", "done"} => ~open
    /\ topic \in 1 .. Topics

LEMMA RxLifeInductive == RxLife /\ [Next]_vars => RxLife'
<1> SUFFICES ASSUME RxLife, [Next]_vars PROVE RxLife'
  OBVIOUS
<1> USE GatewayAssumption DEF RxLife, threads, can, bus, feed, commands
<1>1. CASE Main
  BY <1>1 DEF Main, OpenOk, OpenFails, Connect, Start, LeaveLoop, StopServer,
              JoinServer, Disconnect, CloseBus, CloseFd, JoinRx
<1>2. CASE Signal \/ ServerStep \/ Lose
  BY <1>2 DEF Signal, ServerStep, Lose
<1>3. CASE TelemetryOnBus \/ OtherOnBus
  BY <1>3 DEF TelemetryOnBus, OtherOnBus, Queue
<1>4. CASE RxTest \/ RxCall \/ RxReceive \/ RxCache \/ RxInterfaceDown
  BY <1>4 DEF RxTest, RxCall, RxReceive, RxCache, RxInterfaceDown
<1>5. CASE RxCheck \/ RxPublish
  <2>1. topic \in Nat /\ topic' \in 1 .. Topics
    BY <1>5 DEF RxCheck, RxPublish
  <2> QED BY <1>5, <2>1 DEF RxCheck, RxPublish
<1>6. CASE (\E m \in Messages : Arrive(m)) \/ CbCheck \/ CbWrite
  BY <1>6 DEF Arrive, CbCheck, CbWrite
<1>7. CASE Ended \/ UNCHANGED vars
  BY <1>7 DEF Ended, vars
<1> QED BY <1>1, <1>2, <1>3, <1>4, <1>5, <1>6, <1>7 DEF Next, Rx

\* With the flag down and the descriptor closed, the thread passes each place
\* of the loop at most once more.
LEMMA RxStepsAreFewer ==
    ASSUME RxLife, main = "joinRx", Rx \/ RxInterfaceDown
    PROVE  StepsLeft' \in Nat /\ StepsLeft' < StepsLeft /\ StepsLeft <= Topics + 4
<1>1. ~running /\ ~open /\ topic \in Nat /\ topic >= 1 /\ topic <= Topics /\ Topics \in Nat
  BY GatewayAssumption DEF RxLife
<1>2. CASE RxTest
  BY <1>1, <1>2 DEF RxTest, StepsLeft
<1>3. CASE RxCall
  BY <1>1, <1>3 DEF RxCall, StepsLeft
<1>4. CASE RxReceive \/ RxInterfaceDown
  BY <1>1, <1>4 DEF RxReceive, RxInterfaceDown, StepsLeft
<1>5. CASE RxCache
  BY <1>1, <1>5 DEF RxCache, StepsLeft
<1>6. CASE RxCheck
  BY <1>1, <1>6 DEF RxCheck, StepsLeft
<1>7. CASE RxPublish
  <2>1. rx = "publish" /\ (rx' = "test" \/ (rx' = "publish" /\ topic < Topics /\ topic' = topic + 1))
    BY <1>7 DEF RxPublish
  <2> QED BY <1>1, <2>1 DEF StepsLeft
<1> QED BY <1>2, <1>3, <1>4, <1>5, <1>6, <1>7 DEF Rx

\* The join of close_bus() has an end: while main() waits in it, every step of
\* the receive thread brings the thread's end nearer, and it has Topics + 4
\* of them at most, whether a frame, an error or a lost connection meets it
\* (SocketCanFd.cpp:68-79 and 113-129).  It does not say that the thread
\* takes them: a read() nobody answers waits for ever.
THEOREM JoinHasAnEnd == Spec => JoinComesNearer
<1>1. Init => RxLife
  BY GatewayAssumption DEF Init, RxLife
<1>2. ASSUME RxLife, [Next]_vars, main = "joinRx", <<rx, topic>>' # <<rx, topic>>
      PROVE  StepsLeft' \in Nat /\ StepsLeft' < StepsLeft /\ StepsLeft <= Topics + 4
  <2>1. Rx \/ RxInterfaceDown
    <3>1. CASE Main \/ Signal \/ ServerStep \/ Lose
      BY <1>2, <3>1 DEF Main, OpenOk, OpenFails, Connect, Start, LeaveLoop, StopServer, JoinServer,
                        Disconnect, CloseBus, CloseFd, JoinRx, Signal, ServerStep, Lose, can
    <3>2. CASE TelemetryOnBus \/ OtherOnBus \/ CbCheck \/ CbWrite \/ \E m \in Messages : Arrive(m)
      BY <1>2, <3>2 DEF TelemetryOnBus, OtherOnBus, Queue, CbCheck, CbWrite, Arrive, can
    <3>3. CASE Ended \/ UNCHANGED vars
      BY <1>2, <3>3 DEF Ended, vars, can
    <3> QED BY <1>2, <3>1, <3>2, <3>3 DEF Next
  <2> QED BY <1>2, <2>1, RxStepsAreFewer
<1> QED BY <1>1, <1>2, RxLifeInductive, PTL DEF Spec, JoinComesNearer

\* A frame the kernel has queued waits there, is in the hand of the receive
\* thread on its way to the API, or has been given to it.
OnItsWay(n) == \/ \E i \in DOMAIN inbox : inbox[i] = n
               \/ rx = "cache" /\ frame = n
               \/ \E i \in DOMAIN cached : cached[i] = n

NoFrameIsLost == [][\A n \in Nat \ {Other} : OnItsWay(n) => OnItsWay(n)']_vars

\* Every telemetry frame the kernel has queued goes to the API or waits for it:
\* neither other traffic between, nor an error of read(), nor a broker that is
\* gone, nor the end of the loop makes the receive thread drop one it has read
\* (SocketCanFd.cpp:113-129, gateway/src/main.cpp:54-64).  What nobody has read
\* when the socket closes goes with it; here it stays in inbox.
THEOREM QueuedIsKept == Spec => NoFrameIsLost
<1>1. ASSUME Feed, RxLife, [Next]_vars, NEW n \in Nat \ {Other}, OnItsWay(n)
      PROVE  OnItsWay(n)'
  <2>1. /\ inbox \in Seq(Nat) /\ cached \in Seq(Nat) /\ frame \in Nat
        /\ DOMAIN inbox = 1 .. Len(inbox) /\ DOMAIN cached = 1 .. Len(cached)
    BY <1>1 DEF Feed, InOrder
  <2>2. ASSUME UNCHANGED <<inbox, frame, cached>>, rx # "cache" \/ rx' = rx
        PROVE  OnItsWay(n)'
    BY <1>1, <2>2 DEF OnItsWay
  <2>3. CASE TelemetryOnBus \/ OtherOnBus
    <3>1. PICK f \in Nat : Queue(f)
      BY <1>1, <2>3 DEF Feed, InOrder, TelemetryOnBus, OtherOnBus, Other
    <3>2. UNCHANGED <<rx, frame, cached>>
          /\ (inbox' = inbox \/ inbox' = Append(inbox, f))
      BY <3>1 DEF Queue, can, feed
    <3>3. DOMAIN inbox \subseteq DOMAIN inbox' /\ \A i \in DOMAIN inbox : inbox'[i] = inbox[i]
      BY <2>1, <3>1, <3>2
    <3> QED BY <1>1, <3>2, <3>3 DEF OnItsWay
  <2>4. CASE RxReceive
    <3>1. /\ rx = "blocked" /\ inbox # <<>> /\ inbox' = Tail(inbox) /\ frame' = Head(inbox)
          /\ (frame' # Other => rx' = "cache") /\ UNCHANGED cached
      BY <2>4 DEF RxReceive, feed
    <3>2. CASE \E i \in DOMAIN inbox : inbox[i] = n
      <4>1. PICK i \in 1 .. Len(inbox) : inbox[i] = n
        BY <2>1, <3>2
      <4>2. CASE i = 1
        <5>1. frame' = n
          BY <3>1, <4>1, <4>2
        <5> QED BY <3>1, <5>1 DEF OnItsWay
      <4>3. CASE i # 1
        <5>1. i - 1 \in DOMAIN inbox' /\ inbox'[i - 1] = inbox[i]
          BY <2>1, <3>1, <4>1, <4>3
        <5> QED BY <4>1, <5>1 DEF OnItsWay
      <4> QED BY <4>2, <4>3
    <3>3. CASE ~\E i \in DOMAIN inbox : inbox[i] = n
      BY <1>1, <3>1, <3>3 DEF OnItsWay
    <3> QED BY <3>2, <3>3
  <2>5. CASE RxCache
    <3>1. UNCHANGED <<inbox, frame>> /\ cached' = Append(cached, frame)
      BY <2>5 DEF RxCache, bus
    <3>2. /\ DOMAIN cached' = 1 .. Len(cached) + 1 /\ cached'[Len(cached) + 1] = frame
          /\ \A i \in DOMAIN cached : i \in DOMAIN cached' /\ cached'[i] = cached[i]
          /\ Len(cached) + 1 \in DOMAIN cached'
      BY <2>1, <3>1
    <3> QED BY <1>1, <3>1, <3>2 DEF OnItsWay
  <2>6. CASE RxTest \/ RxCall \/ RxCheck \/ RxPublish \/ RxInterfaceDown
    BY <2>2, <2>6 DEF RxTest, RxCall, RxCheck, RxPublish, RxInterfaceDown, bus, feed
  <2>7. CASE Main
    BY <1>1, <2>2, <2>7 DEF RxLife, Main, OpenOk, OpenFails, Connect, Start, LeaveLoop, StopServer,
                              JoinServer, Disconnect, CloseBus, CloseFd, JoinRx, can, bus, feed
  <2>8. CASE Signal \/ ServerStep \/ Lose \/ CbCheck \/ CbWrite \/ \E m \in Messages : Arrive(m)
    BY <2>2, <2>8 DEF Signal, ServerStep, Lose, CbCheck, CbWrite, Arrive, can, bus, feed
  <2>9. CASE Ended \/ UNCHANGED vars
    BY <2>2, <2>9 DEF Ended, vars, can, bus, feed
  <2>10. CASE Rx \/ RxInterfaceDown
    BY <2>4, <2>5, <2>6, <2>10 DEF Rx
  <2>11. \/ TelemetryOnBus \/ OtherOnBus \/ Rx \/ RxInterfaceDown \/ Main \/ Signal \/ ServerStep
         \/ Lose \/ CbCheck \/ CbWrite \/ (\E m \in Messages : Arrive(m)) \/ Ended \/ UNCHANGED vars
    BY <1>1 DEF Next
  <2> QED BY <2>3, <2>7, <2>8, <2>9, <2>10, <2>11
<1>2. Feed /\ RxLife /\ [Next]_vars => [\A n \in Nat \ {Other} : OnItsWay(n) => OnItsWay(n)']_vars
  BY <1>1
<1>3. Init => RxLife
  BY GatewayAssumption DEF Init, RxLife
<1> QED BY <1>2, <1>3, InitFeed, FeedInductive, RxLifeInductive, PTL DEF Spec, NoFrameIsLost
==============================================================================
