------------------------------- MODULE Gateway -------------------------------
(***************************************************************************)
(* The telemetry gateway of zephyr_canfd_ecu_node/gateway: its main thread *)
(* (start-up, wait for a signal, shutdown), the CAN receive thread of      *)
(* SocketCanFd, the callback thread of the MQTT client and the thread of   *)
(* the HTTPS server.  GET requests only read (GetLatest, GetHistory), under *)
(* the mutex that makes update_telemetry() one step.                       *)
(*                                                                         *)
(* A telemetry frame is its number in the order of arrival; every frame    *)
(* the gateway only logs or refuses (a response, a short frame, a foreign  *)
(* identifier) is Other.  The kernel's socket, the MQTT client and the     *)
(* HTTPS server are external: they are as the gateway's calls assume.      *)
(***************************************************************************)
EXTENDS CommandPath, SequencesExt

CONSTANTS HistoryMax,   \* max_history_size_, 50 in the code
          Topics,       \* topics publish_telemetry() writes, 8 in the code
          SocketBuf,    \* frames the kernel keeps for a socket
          Messages,     \* MQTT messages clients publish
          Frames,       \* bound: telemetry frames on the bus
          MaxMessages   \* bound: MQTT messages that arrive

ASSUME GatewayAssumption ==
    /\ HistoryMax \in Nat \ {0} /\ Topics \in Nat \ {0} /\ SocketBuf \in Nat \ {0}
    /\ Frames \in Nat /\ MaxMessages \in Nat
    /\ \A m \in Messages : m.value \in Int

Other == 0
None == -1   \* has_data_ is FALSE

VARIABLES main, keep,            \* main thread, keep_running
          running, open,         \* SocketCanFd: running_, socket_fd_ >= 0
          rx, frame, topic,      \* receive thread: where, frame and topic in hand
          inbox, arrived,        \* the kernel's queue of the socket
          server,                \* thread of the HTTPS server
          mqtt, cb, hand,        \* connection; callback thread, its command
          cached,                \* frames given to HttpsApi
          latest, history,       \* its latest_data_ or None, its deque
          published,             \* publish() calls, <<frame, topic>>
          handled, sent          \* messages that arrived, frames written

threads  == <<main, keep, server>>
can      == <<running, open, rx, frame, topic>>
bus      == <<inbox, arrived>>
feed     == <<cached, latest, history, published>>
commands == <<cb, hand, handled, sent>>
vars == <<threads, can, bus, mqtt, feed, commands>>

Init ==
    /\ main = "open" /\ keep = TRUE /\ running = FALSE /\ open = FALSE
    /\ rx = "none" /\ frame = Other /\ topic = 1 /\ inbox = <<>> /\ arrived = 0
    /\ server = "none" /\ mqtt = "offline" /\ cb = "idle" /\ hand = <<>>
    /\ cached = <<>> /\ latest = None /\ history = <<>> /\ published = <<>>
    /\ handled = <<>> /\ sent = <<>>

connected == mqtt \in {"online", "deaf"}

------------------------------------------------------------------------------
(* main(). *)

OpenOk ==
    /\ main = "open"
    /\ main' = "connect"
    /\ running' = TRUE /\ open' = TRUE /\ rx' = "test"
    /\ UNCHANGED <<keep, server, frame, topic, bus, mqtt, feed, commands>>

OpenFails ==
    /\ main = "open"
    /\ main' = "failed"
    /\ UNCHANGED <<keep, server, can, bus, mqtt, feed, commands>>

\* connect() may fail before or after the connection is up: a client whose
\* subscription fails is connected and deaf.
Connect ==
    /\ main = "connect"
    /\ main' = "start"
    /\ mqtt' \in {"online", "deaf", "offline"}
    /\ UNCHANGED <<keep, server, can, bus, feed, commands>>

Start ==
    /\ main = "start"
    /\ main' = "alive"
    /\ server' = "starting"
    /\ UNCHANGED <<keep, can, bus, mqtt, feed, commands>>

Signal ==
    /\ keep
    /\ keep' = FALSE
    /\ UNCHANGED <<main, server, can, bus, mqtt, feed, commands>>

LeaveLoop ==
    /\ main = "alive" /\ ~keep
    /\ main' = "stopServer"
    /\ UNCHANGED <<keep, server, can, bus, mqtt, feed, commands>>

\* The server's stop() acts only on a server that listens.
StopServer ==
    /\ main = "stopServer"
    /\ main' = "joinServer"
    /\ server' = IF server = "listening" THEN "stopping" ELSE server
    /\ UNCHANGED <<keep, can, bus, mqtt, feed, commands>>

\* Mutation: the server thread is not joined.
JoinServerNot ==
    /\ main = "joinServer"
    /\ main' = "disconnect"
    /\ UNCHANGED <<keep, server, can, bus, mqtt, feed, commands>>

JoinServer ==
    /\ main = "joinServer" /\ server = "ended"
    /\ main' = "disconnect"
    /\ UNCHANGED <<keep, server, can, bus, mqtt, feed, commands>>

Disconnect ==
    /\ main = "disconnect"
    /\ main' = "close"
    /\ mqtt' = IF connected THEN "offline" ELSE mqtt
    /\ UNCHANGED <<keep, server, can, bus, feed, commands>>

\* close_bus(): the flag, the descriptor, the join.
\* Mutation: the flag is forgotten.
CloseBusKeepsRunning ==
    /\ main = "close"
    /\ main' = "closeFd"
    /\ UNCHANGED <<keep, server, can, bus, mqtt, feed, commands>>

CloseBus ==
    /\ main = "close"
    /\ main' = "closeFd"
    /\ running' = FALSE
    /\ UNCHANGED <<keep, server, open, rx, frame, topic, bus, mqtt, feed, commands>>

CloseFd ==
    /\ main = "closeFd"
    /\ main' = "joinRx"
    /\ open' = FALSE
    /\ UNCHANGED <<keep, server, running, rx, frame, topic, bus, mqtt, feed, commands>>

JoinRx ==
    /\ main = "joinRx" /\ rx = "ended"
    /\ main' = "done"
    /\ UNCHANGED <<keep, server, can, bus, mqtt, feed, commands>>

Main == \/ OpenOk \/ OpenFails \/ Connect \/ Start \/ LeaveLoop \/ StopServer
        \/ JoinServer \/ Disconnect \/ CloseBus \/ CloseFd \/ JoinRx

\* The server thread: listen() fails, or runs until it is stopped.
ServerStep ==
    /\ \/ server = "starting" /\ server' \in {"listening", "ended"}
       \/ server = "stopping" /\ server' = "ended"
    /\ UNCHANGED <<main, keep, can, bus, mqtt, feed, commands>>

------------------------------------------------------------------------------
(* The bus.  The kernel queues frames as long as the socket exists: while   *)
(* it is open, and while a read() that was inside close() still waits.      *)

Socket == open \/ rx = "blocked"

Queue(f) ==
    /\ Socket
    /\ inbox' = IF Len(inbox) < SocketBuf THEN Append(inbox, f) ELSE inbox
    /\ UNCHANGED <<threads, can, mqtt, feed, commands>>

TelemetryOnBus == arrived < Frames /\ arrived' = arrived + 1 /\ Queue(arrived + 1)
OtherOnBus     == UNCHANGED arrived /\ Queue(Other)

------------------------------------------------------------------------------
(* receive_loop() and the callback it runs. *)

RxTest ==
    /\ rx = "test"
    /\ rx' = IF running THEN "call" ELSE "ended"
    /\ UNCHANGED <<threads, running, open, frame, topic, bus, mqtt, feed, commands>>

\* read(): it fails at once on a closed descriptor; one that is waiting
\* does not notice that the descriptor is closed under it.
RxCall ==
    /\ rx = "call"
    /\ rx' = IF open THEN "blocked" ELSE "test"
    /\ UNCHANGED <<threads, running, open, frame, topic, bus, mqtt, feed, commands>>

\* Mutation: a frame that does not decode ends the loop.
RxReceiveGivesUp ==
    /\ rx = "blocked" /\ inbox # <<>>
    /\ inbox' = Tail(inbox)
    /\ frame' = Head(inbox)
    /\ rx' = IF frame' = Other THEN "ended" ELSE "cache"
    /\ UNCHANGED <<threads, running, open, topic, arrived, mqtt, feed, commands>>

RxReceive ==
    /\ rx = "blocked" /\ inbox # <<>>
    /\ inbox' = Tail(inbox)
    /\ frame' = Head(inbox)
    /\ rx' = IF frame' = Other THEN "test" ELSE "cache"
    /\ UNCHANGED <<threads, running, open, topic, arrived, mqtt, feed, commands>>

\* read() fails because the interface is down: tried again after 10 ms.
RxInterfaceDown ==
    /\ rx = "blocked"
    /\ rx' = "test"
    /\ UNCHANGED <<threads, running, open, frame, topic, bus, mqtt, feed, commands>>

\* update_telemetry(), after its push_back().
\* Mutation: the deque is trimmed at the wrong end.
TrimNewest(h) == IF Len(h) > HistoryMax THEN Front(h) ELSE h
Trim(h) == IF Len(h) > HistoryMax THEN Tail(h) ELSE h

RxCache ==
    /\ rx = "cache"
    /\ cached' = Append(cached, frame)
    /\ latest' = frame
    /\ history' = Trim(Append(history, frame))
    /\ rx' = "check"
    /\ UNCHANGED <<threads, running, open, frame, topic, bus, mqtt, published, commands>>

\* What a request is answered, between two updates: the last frame, or 404;
\* the frames of the history as an array.
GetLatest  == IF latest = None THEN <<>> ELSE <<latest>>
GetHistory == history

\* publish_telemetry(): the test of the connection, then one publish() per
\* topic; one that finds the connection gone throws and ends the rest.
RxCheck ==
    /\ rx = "check"
    /\ rx' = IF connected THEN "publish" ELSE "test"
    /\ topic' = 1
    /\ UNCHANGED <<threads, running, open, frame, bus, mqtt, feed, commands>>

\* Mutation: the last topic is forgotten.
RxPublishShort ==
    /\ rx = "publish"
    /\ IF connected
       THEN /\ published' = Append(published, <<frame, topic>>)
            /\ IF topic < Topics - 1
               THEN topic' = topic + 1 /\ UNCHANGED rx
               ELSE rx' = "test" /\ UNCHANGED topic
       ELSE rx' = "test" /\ UNCHANGED <<topic, published>>
    /\ UNCHANGED <<threads, running, open, frame, bus, mqtt, cached, latest, history, commands>>

RxPublish ==
    /\ rx = "publish"
    /\ IF connected
       THEN /\ published' = Append(published, <<frame, topic>>)
            /\ IF topic < Topics
               THEN topic' = topic + 1 /\ UNCHANGED rx
               ELSE rx' = "test" /\ UNCHANGED topic
       ELSE rx' = "test" /\ UNCHANGED <<topic, published>>
    /\ UNCHANGED <<threads, running, open, frame, bus, mqtt, cached, latest, history, commands>>

Rx == RxTest \/ RxCall \/ RxReceive \/ RxCache \/ RxCheck \/ RxPublish

------------------------------------------------------------------------------
(* The MQTT client. *)

Lose ==
    /\ connected
    /\ mqtt' = "lost"
    /\ UNCHANGED <<threads, can, bus, feed, commands>>

\* message_arrived() hands over the command frame, if the message makes one.
Arrive(m) ==
    /\ mqtt = "online" /\ cb = "idle" /\ Len(handled) < MaxMessages
    /\ handled' = Append(handled, m)
    /\ hand' = Translate(m)
    /\ cb' = IF hand' = <<>> THEN "idle" ELSE "check"
    /\ UNCHANGED <<threads, can, bus, mqtt, feed, sent>>

\* write_frame(): the test of the descriptor, then the write, which may fail.
CbCheck ==
    /\ cb = "check"
    /\ cb' = IF open THEN "write" ELSE "idle"
    /\ UNCHANGED <<threads, can, bus, mqtt, feed, hand, handled, sent>>

\* Mutation: a write that is not confirmed is tried again.
CbWriteRetries ==
    /\ cb = "write"
    /\ \/ open /\ sent' = Append(sent, <<Len(handled), hand[1]>>)
       \/ UNCHANGED sent
    /\ cb' \in {"idle", "check"}
    /\ Len(sent) <= MaxMessages
    /\ UNCHANGED <<threads, can, bus, mqtt, feed, hand, handled>>

CbWrite ==
    /\ cb = "write"
    /\ \/ open /\ sent' = Append(sent, <<Len(handled), hand[1]>>)
       \/ UNCHANGED sent
    /\ cb' = "idle"
    /\ UNCHANGED <<threads, can, bus, mqtt, feed, hand, handled>>

------------------------------------------------------------------------------
\* The process has ended.
Ended == main \in {"done", "failed"} /\ cb = "idle" /\ UNCHANGED vars

Next ==
    \/ Main \/ Signal \/ ServerStep
    \/ TelemetryOnBus \/ OtherOnBus
    \/ Rx \/ RxInterfaceDown
    \/ Lose \/ (\E m \in Messages : Arrive(m)) \/ CbCheck \/ CbWrite
    \/ Ended

Spec == Init /\ [][Next]_vars

\* All threads are scheduled, and a read() repeated while frames are queued
\* returns one some day, however often the interface goes down in between.
\* QuietSpec asks nothing of the bus, in FairSpec some node keeps sending.
\* Nobody has to send the signal.
QuietSpec == /\ Spec
             /\ WF_vars(Main) /\ WF_vars(ServerStep) /\ WF_vars(Rx)
             /\ SF_vars(RxReceive) /\ WF_vars(CbCheck \/ CbWrite)
FairSpec  == QuietSpec /\ WF_vars(OtherOnBus)

------------------------------------------------------------------------------
\* What the API serves is what came last: the history is the newest
\* HistoryMax of the frames taken off the bus, each once, in their order,
\* also across lost connections and during the shutdown, and the two
\* requests agree on the newest, or both have nothing.
HistoryIsNewest ==
    /\ Len(GetHistory) <= HistoryMax
    /\ Len(GetHistory) = Len(cached) \/ Len(GetHistory) = HistoryMax
    /\ IsSuffix(GetHistory, cached)
    /\ IsSuffix(GetLatest, GetHistory) /\ (GetLatest = <<>> <=> GetHistory = <<>>)
    /\ \A i, j \in DOMAIN cached : i < j => cached[i] < cached[j]

\* The topics keep step: a telemetry frame goes out on every topic, first to
\* last, before the next one that was taken off the bus does, and none of
\* those is left out, so that at any time only the newest frame published may
\* be missing from a topic.  A connection lost between two topics of a frame
\* cuts its round short for good: no later round follows it, as the client
\* does not connect again.  Whether a frame is cached or published first, the
\* property does not say.
TopicsKeepStep ==
    /\ published # <<>> => published[1][2] = 1
    /\ \A i \in 1 .. Len(published) - 1 :
           LET this == published[i]
               next == published[i + 1]
           IN  \/ this[2] < Topics /\ next = <<this[1], this[2] + 1>>
               \/ /\ this[2] = Topics /\ next[2] = 1 /\ this[1] < next[1]
                  /\ \A j \in DOMAIN cached : cached[j] <= this[1] \/ next[1] <= cached[j]

\* Each command frame on the bus answers its own message: none twice, none
\* out of order, whatever a client does and however often the write fails.
CommandsAnswerMessages ==
    /\ \A i \in DOMAIN sent :
           /\ sent[i][1] \in DOMAIN handled
           /\ Translate(handled[sent[i][1]]) = <<sent[i][2]>>
    /\ \A i, j \in DOMAIN sent : i < j => sent[i][1] < sent[j][1]

\* When main() returns, the receive thread and the server thread have ended,
\* the socket is closed and the client is disconnected.  Of the client's
\* callback thread it says nothing: main() does not wait for it, and it may
\* still be between the test and the write of write_frame().
DoneMeansJoined == main = "done" => rx = "ended" /\ server = "ended" /\ ~open /\ ~connected

\* A telemetry frame the kernel has queued is served by the API some day,
\* whatever else is on the bus, unless the gateway is being shut down.
QueuedIsServed ==
    \A n \in 1 .. Frames :
        (\E i \in DOMAIN inbox : inbox[i] = n)
            ~> (~running \/ \E i \in DOMAIN cached : cached[i] = n)

\* On a bus where somebody talks, a signal that comes once the server runs,
\* or has failed to, ends the process.
ExitsWhenServing ==
    (~keep /\ main = "alive" /\ server # "starting") ~> (main = "done")
==============================================================================
