--------------------------- MODULE MqttClientProofs ---------------------------
(***************************************************************************)
(* Proofs about MqttClient, for every keepalive, watchdog limit, waiting   *)
(* time and capacity of the queue: its types, that a client that believes  *)
(* in a session has one, that the watchdog spares a session it was fed in, *)
(* and that the sensor is told what the client believes.                   *)
(***************************************************************************)
EXTENDS MqttClient, TLAPS

\* TypeOK in parts: the manager, the task and its link, the watchdog, the rest.
SessionOK == /\ phase \in {"offline", "trying", "online", "asking"} /\ failures \in Nat
             /\ gate \in {"none", "blocked", "released"}
TaskOK    == /\ thread \in {"none", "alive", "dead"} /\ state \in States
             /\ pc \in {"loop", "dns", "tcp", "connack", "publish"}
LinkOK    == /\ connected \in BOOLEAN /\ subscribed \in BOOLEAN
             /\ lib \in {"idle", "waiting", "session"}
             /\ sock \in {"none", "open", "silent", "unacked", "closed"}
             /\ inbox \in {"none", "connack", "refusal", "packet"}
             /\ quiet \in 0 .. KeepAlive
Lefts     == {{}} \cup {{a} : a \in 0 .. Limit}
WatchOK   == age \in 0 .. Limit /\ left \in Lefts /\ fed \in BOOLEAN
QueueOK   == /\ queue \in Seq(Events) /\ Len(queue) <= QueueCap
             /\ dropped \in BOOLEAN /\ unsaid \in BOOLEAN
SensorOK  == sensor \in BOOLEAN /\ sample \in BOOLEAN

LEMMA Parts == TypeOK <=> /\ SessionOK /\ TaskOK /\ LinkOK /\ WatchOK
                          /\ QueueOK /\ SensorOK
BY DEF TypeOK, SessionOK, TaskOK, LinkOK, WatchOK, Lefts, QueueOK, SensorOK

-----------------------------------------------------------------------------
(***************************************************************************)
(* The operators the actions are built from.                               *)
(***************************************************************************)
\* Posting keeps the queue a queue of events within its capacity.
LEMMA PostType ==
    ASSUME QueueOK, NEW e \in Events, Post(e) PROVE QueueOK'
<1>1. queue' \in Seq(Events) /\ Len(queue') <= QueueCap
  BY CapAssumption DEF QueueOK, Post, HasRoom
<1>2. dropped' \in BOOLEAN
  BY DEF QueueOK, Post
<1>3. unsaid' \in BOOLEAN
  BY DEF QueueOK, Post
<1>. QED BY <1>1, <1>2, <1>3 DEF QueueOK

\* Not posting, too.
LEMMA NothingType == ASSUME QueueOK, PostNothing PROVE QueueOK'
BY DEF QueueOK, PostNothing, postVars

\* The times are numbers, and the limit is the longest of them.
LEMMA Times == /\ KeepAlive \in Nat /\ Limit \in Nat /\ Slow \in Nat
               /\ ConnackWait \in Nat /\ Pause \in Nat
               /\ 0 < KeepAlive /\ KeepAlive < Limit /\ Pause < Limit
BY TimesAssumption

\* Ages saturate at the limit.
LEMMA LaterType ==
    ASSUME NEW a \in 0 .. Limit, NEW d \in Nat
    PROVE  Later(a, d) \in 0 .. Limit /\ Later(a, d) <= a + d
BY Times DEF Later

LEMMA OthersType == ASSUME left \in Lefts, NEW d \in Nat, Others(d) PROVE left' \in Lefts
<1>1. CASE left = {}
  BY <1>1 DEF Others, Lefts
<1>2. CASE \E a \in 0 .. Limit : left = {a}
  <2> PICK a \in 0 .. Limit : left = {a}
    BY <1>2
  <2>1. left' = {Later(a, d)} /\ Later(a, d) \in 0 .. Limit
    BY LaterType DEF Others
  <2>. QED BY <2>1 DEF Lefts
<1>. QED BY <1>1, <1>2 DEF Lefts

\* A wait, and a wait that ends in a feed and a sleep.
LEMMA ElapseType ==
    ASSUME WatchOK, NEW d \in Nat, Elapse(d)
    PROVE  WatchOK' /\ fed' = fed /\ age' <= age + d
BY LaterType, OthersType DEF WatchOK, Elapse

LEMMA FeedType ==
    ASSUME WatchOK, NEW d \in Nat, NEW s \in Nat, s < Limit, WaitAndFeed(d, s),
           fed' \in BOOLEAN
    PROVE  WatchOK'
BY Times, OthersType DEF WatchOK, WaitAndFeed

\* A disconnection, and a packet that is written.
LEMMA DisconnectType ==
    ASSUME QueueOK, LinkOK, Disconnect, quiet' \in 0 .. KeepAlive
    PROVE  QueueOK' /\ LinkOK' /\ connected' = FALSE
BY PostType DEF Disconnect, on_disconnect, LinkOK, Events

LEMMA WriteType ==
    ASSUME LinkOK, Write
    PROVE  /\ sock' \in {"open", "unacked", "closed"} /\ quiet' \in 0 .. KeepAlive
BY Times DEF LinkOK, Write

-----------------------------------------------------------------------------
(***************************************************************************)
(* The inductive invariant.  Where: what the program counter says.         *)
(* Believes: what the flag says, while its connection is used.  Spared:    *)
(* how old the channel can be since the feed that the history remembers.   *)
(***************************************************************************)
Where    == /\ pc = "dns" => state = "CLIENT_READY"
            /\ pc = "tcp" => state = "BROKER_READY" /\ ~connected
            /\ pc = "connack" => state = "BROKER_READY" /\ ~connected /\ sock # "none"
            /\ pc = "publish" => state = "RUNNING"
Believes == /\ state \in {"CONNECTING", "RUNNING"} /\ connected =>
                   lib = "session" /\ sock # "none"
            /\ state = "RUNNING" => subscribed
Spared   == /\ fed => state \in {"RUNNING", "ERROR"}
            /\ fed /\ pc = "loop" /\ state = "RUNNING" => age = 0
            /\ fed /\ pc = "publish" => age <= KeepAlive

ClientInv == TypeOK /\ Where /\ Believes /\ Spared

Shape == Where /\ Believes /\ Spared

\* What a step of the task finds, and what it never touches.
TaskAt == ClientInv /\ thread = "alive" /\ ~Bitten /\ Outside

LEMMA TaskTypes ==
    ASSUME TaskAt
    PROVE  /\ SessionOK' /\ thread' = "alive" /\ sensor' \in BOOLEAN
           /\ TaskOK /\ LinkOK /\ WatchOK /\ QueueOK /\ SensorOK
           /\ Where /\ Believes /\ Spared /\ age < Limit
BY Parts, Times DEF TaskAt, ClientInv, SessionOK, SensorOK, Outside, sessionVars,
   Bitten, WatchOK

\* The invariant after a step, from its parts.
LEMMA Whole ==
    ASSUME SessionOK', TaskOK', LinkOK', WatchOK', QueueOK', SensorOK', Shape'
    PROVE  ClientInv'
BY DEF ClientInv, Shape, TypeOK, SessionOK, TaskOK, LinkOK, WatchOK, Lefts, QueueOK, SensorOK

\* INIT: mqtt_client_init.
LEMMA SetupClientStep == ASSUME TaskAt, SetupClient PROVE ClientInv'
<1>1. WatchOK' /\ SensorOK' /\ QueueOK' /\ LinkOK' /\ TaskOK'
  BY TaskTypes, NothingType
     DEF SetupClient, Go, wdtVars, WatchOK, SensorOK, LinkOK, TaskOK, States
<1>2. Shape'
  BY TaskTypes DEF SetupClient, At, Go, wdtVars, Shape, Where, Believes, Spared
<1>. QED BY <1>1, <1>2, TaskTypes, Whole

\* CLIENT_READY: the name is asked for, and resolved, or not, in its time.
LEMMA SetupBrokerStep == ASSUME TaskAt, SetupBroker \/ BrokerSet PROVE ClientInv'
<1>1. QueueOK' /\ LinkOK' /\ SensorOK'
  BY TaskTypes, NothingType DEF SetupBroker, BrokerSet, linkVars, LinkOK, SensorOK
<1>2. CASE SetupBroker
  <2>1. WatchOK' /\ TaskOK' /\ Shape'
    BY <1>2, TaskTypes DEF SetupBroker, At, Go, wdtVars, linkVars, WatchOK, TaskOK, States,
                           Shape, Where, Believes, Spared
  <2>. QED BY <1>1, <2>1, TaskTypes, Whole
<1>3. CASE BrokerSet
  <2>1. PICK d \in 0 .. Slow :
           \/ Go("BROKER_READY", "loop") /\ Elapse(d)
           \/ Go("CLIENT_READY", "loop") /\ WaitAndFeed(d, Pause) /\ UNCHANGED fed
    BY <1>3 DEF BrokerSet
  <2>2. d \in Nat
    BY Times
  <2>3. WatchOK' /\ fed' = fed
    BY <2>1, <2>2, TaskTypes, Times, ElapseType, FeedType DEF WatchOK
  <2>4. TaskOK' /\ Shape'
    BY <1>3, <2>1, <2>3, TaskTypes
       DEF BrokerSet, At, Go, TaskOK, States, Shape, Where, Believes, Spared
  <2>. QED BY <1>1, <2>3, <2>4, TaskTypes, Whole
<1>. QED BY <1>2, <1>3

\* BROKER_READY: the flag is cleared, then TCP and CONNECT, which may fail.
LEMMA ConnectStep == ASSUME TaskAt, Connect PROVE ClientInv'
<1>1. LinkOK' /\ SensorOK' /\ WatchOK' /\ TaskOK'
  BY TaskTypes DEF Connect, Go, wdtVars, LinkOK, SensorOK, WatchOK, TaskOK, States
<1>2. QueueOK'
  BY TaskTypes DEF Connect, QueueOK, LinkOK
<1>3. Shape'
  BY TaskTypes DEF Connect, At, Go, wdtVars, Shape, Where, Believes, Spared
<1>. QED BY <1>1, <1>2, <1>3, TaskTypes, Whole

LEMMA MqttConnectStep == ASSUME TaskAt, MqttConnect PROVE ClientInv'
<1>1. PICK d \in 0 .. Slow :
         \/ /\ Go("BROKER_READY", "connack") /\ Elapse(d)
            /\ lib' = "waiting" /\ sock' = "open" /\ quiet' = 0 /\ PostNothing
         \/ /\ Go("BROKER_READY", "loop") /\ WaitAndFeed(d, Pause) /\ UNCHANGED fed
            /\ UNCHANGED <<lib, sock, quiet>>
            /\ PostNothing \/ Post("MQTT_DISCONNECTED")
  BY DEF MqttConnect
<1>2. d \in Nat
  BY Times
<1>3. QueueOK'
  BY <1>1, TaskTypes, NothingType, PostType DEF Events
<1>4. WatchOK' /\ fed' = fed
  BY <1>1, <1>2, TaskTypes, Times, ElapseType, FeedType DEF WatchOK
<1>5. /\ At("BROKER_READY", "tcp") /\ UNCHANGED <<connected, inbox, subscribed, sample>>
  BY DEF MqttConnect
<1>6. LinkOK' /\ SensorOK'
  <2>1. quiet' \in {0, quiet} /\ lib' \in {"waiting", lib} /\ sock' \in {"open", sock}
    BY <1>1
  <2>2. quiet' \in 0 .. KeepAlive
    BY <2>1, TaskTypes, Times DEF LinkOK
  <2>. QED BY <1>5, <2>1, <2>2, TaskTypes DEF LinkOK, SensorOK
<1>7. TaskOK' /\ Shape'
  BY <1>1, <1>4, <1>5, TaskTypes
     DEF At, Go, TaskOK, States, Shape, Where, Believes, Spared
<1>. QED BY <1>3, <1>4, <1>6, <1>7, TaskTypes, Whole

\* The poll of connect().
LEMMA AwaitStep == ASSUME TaskAt, AwaitConnack PROVE ClientInv'
<1>1. \E d \in 0 .. ConnackWait : Elapse(d)
  BY Times DEF AwaitConnack
<1>2. WatchOK' /\ fed' = fed
  BY <1>1, TaskTypes, Times, ElapseType
<1>3. quiet' = quiet /\ sample' = sample
  BY DEF AwaitConnack
<1>4. \/ /\ Post("MQTT_CONNECTED") /\ connected' = TRUE /\ lib' = "session"
         /\ inbox' = "none" /\ UNCHANGED <<sock, subscribed>>
      \/ Disconnect
      \/ PostNothing /\ UNCHANGED <<connected, linkVars>>
  BY DEF AwaitConnack
<1>5. QueueOK' /\ LinkOK'
  <2>1. CASE Disconnect
    BY <2>1, <1>3, TaskTypes, DisconnectType DEF LinkOK
  <2>2. CASE ~Disconnect
    BY <2>2, <1>3, <1>4, TaskTypes, PostType, NothingType DEF LinkOK, linkVars, Events
  <2>. QED BY <2>1, <2>2
<1>6. TaskOK' /\ Shape'
  BY <1>2, <1>4, TaskTypes
     DEF AwaitConnack, Disconnect, on_disconnect, linkVars, At, Go, TaskOK, States,
         Shape, Where, Believes, Spared
<1>. QED BY <1>2, <1>3, <1>5, <1>6, TaskTypes, Whole DEF SensorOK

\* CONNECTING: the sleep, or the topics.
LEMMA ConnectingStep == ASSUME TaskAt, WaitForConnack \/ Subscribe PROVE ClientInv'
<1>1. CASE WaitForConnack
  <2>1. WatchOK' /\ QueueOK' /\ LinkOK' /\ SensorOK' /\ TaskOK'
    BY <1>1, TaskTypes, Times, FeedType, NothingType
       DEF WaitForConnack, WatchOK, linkVars, LinkOK, SensorOK, TaskOK
  <2>2. Shape'
    BY <1>1, TaskTypes DEF WaitForConnack, At, linkVars, Shape, Where, Believes, Spared
  <2>. QED BY <2>1, <2>2, TaskTypes, Whole
<1>2. CASE Subscribe
  <2>1. WatchOK' /\ SensorOK' /\ TaskOK' /\ fed' = fed
    BY <1>2, TaskTypes DEF Subscribe, Go, wdtVars, WatchOK, SensorOK, TaskOK, States
  <2>2. \/ /\ Write /\ Go("RUNNING", "loop") /\ subscribed' = TRUE
           /\ PostNothing /\ UNCHANGED <<connected, lib, inbox>>
        \/ Disconnect /\ quiet' = quiet /\ Go("ERROR", "loop")
    BY <1>2 DEF Subscribe, WriteFails
  <2>3. QueueOK' /\ LinkOK'
    BY <2>2, TaskTypes, WriteType, NothingType, DisconnectType DEF LinkOK
  <2>4. Shape'
    BY <1>2, <2>1, <2>2, TaskTypes, WriteType
       DEF Subscribe, At, Go, Disconnect, on_disconnect, Shape, Where, Believes, Spared
  <2>. QED BY <2>1, <2>3, <2>4, TaskTypes, Whole
<1>. QED BY <1>1, <1>2

\* RUNNING: read_payload, whose poll ends when the next ping is due.
LEMMA ReadingStep ==
    ASSUME TaskAt, ReadPacket \/ ReadFails \/ ReadClosed \/ KeepAlivePing
    PROVE  ClientInv'
<1>0. /\ state = "RUNNING" /\ pc = "loop" /\ connected /\ quiet \in 0 .. KeepAlive
      /\ lib = "session" /\ sock # "none" /\ subscribed
  BY TaskTypes DEF ReadPacket, ReadFails, ReadClosed, KeepAlivePing, Reading, At, Believes, LinkOK
<1>1. \E d \in Nat : d <= KeepAlive /\ Elapse(d)
  <2>1. TimeLeft \in 0 .. KeepAlive
    BY <1>0, Times DEF TimeLeft
  <2>2. (\E d \in 0 .. TimeLeft : Elapse(d)) \/ Elapse(TimeLeft)
    BY DEF ReadPacket, ReadFails, ReadClosed, KeepAlivePing
  <2>3. \A d \in 0 .. TimeLeft : d \in Nat /\ d <= KeepAlive
    BY <2>1, Times
  <2>4. TimeLeft \in 0 .. TimeLeft
    BY <2>1, Times
  <2>. QED BY <2>2, <2>3, <2>4
<1>2. WatchOK' /\ fed' = fed /\ (fed => age' <= KeepAlive)
  <2> PICK d \in Nat : d <= KeepAlive /\ Elapse(d)
    BY <1>1
  <2>1. fed => age = 0
    BY <1>0, TaskTypes DEF Spared
  <2>. QED BY <2>1, TaskTypes, Times, ElapseType DEF WatchOK
<1>3. CASE ReadPacket
  <2>1. quiet' \in 0 .. KeepAlive
    BY <1>0, <1>3, Times DEF ReadPacket, TimeLeft
  <2>2. QueueOK' /\ LinkOK' /\ SensorOK' /\ TaskOK'
    BY <1>3, <2>1, TaskTypes, PostType, NothingType
       DEF ReadPacket, Go, LinkOK, SensorOK, TaskOK, States, Events
  <2>3. Shape'
    BY <1>0, <1>2, <1>3, TaskTypes DEF ReadPacket, Go, Shape, Where, Believes, Spared
  <2>. QED BY <1>2, <2>2, <2>3, TaskTypes, Whole
<1>4. CASE ReadFails \/ ReadClosed
  <2>1. quiet' \in 0 .. KeepAlive
    BY <1>0, <1>4, Times DEF ReadFails, ReadClosed, TimeLeft
  <2>2. QueueOK' /\ LinkOK'
    BY <1>4, <2>1, TaskTypes, DisconnectType DEF ReadFails, ReadClosed
  <2>3. SensorOK' /\ TaskOK'
    BY <1>4, TaskTypes DEF ReadFails, ReadClosed, Go, SensorOK, TaskOK, States
  <2>4. Shape'
    BY <1>0, <1>2, <1>4, TaskTypes
       DEF ReadFails, ReadClosed, Go, Disconnect, on_disconnect, Shape, Where, Believes, Spared
  <2>. QED BY <1>2, <2>2, <2>3, <2>4, TaskTypes, Whole
<1>5. CASE KeepAlivePing
  <2>1. QueueOK' /\ LinkOK' /\ SensorOK' /\ TaskOK'
    BY <1>5, TaskTypes, WriteType, NothingType
       DEF KeepAlivePing, Go, LinkOK, SensorOK, TaskOK, States
  <2>2. Shape'
    BY <1>0, <1>2, <1>5, TaskTypes, WriteType
       DEF KeepAlivePing, Go, Shape, Where, Believes, Spared
  <2>. QED BY <1>2, <2>1, <2>2, TaskTypes, Whole
<1>. QED BY <1>3, <1>4, <1>5

\* RUNNING: the publication, and the feed that ends every iteration.
LEMMA PublishStep == ASSUME TaskAt, Publish PROVE ClientInv'
<1>1. /\ state = "RUNNING" /\ pc = "publish" /\ state' = "RUNNING" /\ pc' = "loop"
      /\ sample' = FALSE /\ fed' = TRUE /\ WaitAndFeed(0, 0)
  BY DEF Publish, At, Go, Feeds
<1>2. WatchOK' /\ age' = 0
  BY <1>1, TaskTypes, Times, FeedType DEF WatchOK, WaitAndFeed
<1>3. \/ Write /\ PostNothing /\ UNCHANGED <<connected, lib, inbox, subscribed>>
      \/ Disconnect /\ UNCHANGED quiet
      \/ PostNothing /\ UNCHANGED <<connected, linkVars, quiet>>
  BY DEF Publish, WriteFails
<1>4. QueueOK' /\ LinkOK'
  BY <1>3, TaskTypes, WriteType, NothingType, DisconnectType DEF LinkOK, linkVars
<1>5. SensorOK' /\ TaskOK'
  BY <1>1, TaskTypes DEF SensorOK, TaskOK, States
<1>6. subscribed' = subscribed /\ (connected' => connected /\ lib' = lib /\ sock' # "none")
  <2>1. CASE Disconnect
    BY <2>1 DEF Disconnect, on_disconnect
  <2>2. CASE Write /\ UNCHANGED <<connected, lib, inbox, subscribed>>
    BY <2>2, TaskTypes, WriteType
  <2>3. CASE UNCHANGED <<connected, linkVars, quiet>>
    BY <1>1, <2>3, TaskTypes DEF linkVars, Believes, LinkOK
  <2>. QED BY <1>3, <2>1, <2>2, <2>3
<1>7. Shape'
  BY <1>1, <1>2, <1>6, TaskTypes DEF Shape, Where, Believes, Spared
<1>. QED BY <1>2, <1>4, <1>5, <1>7, TaskTypes, Whole

\* RUNNING is left, and ERROR waits for the gate.
LEMMA LeavingStep == ASSUME TaskAt, LeaveRunning \/ OnError PROVE ClientInv'
<1>1. QueueOK' /\ LinkOK' /\ SensorOK'
  BY TaskTypes, NothingType DEF LeaveRunning, OnError, linkVars, LinkOK, SensorOK
<1>2. CASE LeaveRunning
  <2>1. WatchOK' /\ TaskOK' /\ Shape'
    BY <1>2, TaskTypes DEF LeaveRunning, At, Go, wdtVars, WatchOK, TaskOK, States,
                           Shape, Where, Believes, Spared
  <2>. QED BY <1>1, <2>1, TaskTypes, Whole
<1>3. CASE OnError
  <2>1. /\ state = "ERROR" /\ pc = "loop" /\ fed' = FALSE
        /\ \/ Go("CLIENT_READY", "loop") /\ UNCHANGED <<age, left>>
           \/ WaitAndFeed(0, Pause) /\ UNCHANGED <<state, pc>>
    BY <1>3 DEF OnError, At
  <2>2. WatchOK'
    BY <2>1, TaskTypes, Times, FeedType DEF WatchOK
  <2>3. TaskOK' /\ Shape'
    BY <2>1, TaskTypes DEF Go, TaskOK, States, Shape, Where, Believes, Spared
  <2>. QED BY <1>1, <2>2, <2>3, TaskTypes, Whole
<1>. QED BY <1>2, <1>3

\* mqtt_task, whatever its state.
LEMMA TaskStep == ASSUME ClientInv, MqttTask PROVE ClientInv'
<1>1. TaskAt
  BY DEF TaskAt, MqttTask, SetupClient, SetupBroker, BrokerSet, Connect, MqttConnect,
         AwaitConnack, WaitForConnack, Subscribe, ReadPacket, ReadFails, ReadClosed,
         KeepAlivePing, Publish, LeaveRunning, OnError
<1>. QED
  BY <1>1, SetupClientStep, SetupBrokerStep, ConnectStep, MqttConnectStep, AwaitStep,
     ConnectingStep, ReadingStep, PublishStep, LeavingStep DEF MqttTask

-----------------------------------------------------------------------------
(***************************************************************************)
(* The steps of the others.                                                *)
(***************************************************************************)
\* The manager's steps keep its types.
LEMMA ManagerType ==
    ASSUME SessionOK, Manager!Quiet \/ Manager!Drop \/ Manager!Open PROVE SessionOK'
BY DEF SessionOK, Manager!Quiet, Manager!Try, Manager!Ask, Manager!Answered,
       Manager!Fail, Manager!GiveUp, Manager!Advance, Manager!Online, Manager!Drop,
       Manager!Open

\* A thread that is created begins with INIT and has not been fed.
LEMMA StartStep == ASSUME ClientInv, StartMqtt PROVE ClientInv'
<1>. USE Parts DEF ClientInv
<1>1. SessionOK'
  BY ManagerType DEF StartMqtt
<1>2. /\ thread' \in {"alive", "dead"} /\ state' = "INIT" /\ pc' = "loop"
      /\ age' = 0 /\ fed' = FALSE /\ left' \in {left, {age}}
      /\ PostNothing /\ UNCHANGED <<mqttVars, sensor, sample>>
  BY DEF StartMqtt, Go
<1>3. WatchOK'
  <2>1. age' \in 0 .. Limit
    BY <1>2, Times
  <2>2. {age} \in Lefts /\ left \in Lefts
    BY DEF WatchOK, Lefts
  <2>. QED BY <1>2, <2>1, <2>2 DEF WatchOK
<1>4. QueueOK' /\ LinkOK' /\ SensorOK' /\ TaskOK'
  BY <1>2, NothingType DEF mqttVars, linkVars, LinkOK, SensorOK, TaskOK, States
<1>5. Shape'
  BY <1>2 DEF Shape, Where, Believes, Spared
<1>. QED BY <1>1, <1>3, <1>4, <1>5, Whole

\* The manager, the dispatcher, the sensor and those that post leave the client
\* alone.
LEMMA OthersStep ==
    ASSUME ClientInv, ManagerStep \/ Notify \/ OtherEvent \/ SampleSensor
    PROVE  ClientInv'
<1>. USE Parts DEF ClientInv
<1>1. UNCHANGED <<taskVars, mqttVars, wdtVars>>
  BY DEF ManagerStep, Notify, OtherEvent, SampleSensor
<1>2. TaskOK' /\ LinkOK' /\ WatchOK' /\ Shape'
  BY <1>1 DEF taskVars, mqttVars, linkVars, wdtVars, TaskOK, LinkOK, WatchOK, Shape,
              Where, Believes, Spared
<1>3. SessionOK'
  <2>1. CASE ManagerStep
    BY <2>1, ManagerType DEF ManagerStep
  <2>2. CASE Notify \/ OtherEvent \/ SampleSensor
    BY <2>2 DEF Notify, OtherEvent, SampleSensor, sessionVars, SessionOK
  <2>. QED BY <2>1, <2>2
<1>4. QueueOK'
  <2>1. CASE Notify
    BY <2>1, CapAssumption DEF Notify, QueueOK
  <2>2. CASE OtherEvent
    BY <2>2, PostType DEF OtherEvent, Events
  <2>3. CASE ManagerStep \/ SampleSensor
    BY <2>3 DEF ManagerStep, SampleSensor, postVars, QueueOK
  <2>. QED BY <2>1, <2>2, <2>3
<1>5. SensorOK'
  <2>1. Notified(Head(queue)) \in BOOLEAN
    BY DEF Notified, SensorOK
  <2>. QED BY <2>1 DEF ManagerStep, Notify, OtherEvent, SampleSensor, SensorOK
<1>. QED BY <1>2, <1>3, <1>4, <1>5, Whole

\* The network changes the socket, which stays one, and what can be read.
LEMMA NetworkStep == ASSUME ClientInv, Network PROVE ClientInv'
<1>. USE Parts DEF ClientInv
<1>1. /\ UNCHANGED netRest
      /\ sock' = sock \/ (sock # "none" /\ sock' \in {"open", "silent", "unacked", "closed"})
      /\ inbox' \in {inbox, "connack", "refusal", "packet"}
  BY DEF Network, BrokerAnswers, BrokerSends, PeerLost, PeerBack, Closes, TcpGivesUp
<1>2. SessionOK' /\ TaskOK' /\ WatchOK' /\ QueueOK' /\ SensorOK'
  BY <1>1 DEF netRest, sessionVars, taskVars, wdtVars, postVars, SessionOK, TaskOK,
              WatchOK, QueueOK, SensorOK
<1>3. /\ UNCHANGED <<taskVars, connected, lib, subscribed, quiet, wdtVars>>
      /\ sock # "none" => sock' # "none"
  BY <1>1 DEF netRest
<1>4. LinkOK'
  BY <1>1, <1>3 DEF LinkOK
<1>5. Shape'
  BY <1>3 DEF taskVars, wdtVars, Shape, Where, Believes, Spared
<1>. QED BY <1>2, <1>4, <1>5, Whole

\* A reboot begins anew.
LEMMA RebootStep == ASSUME Reboot PROVE ClientInv'
<1>1. 0 \in 0 .. KeepAlive /\ 0 \in 0 .. Limit /\ {} \in Lefts
  BY Times DEF Lefts
<1>2. <<>> \in Seq(Events) /\ Len(<<>>) <= QueueCap
  BY CapAssumption
<1>3. SessionOK' /\ TaskOK'
  BY DEF Reboot, SessionOK, TaskOK, States
<1>4. LinkOK' /\ SensorOK'
  BY <1>1 DEF Reboot, LinkOK, SensorOK
<1>5. WatchOK' /\ QueueOK'
  BY <1>1, <1>2 DEF Reboot, WatchOK, QueueOK
<1>6. Shape'
  BY DEF Reboot, Shape, Where, Believes, Spared
<1>. QED BY <1>3, <1>4, <1>5, <1>6, Whole

-----------------------------------------------------------------------------
(***************************************************************************)
(* What holds of every behaviour.                                          *)
(***************************************************************************)
LEMMA Initially == ASSUME Init PROVE ClientInv
<1>1. 0 \in 0 .. KeepAlive /\ 0 \in 0 .. Limit /\ {} \in Lefts
  BY Times DEF Lefts
<1>2. <<>> \in Seq(Events) /\ Len(<<>>) <= QueueCap
  BY CapAssumption
<1>3. SessionOK /\ TaskOK
  BY DEF Init, Start, Manager!Init, SessionOK, TaskOK, States
<1>4. LinkOK /\ SensorOK
  BY <1>1 DEF Init, Start, LinkOK, SensorOK
<1>5. WatchOK /\ QueueOK
  BY <1>1, <1>2 DEF Init, Start, WatchOK, QueueOK
<1>6. Where /\ Believes /\ Spared
  BY DEF Init, Start, Where, Believes, Spared
<1>. QED BY <1>3, <1>4, <1>5, <1>6, Parts DEF ClientInv

\* ClientInv is inductive: the client's thread may be stopped, started over and
\* spoken to by the library, the manager, the sensor and the network at any step.
THEOREM ClientInvariant == Spec => []ClientInv
<1>1. Init => ClientInv
  BY Initially
<1>2. ClientInv /\ [Next]_vars => ClientInv'
  <2> SUFFICES ASSUME ClientInv, [Next]_vars PROVE ClientInv'
    OBVIOUS
  <2>1. CASE Reboot
    BY <2>1, RebootStep
  <2>2. CASE MqttTask
    BY <2>2, TaskStep
  <2>3. CASE StartMqtt
    BY <2>3, StartStep
  <2>4. CASE ManagerStep \/ Notify \/ OtherEvent \/ SampleSensor
    BY <2>4, OthersStep
  <2>5. CASE Network
    BY <2>5, NetworkStep
  <2>6. CASE UNCHANGED vars
    <3>1. UNCHANGED <<sessionVars, taskVars, connected, linkVars, quiet, wdtVars,
                      queue, dropped, unsaid, sensor, sample>>
      BY <2>6 DEF vars, postVars
    <3>2. /\ SessionOK' /\ TaskOK' /\ LinkOK' /\ WatchOK' /\ QueueOK' /\ SensorOK'
      BY <3>1, Parts DEF ClientInv, sessionVars, taskVars, linkVars, wdtVars, SessionOK,
                         TaskOK, LinkOK, WatchOK, QueueOK, SensorOK
    <3>3. Shape'
      BY <3>1 DEF ClientInv, taskVars, linkVars, wdtVars, Shape, Where, Believes, Spared
    <3>. QED BY <3>2, <3>3, Whole
  <2>. QED BY <2>1, <2>2, <2>3, <2>4, <2>5, <2>6 DEF Next
<1>. QED BY <1>1, <1>2, PTL DEF Spec

\* The client keeps its types: the polls never wait longer than the keepalive,
\* and the queue of events holds no more than its capacity.
THEOREM TypeCorrect == Spec => []TypeOK
<1>1. ClientInv => TypeOK
  BY DEF ClientInv
<1>. QED BY <1>1, ClientInvariant, PTL

\* A client in RUNNING that believes in its connection has a session with the
\* broker, which has been sent the topics.
THEOREM Believed == Spec => []RunningIsSession
<1>1. ClientInv => RunningIsSession
  BY DEF ClientInv, Believes, RunningIsSession
<1>. QED BY <1>1, ClientInvariant, PTL

\* Whatever the times are, as long as the keepalive is shorter than the limit of
\* the watchdog: in a session it was fed in once the client's own channel is never
\* older than the keepalive.  The watchdog may still bite in it, for a channel that
\* an earlier incarnation of the thread has left behind, and for no other reason
\* (MQTT::mqtt_task feeds in every iteration, read_payload polls until the next ping).
THEOREM SparedByWatchdog == Spec => []SessionIsFed
<1>1. ClientInv => SessionIsFed
  <2> SUFFICES ASSUME ClientInv, state = "RUNNING", fed PROVE age <= KeepAlive
    BY Parts, Times DEF SessionIsFed, ClientInv, WatchOK, Bitten
  <2>1. pc \in {"loop", "publish"}
    BY Parts DEF ClientInv, TaskOK, Where
  <2>. QED BY <2>1, Times DEF ClientInv, Spared
<1>. QED BY <1>1, ClientInvariant, PTL

-----------------------------------------------------------------------------
(***************************************************************************)
(* What the sensor is told.  Told speaks of the last event in the queue    *)
(* that is one of the client's: a post puts another behind it, the         *)
(* dispatcher takes the first one, and an event that is not the client's   *)
(* changes neither.                                                        *)
(***************************************************************************)
Announcing(on) == IF on THEN "MQTT_CONNECTED" ELSE "MQTT_DISCONNECTED"

\* An event of another sender, or none, leaves the last one of the client's.
LEMMA ToldOnOther ==
    ASSUME QueueOK, NEW on \in BOOLEAN, Told(on), sensor' = sensor,
           PostNothing \/ Post("OTHER")
    PROVE  Told(on)'
<1>1. CASE queue' = queue
  BY <1>1 DEF Told
<1>2. CASE queue' = Append(queue, "OTHER")
  <2>1. /\ DOMAIN queue = 1 .. Len(queue) /\ DOMAIN queue' = 1 .. Len(queue) + 1
        /\ Len(queue) \in Nat
        /\ \A i \in DOMAIN queue : queue'[i] = queue[i]
        /\ queue'[Len(queue) + 1] = "OTHER"
    BY <1>2 DEF QueueOK, Events
  <2>. QED BY <2>1 DEF Told
<1>. QED BY <1>1, <1>2 DEF Post, PostNothing, postVars

\* What the client posts becomes the last one, unless it is dropped.
LEMMA ToldOnPost ==
    ASSUME QueueOK, NEW on \in BOOLEAN, Post(Announcing(on)), ~dropped'
    PROVE  Told(on)'
<1>1. queue' = Append(queue, Announcing(on))
  BY DEF Post, Announcing
<1>2. /\ DOMAIN queue' = 1 .. Len(queue) + 1 /\ Len(queue) \in Nat
      /\ queue'[Len(queue) + 1] = Announcing(on)
  BY <1>1 DEF QueueOK, Events, Announcing
<1>3. /\ Len(queue) + 1 \in DOMAIN queue'
      /\ \A j \in DOMAIN queue' : ~(j > Len(queue) + 1)
  BY <1>2
<1>. QED BY <1>2, <1>3 DEF Told, Announcing

\* The dispatcher takes the first event: if it was the last one of the client's
\* the sensor now believes it.
LEMMA ToldOnNotify ==
    ASSUME QueueOK, NEW on \in BOOLEAN, Told(on), Notify
    PROVE  Told(on)'
<1>1. queue # <<>> /\ queue' = Tail(queue) /\ sensor' = Notified(Head(queue))
  BY DEF Notify
<1>2. /\ DOMAIN queue = 1 .. Len(queue) /\ Len(queue) \in Nat \ {0}
      /\ DOMAIN queue' = 1 .. Len(queue) - 1 /\ Head(queue) = queue[1]
      /\ \A i \in DOMAIN queue' : i + 1 \in DOMAIN queue /\ queue'[i] = queue[i + 1]
  BY <1>1 DEF QueueOK
<1>3. CASE sensor = on /\ \A i \in DOMAIN queue : queue[i] = "OTHER"
  BY <1>1, <1>2, <1>3 DEF Told, Notified
<1>4. CASE \E i \in DOMAIN queue : /\ queue[i] = Announcing(on)
                                   /\ \A j \in DOMAIN queue : j > i => queue[j] = "OTHER"
  <2> PICK i \in DOMAIN queue : /\ queue[i] = Announcing(on)
                                /\ \A j \in DOMAIN queue : j > i => queue[j] = "OTHER"
    BY <1>4
  <2>1. CASE i = 1
    <3>1. sensor' = on
      BY <1>1, <1>2, <2>1 DEF Notified, Announcing
    <3>2. \A j \in DOMAIN queue' : queue'[j] = "OTHER"
      BY <1>2, <2>1
    <3>. QED BY <3>1, <3>2 DEF Told
  <2>2. CASE i # 1
    <3>1. /\ i - 1 \in DOMAIN queue' /\ queue'[i - 1] = Announcing(on)
          /\ \A j \in DOMAIN queue' : j > i - 1 => queue'[j] = "OTHER"
      BY <1>2, <2>2
    <3>. QED BY <3>1 DEF Told, Announcing
  <2>. QED BY <2>1, <2>2
<1>. QED BY <1>3, <1>4 DEF Told, Announcing

\* A step that neither posts for the client, nor changes its flag, nor enters a
\* session keeps what the sensor follows.
InSession == state \in {"RUNNING", "ERROR"}

LEMMA FollowsOnOther ==
    ASSUME QueueOK, connected \in BOOLEAN, SensorFollows, sensor' = sensor,
           PostNothing \/ Post("OTHER"), connected' = connected,
           InSession' => InSession \/ connected
    PROVE  SensorFollows'
<1>1. dropped' = dropped /\ unsaid' = unsaid
  BY DEF Post, PostNothing, postVars, QueueOK
<1>2. unsaid' => ~connected' /\ ~InSession'
  BY <1>1 DEF SensorFollows, InSession
<1>3. ASSUME ~dropped', ~unsaid' PROVE Told(connected)'
  <2>1. Told(connected)
    BY <1>1, <1>3 DEF SensorFollows
  <2>2. CASE connected
    <3>1. Told(TRUE)
      BY <2>1, <2>2
    <3>2. Told(TRUE)'
      BY <3>1, ToldOnOther
    <3>. QED BY <2>2, <3>2
  <2>3. CASE ~connected
    <3>1. Told(FALSE)
      BY <2>1, <2>3
    <3>2. Told(FALSE)'
      BY <3>1, ToldOnOther
    <3>. QED BY <2>3, <3>2
  <2>. QED BY <2>2, <2>3
<1>. QED BY <1>2, <1>3 DEF SensorFollows, InSession

\* What the client posts says what its flag is then, and ends what is unsaid.
LEMMA FollowsOnPost ==
    ASSUME QueueOK, NEW on \in BOOLEAN, Post(Announcing(on)), connected' = on
    PROVE  SensorFollows'
<1>1. ~unsaid'
  BY DEF Post, Announcing
<1>2. ~dropped' => Told(on)'
  BY ToldOnPost
<1>. QED BY <1>1, <1>2 DEF SensorFollows

LEMMA FollowsOnDisconnect == ASSUME QueueOK, Disconnect PROVE SensorFollows'
<1>1. connected' = FALSE /\ Post(Announcing(FALSE))
  BY DEF Disconnect, on_disconnect, Announcing
<1>. QED BY <1>1, FollowsOnPost

-----------------------------------------------------------------------------
(***************************************************************************)
(* The steps of the client, and of the others.                             *)
(***************************************************************************)
\* connect() clears the flag: if it was set, that is unsaid from here on.
LEMMA ConnectFollows == ASSUME ClientInv, SensorFollows, Connect PROVE SensorFollows'
<1>1. /\ connected \in BOOLEAN /\ unsaid \in BOOLEAN
  BY Parts DEF ClientInv, LinkOK, QueueOK
<1>2. /\ connected' = FALSE /\ unsaid' = (unsaid \/ connected) /\ state' = "BROKER_READY"
      /\ UNCHANGED <<queue, dropped, sensor>>
  BY DEF Connect, Go, Outside
<1>3. ASSUME ~dropped', ~unsaid' PROVE Told(connected)'
  <2>1. ~unsaid /\ connected = FALSE
    BY <1>1, <1>2, <1>3
  <2>2. Told(connected)
    BY <1>2, <1>3, <2>1 DEF SensorFollows
  <2>. QED BY <1>2, <2>1, <2>2 DEF Told
<1>. QED BY <1>2, <1>3 DEF SensorFollows

LEMMA TaskFollows == ASSUME ClientInv, SensorFollows, MqttTask PROVE SensorFollows'
<1>1. QueueOK /\ connected \in BOOLEAN /\ Where
  BY Parts DEF ClientInv, LinkOK
<1>2. sensor' = sensor
  BY DEF MqttTask, SetupClient, SetupBroker, BrokerSet, Connect, MqttConnect, AwaitConnack,
         WaitForConnack, Subscribe, ReadPacket, ReadFails, ReadClosed, KeepAlivePing,
         Publish, LeaveRunning, OnError, Outside
<1>3. CASE Connect
  BY <1>3, ConnectFollows
<1>4. CASE SetupClient \/ SetupBroker \/ BrokerSet \/ WaitForConnack
  <2>1. PostNothing /\ connected' = connected
    BY <1>4 DEF SetupClient, SetupBroker, BrokerSet, WaitForConnack
  <2>2. ~InSession'
    BY <1>4 DEF SetupClient, SetupBroker, BrokerSet, WaitForConnack, At, Go, InSession
  <2>. QED BY <1>1, <1>2, <2>1, <2>2, FollowsOnOther
<1>5. CASE MqttConnect \/ AwaitConnack
  <2>1. ~connected /\ ~InSession'
    BY <1>1, <1>5 DEF MqttConnect, AwaitConnack, At, Go, Where, InSession
  <2>2. CASE Post("MQTT_CONNECTED") /\ connected' = TRUE
    BY <1>1, <2>2, FollowsOnPost DEF Announcing
  <2>3. CASE Post("MQTT_DISCONNECTED") /\ connected' = FALSE
    BY <1>1, <2>3, FollowsOnPost DEF Announcing
  <2>4. CASE PostNothing /\ connected' = connected
    BY <1>1, <1>2, <2>1, <2>4, FollowsOnOther
  <2>. QED BY <1>1, <1>5, <2>1, <2>2, <2>3, <2>4
           DEF MqttConnect, AwaitConnack, Disconnect, on_disconnect
<1>6. CASE \/ Subscribe \/ ReadPacket \/ ReadFails \/ ReadClosed \/ KeepAlivePing
           \/ Publish \/ LeaveRunning \/ OnError
  <2>1. InSession \/ connected
    BY <1>6 DEF Subscribe, ReadPacket, ReadFails, ReadClosed, KeepAlivePing, Publish,
                LeaveRunning, OnError, Reading, At, InSession
  <2>2. CASE Disconnect
    BY <1>1, <2>2, FollowsOnDisconnect
  <2>3. CASE connected' = connected /\ (PostNothing \/ Post("OTHER"))
    BY <1>1, <1>2, <2>1, <2>3, FollowsOnOther
  <2>. QED BY <1>6, <2>2, <2>3
           DEF Subscribe, ReadPacket, ReadFails, ReadClosed, KeepAlivePing, Publish,
               LeaveRunning, OnError, WriteFails
<1>. QED BY <1>3, <1>4, <1>5, <1>6 DEF MqttTask

LEMMA OthersFollow ==
    ASSUME ClientInv, SensorFollows,
           StartMqtt \/ ManagerStep \/ Notify \/ OtherEvent \/ SampleSensor \/ Network
    PROVE  SensorFollows'
<1>1. QueueOK /\ connected \in BOOLEAN
  BY Parts DEF ClientInv, LinkOK
<1>2. connected' = connected /\ (InSession' => InSession)
  BY DEF StartMqtt, ManagerStep, Notify, OtherEvent, SampleSensor, taskVars, mqttVars,
         Network, BrokerAnswers, BrokerSends, PeerLost, PeerBack, Closes, TcpGivesUp,
         netRest, Go, InSession
<1>3. CASE Notify
  <2>1. dropped' = dropped /\ unsaid' = unsaid
    BY <1>3 DEF Notify
  <2>2. ASSUME ~dropped', ~unsaid' PROVE Told(connected)'
    <3>1. Told(connected)
      BY <2>1, <2>2 DEF SensorFollows
    <3>2. CASE connected
      <4>1. Told(TRUE)
        BY <3>1, <3>2
      <4>2. Told(TRUE)'
        BY <1>1, <1>3, <4>1, ToldOnNotify
      <4>. QED BY <1>2, <3>2, <4>2
    <3>3. CASE ~connected
      <4>1. Told(FALSE)
        BY <1>1, <3>1, <3>3
      <4>2. Told(FALSE)'
        BY <1>1, <1>3, <4>1, ToldOnNotify
      <4>. QED BY <1>1, <1>2, <3>3, <4>2
    <3>. QED BY <3>2, <3>3
  <2>. QED BY <1>2, <2>1, <2>2 DEF SensorFollows, InSession
<1>4. CASE StartMqtt \/ ManagerStep \/ OtherEvent \/ SampleSensor \/ Network
  <2>1. sensor' = sensor /\ (PostNothing \/ Post("OTHER"))
    BY <1>4 DEF StartMqtt, ManagerStep, OtherEvent, SampleSensor, Network, BrokerAnswers,
                BrokerSends, PeerLost, PeerBack, Closes, TcpGivesUp, netRest, PostNothing,
                postVars
  <2>. QED BY <1>1, <1>2, <2>1, FollowsOnOther
<1>. QED BY <1>3, <1>4

\* In every state of the client's thread, restarted or not: what the sensor has been
\* told and what is on its way says what the client's flag says, for every capacity
\* of the queue, unless the client's last event was dropped, or connect() has cleared
\* a flag that was still set and nothing has been posted since; and that silence never
\* reaches a session (MQTT::on_connect and on_disconnect post, connect does not,
\* Notify calls LvlSensor::Update).
THEOREM SensorIsTold == Spec => []SensorFollows
<1>0. \A q : q = <<>> => \A i \in DOMAIN q : q[i] = "OTHER"
  OBVIOUS
<1>1. Init => SensorFollows
  BY <1>0 DEF Init, Start, SensorFollows, Told
<1>2. ClientInv /\ SensorFollows /\ [Next]_vars => SensorFollows'
  <2> SUFFICES ASSUME ClientInv, SensorFollows, [Next]_vars PROVE SensorFollows'
    OBVIOUS
  <2>1. CASE Reboot
    BY <1>0, <2>1 DEF Reboot, SensorFollows, Told
  <2>2. CASE MqttTask
    BY <2>2, TaskFollows
  <2>3. CASE StartMqtt \/ ManagerStep \/ Notify \/ OtherEvent \/ SampleSensor \/ Network
    BY <2>3, OthersFollow
  <2>4. CASE UNCHANGED vars
    BY <2>4 DEF vars, taskVars, postVars, SensorFollows, Told
  <2>. QED BY <2>1, <2>2, <2>3, <2>4 DEF Next
<1>. QED BY <1>1, <1>2, ClientInvariant, PTL DEF Spec
===============================================================================
