------------------------------ MODULE MqttClient ------------------------------
(***************************************************************************)
(* The MQTT client: the thread mqtt_task with its state machine, the       *)
(* handlers the library calls from it, the task watchdog it feeds, the     *)
(* level sensor's thread with its queue of one sample, and the dispatcher  *)
(* as both see it.  The connection manager is a Session.  The library, TCP *)
(* and the broker are the environment.                                     *)
(*                                                                         *)
(* Time passes in the waits of the MQTT thread: a wait of d adds d to the  *)
(* age of every watchdog channel.                                          *)
(***************************************************************************)
EXTENDS Integers, Sequences

CONSTANTS
    KeepAlive,       \* CONFIG_MQTT_KEEPALIVE
    Limit,           \* CONFIG_MQTT_WATCHDOG_TIMEOUT_THREAD
    Slow,            \* what the name resolution, and the connection, may take
    ConnackWait,     \* the poll of connect()
    Pause,           \* the sleeps between two attempts
    QueueCap,        \* the capacity of net_evt_queue
    Recreated        \* what becomes of a thread that is created while it runs

ASSUME TimesAssumption ==
    /\ {KeepAlive, Limit, Slow, ConnackWait, Pause} \subseteq Nat
    /\ 0 < KeepAlive /\ KeepAlive < Limit /\ Pause < Limit
ASSUME CapAssumption == QueueCap \in Nat \ {0}
ASSUME RecreatedAssumption ==
    Recreated # {} /\ Recreated \subseteq {"restart", "dead", "fault"}

VARIABLES
    phase, failures, gate,    \* the Session
    thread,      \* the MQTT thread: "none", "alive", or "dead" after a bad start
    state,       \* state of mqtt_task
    pc,          \* in a state: "loop", or "dns", "tcp", "connack", "publish"
                 \* when half way
    connected,   \* isMqttConnected
    lib,         \* the library: "idle", "waiting" for the CONNACK, "session"
    sock,        \* TCP: "none", "open", "silent" (peer gone, nothing in flight),
                 \* "unacked" (peer gone, data in flight), "closed"
    inbox,       \* what can be read: "none", "connack", "refusal", "packet"
    subscribed,  \* has the broker of this session been sent the topics?
    quiet,       \* the time since the last packet written
    age, left,   \* the ages of the thread's watchdog channel, and of the first
                 \* channel an earlier incarnation has left behind
    queue,       \* net_evt_queue
    sensor,      \* LvlSensor: isMQTTconnectd
    sample,      \* is there a sample in mqtt_publish_queue?
    fed,         \* history: has this session been fed once?
    dropped,     \* history: was the client's last event dropped?
    unsaid       \* history: has connect() cleared the flag since that event?

sessionVars == <<phase, failures, gate>>
taskVars == <<thread, state, pc>>
linkVars == <<lib, sock, inbox, subscribed>>
wdtVars == <<age, left, fed>>
postVars == <<queue, dropped, unsaid>>
vars == <<sessionVars, taskVars, connected, linkVars, quiet, wdtVars,
          postVars, sensor, sample>>

Manager == INSTANCE Session WITH MaxTries <- 1

States == {"INIT", "CLIENT_READY", "BROKER_READY", "CONNECTING", "RUNNING", "ERROR"}
Events == {"MQTT_CONNECTED", "MQTT_DISCONNECTED", "OTHER"}

TypeOK ==
    /\ phase \in {"offline", "trying", "online", "asking"} /\ failures \in Nat
    /\ gate \in {"none", "blocked", "released"}
    /\ thread \in {"none", "alive", "dead"} /\ state \in States
    /\ pc \in {"loop", "dns", "tcp", "connack", "publish"}
    /\ connected \in BOOLEAN /\ subscribed \in BOOLEAN
    /\ lib \in {"idle", "waiting", "session"}
    /\ sock \in {"none", "open", "silent", "unacked", "closed"}
    /\ inbox \in {"none", "connack", "refusal", "packet"}
    /\ quiet \in 0 .. KeepAlive
    /\ age \in 0 .. Limit /\ left \in {{}} \cup {{a} : a \in 0 .. Limit}
    /\ queue \in Seq(Events) /\ Len(queue) <= QueueCap
    /\ sensor \in BOOLEAN /\ sample \in BOOLEAN
    /\ fed \in BOOLEAN /\ dropped \in BOOLEAN /\ unsaid \in BOOLEAN

Start == /\ thread = "none" /\ state = "INIT" /\ pc = "loop" /\ connected = FALSE
         /\ lib = "idle" /\ sock = "none" /\ inbox = "none" /\ subscribed = FALSE
         /\ quiet = 0 /\ age = 0 /\ left = {}
         /\ queue = <<>> /\ sensor = FALSE /\ sample = FALSE
         /\ fed = FALSE /\ dropped = FALSE /\ unsaid = FALSE

Init == Manager!Init /\ Start

-----------------------------------------------------------------------------
HasRoom == Len(queue) < QueueCap
Post(e) == /\ queue' = IF HasRoom THEN Append(queue, e) ELSE queue
           /\ dropped' = IF e = "OTHER" THEN dropped ELSE ~HasRoom
           /\ unsaid' = (unsaid /\ e = "OTHER")
PostNothing == UNCHANGED postVars

(***************************************************************************)
(* The watchdog.  A channel that reaches its limit stays there: the device *)
(* reboots.  Elapse is a wait, WaitAndFeed a wait that ends in a feed, and *)
(* then in a sleep.                                                        *)
(***************************************************************************)
Later(a, d) == IF a + d < Limit THEN a + d ELSE Limit
Others(d)   == left' = {Later(a, d) : a \in left}

Elapse(d) == age' = Later(age, d) /\ Others(d) /\ UNCHANGED fed

WaitAndFeed(d, sleep) == /\ age' = IF age + d < Limit THEN sleep ELSE Limit
                         /\ Others(d + sleep)

Bitten == age = Limit \/ Limit \in left

(***************************************************************************)
(* The library.  MQTT_EVT_DISCONNECT comes with every failure it finds on  *)
(* a connection; the connection is closed by then.                         *)
(***************************************************************************)
\* Mutant of on_disconnect: the flag survives.
on_disconnectKept == UNCHANGED connected
on_disconnect     == connected' = FALSE

Disconnect == /\ Post("MQTT_DISCONNECTED") /\ on_disconnect
              /\ lib' = "idle" /\ sock' = "none" /\ inbox' = "none"
              /\ UNCHANGED subscribed

\* What TCP accepts: a peer that is gone leaves the data unacknowledged.
Write == /\ sock \in {"open", "silent", "unacked", "closed"}
         /\ sock' = IF sock = "silent" THEN "unacked" ELSE sock
         /\ quiet' = 0

WriteFails == sock = "closed" /\ Disconnect /\ UNCHANGED quiet

-----------------------------------------------------------------------------
(***************************************************************************)
(* mqtt_task, one action per state and outcome.                            *)
(***************************************************************************)
At(s, p) == state = s /\ pc = p
Go(s, p) == state' = s /\ pc' = p
Outside == UNCHANGED <<sessionVars, thread, sensor>>

\* mqtt_client_init forgets the socket of an earlier incarnation.
SetupClient ==
    /\ At("INIT", "loop") /\ Go("CLIENT_READY", "loop")
    /\ lib' = "idle" /\ sock' = "none" /\ inbox' = "none"
    /\ Outside /\ PostNothing
    /\ UNCHANGED <<connected, subscribed, quiet, wdtVars, sample>>

\* setup_broker: the name may not be resolved, and no number of attempts has to.
SetupBroker ==
    /\ At("CLIENT_READY", "loop") /\ Go("CLIENT_READY", "dns")
    /\ Outside /\ PostNothing
    /\ UNCHANGED <<connected, linkVars, quiet, wdtVars, sample>>

BrokerSet ==
    /\ At("CLIENT_READY", "dns")
    /\ \E d \in 0 .. Slow :
          \/ Go("BROKER_READY", "loop") /\ Elapse(d)
          \/ Go("CLIENT_READY", "loop") /\ WaitAndFeed(d, Pause) /\ UNCHANGED fed
    /\ Outside /\ PostNothing
    /\ UNCHANGED <<connected, linkVars, quiet, sample>>

\* connect: a flag that is still set is cleared here, and no event tells it.
Connect ==
    /\ At("BROKER_READY", "loop") /\ Go("BROKER_READY", "tcp")
    /\ connected' = FALSE /\ unsaid' = (unsaid \/ connected)
    /\ lib' = "idle" /\ sock' = "none" /\ inbox' = "none" /\ subscribed' = FALSE
    /\ Outside /\ UNCHANGED <<queue, dropped, quiet, wdtVars, sample>>

\* TCP may fail, or the write of CONNECT, which is a disconnection.
MqttConnect ==
    /\ At("BROKER_READY", "tcp")
    /\ \E d \in 0 .. Slow :
          \/ /\ Go("BROKER_READY", "connack") /\ Elapse(d)
             /\ lib' = "waiting" /\ sock' = "open" /\ quiet' = 0
             /\ PostNothing
          \/ /\ Go("BROKER_READY", "loop") /\ WaitAndFeed(d, Pause) /\ UNCHANGED fed
             /\ UNCHANGED <<lib, sock, quiet>>
             /\ PostNothing \/ Post("MQTT_DISCONNECTED")
    /\ Outside /\ UNCHANGED <<connected, inbox, subscribed, sample>>

\* The one poll of connect(), and CONNACK in the handler.
AwaitConnack ==
    /\ At("BROKER_READY", "connack") /\ Go("CONNECTING", "loop")
    /\ \/ /\ inbox = "connack"
          /\ Post("MQTT_CONNECTED") /\ connected' = TRUE
          /\ lib' = "session" /\ inbox' = "none" /\ UNCHANGED <<sock, subscribed>>
          /\ \E d \in 0 .. ConnackWait : Elapse(d)
       \/ /\ inbox = "refusal" \/ (inbox = "none" /\ sock = "closed")
          /\ Disconnect
          /\ \E d \in 0 .. ConnackWait : Elapse(d)
       \/ /\ inbox = "none" /\ sock # "closed"
          /\ PostNothing /\ UNCHANGED <<connected, linkVars>>
          /\ Elapse(ConnackWait)
    /\ Outside /\ UNCHANGED <<quiet, sample>>

WaitForConnack ==
    /\ At("CONNECTING", "loop") /\ ~connected
    /\ WaitAndFeed(0, Pause) /\ UNCHANGED fed
    /\ Outside /\ PostNothing
    /\ UNCHANGED <<state, pc, connected, linkVars, quiet, sample>>

\* Mutant of Subscribe: the state is RUNNING whatever came of the write.
SubscribeBlindly ==
    /\ At("CONNECTING", "loop") /\ connected /\ Go("RUNNING", "loop")
    /\ \/ Write /\ subscribed' = TRUE /\ PostNothing /\ UNCHANGED <<connected, lib, inbox>>
       \/ sock = "closed" /\ UNCHANGED <<connected, linkVars, quiet>> /\ PostNothing
    /\ Outside /\ UNCHANGED <<wdtVars, sample>>

Subscribe ==
    /\ At("CONNECTING", "loop") /\ connected
    /\ \/ /\ Write /\ Go("RUNNING", "loop") /\ subscribed' = TRUE
          /\ PostNothing /\ UNCHANGED <<connected, lib, inbox>>
       \/ WriteFails /\ Go("ERROR", "loop")
    /\ Outside /\ UNCHANGED <<wdtVars, sample>>

-----------------------------------------------------------------------------
(***************************************************************************)
(* read_payload, which polls until the next ping is due, and the rest of   *)
(* an iteration in RUNNING.                                                *)
(***************************************************************************)
\* Mutant of TimeLeft: the packets written since the last ping do not count.
TimeLeftWhole == KeepAlive
TimeLeft      == KeepAlive - quiet
Reading == At("RUNNING", "loop") /\ connected

\* A packet; the handler of a message may post an event for the application.
\* When its connection has ended meanwhile the session is left, the flag still set.
ReadPacket ==
    /\ Reading /\ inbox = "packet"
    /\ IF sock = "closed" THEN Go("ERROR", "loop") ELSE Go("RUNNING", "publish")
    /\ inbox' = "none"
    /\ PostNothing \/ Post("OTHER")
    /\ \E d \in 0 .. TimeLeft : Elapse(d) /\ quiet' = quiet + d
    /\ Outside /\ UNCHANGED <<connected, lib, sock, subscribed, sample>>

\* A packet that is malformed, or breaks off: the library ends the connection.
ReadFails ==
    /\ Reading /\ inbox = "packet"
    /\ Disconnect
    /\ \E d \in 0 .. TimeLeft : Elapse(d) /\ quiet' = quiet + d
    /\ Go("ERROR", "loop") \/ Go("RUNNING", "publish")
    /\ Outside /\ UNCHANGED sample

\* The end of the connection is -ENOTCONN, an error on it another number.
ReadClosed ==
    /\ Reading /\ inbox = "none" /\ sock = "closed"
    /\ Disconnect
    /\ \E d \in 0 .. TimeLeft : Elapse(d) /\ quiet' = quiet + d
    /\ Go("ERROR", "loop") \/ Go("RUNNING", "publish")
    /\ Outside /\ UNCHANGED sample

\* Mutant of KeepAlivePing: the poll times out and no ping is sent.
KeepAliveOnly ==
    /\ Reading /\ inbox = "none" /\ sock # "closed" /\ Go("RUNNING", "publish")
    /\ Elapse(TimeLeft) /\ quiet' = 0
    /\ Outside /\ PostNothing /\ UNCHANGED <<connected, linkVars, sample>>

KeepAlivePing ==
    /\ Reading /\ inbox = "none" /\ sock # "closed" /\ Go("RUNNING", "publish")
    /\ Elapse(TimeLeft) /\ Write
    /\ Outside /\ PostNothing
    /\ UNCHANGED <<connected, lib, inbox, subscribed, sample>>

\* Mutant of Feeds: only a publication feeds the watchdog.
FeedsPublished == IF sample THEN WaitAndFeed(0, 0) ELSE Elapse(0)
Feeds          == WaitAndFeed(0, 0)

\* The sample is taken from its queue whether or not it can be sent.
Publish ==
    /\ At("RUNNING", "publish") /\ Go("RUNNING", "loop")
    /\ sample' = FALSE
    /\ \/ /\ sample /\ lib = "session" /\ Write
          /\ PostNothing /\ UNCHANGED <<connected, lib, inbox, subscribed>>
       \/ sample /\ lib = "session" /\ WriteFails
       \/ /\ ~sample \/ lib # "session"
          /\ PostNothing /\ UNCHANGED <<connected, linkVars, quiet>>
    /\ Feeds /\ fed' = TRUE
    /\ Outside

LeaveRunning ==
    /\ At("RUNNING", "loop") /\ ~connected /\ Go("ERROR", "loop")
    /\ Outside /\ PostNothing
    /\ UNCHANGED <<connected, linkVars, quiet, wdtVars, sample>>

OnError ==
    /\ At("ERROR", "loop")
    /\ \/ gate = "released" /\ Go("CLIENT_READY", "loop") /\ UNCHANGED <<age, left>>
       \/ gate # "released" /\ WaitAndFeed(0, Pause) /\ UNCHANGED <<state, pc>>
    /\ fed' = FALSE
    /\ Outside /\ PostNothing
    /\ UNCHANGED <<connected, linkVars, quiet, sample>>

MqttTask ==
    /\ thread = "alive" /\ ~Bitten
    /\ \/ SetupClient \/ SetupBroker \/ BrokerSet \/ Connect \/ MqttConnect
       \/ AwaitConnack \/ WaitForConnack \/ Subscribe
       \/ ReadPacket \/ ReadFails \/ ReadClosed \/ KeepAlivePing \/ Publish
       \/ LeaveRunning \/ OnError

-----------------------------------------------------------------------------
(***************************************************************************)
(* The dispatcher: on_entry and on_exit of CONNECTED, the other steps of   *)
(* the manager, and Notify, which calls LvlSensor::Update.                 *)
(***************************************************************************)
mqttVars == <<connected, linkVars, quiet>>

\* release_mqtt and start_mqtt: the thread registers a channel of its own
\* each time, and begins again while the old one may be anywhere.
StartMqtt ==
    /\ Manager!Open
    /\ \/ thread = "none" /\ thread' = "alive"
       \/ thread # "none" /\ "restart" \in Recreated /\ thread' = "alive"
       \/ thread # "none" /\ "dead" \in Recreated /\ thread' = "dead"
    /\ Go("INIT", "loop")
    /\ left' = IF thread = "none" \/ left # {} THEN left ELSE {age}
    /\ age' = 0 /\ fed' = FALSE
    /\ PostNothing /\ UNCHANGED <<mqttVars, sensor, sample>>

ManagerStep ==
    /\ Manager!Quiet \/ Manager!Drop
    /\ UNCHANGED <<taskVars, mqttVars, wdtVars, postVars, sensor, sample>>

\* Mutants of Notified: only one of the two events is told.
NotifiedUps(e)   == sensor \/ e = "MQTT_CONNECTED"
NotifiedDowns(e) == sensor /\ e # "MQTT_DISCONNECTED"
Notified(e)      == IF e = "OTHER" THEN sensor ELSE e = "MQTT_CONNECTED"

Notify ==
    /\ queue # <<>>
    /\ sensor' = Notified(Head(queue)) /\ queue' = Tail(queue)
    /\ UNCHANGED <<sessionVars, taskVars, mqttVars, wdtVars, dropped, unsaid, sample>>

OtherEvent ==
    /\ HasRoom /\ Post("OTHER")
    /\ UNCHANGED <<sessionVars, taskVars, mqttVars, wdtVars, sensor, sample>>

\* The sensor's thread: a sample that finds one in the queue is dropped.
SampleSensor ==
    /\ sensor /\ sample' = TRUE
    /\ UNCHANGED <<sessionVars, taskVars, mqttVars, wdtVars, postVars, sensor>>

(***************************************************************************)
(* The broker and TCP.  A peer that is gone may come back before TCP gives *)
(* the data in flight up; without data in flight TCP notices nothing.      *)
(***************************************************************************)
netRest == <<sessionVars, taskVars, connected, lib, subscribed, quiet, wdtVars,
             postVars, sensor, sample>>

BrokerAnswers == /\ lib = "waiting" /\ sock = "open" /\ inbox = "none"
                 /\ inbox' \in {"connack", "refusal"}
                 /\ UNCHANGED <<netRest, sock>>

BrokerSends == /\ lib = "session" /\ sock = "open" /\ inbox = "none"
               /\ inbox' = "packet"
               /\ UNCHANGED <<netRest, sock>>

PeerLost == /\ sock = "open" /\ sock' \in {"silent", "unacked"}
            /\ UNCHANGED <<netRest, inbox>>

PeerBack == /\ sock \in {"silent", "unacked"} /\ sock' = "open"
            /\ UNCHANGED <<netRest, inbox>>

Closes == /\ sock = "open" /\ sock' = "closed"
          /\ UNCHANGED <<netRest, inbox>>

TcpGivesUp == /\ sock = "unacked" /\ sock' = "closed"
              /\ UNCHANGED <<netRest, inbox>>

\* The watchdog's callback, or the fault of a thread created on top of itself.
Reboot ==
    /\ \/ Bitten
       \/ /\ "fault" \in Recreated /\ thread # "none"
          /\ phase = "online" /\ gate # "released"
    /\ phase' = "offline" /\ failures' = 0 /\ gate' = "none"
    /\ thread' = "none" /\ state' = "INIT" /\ pc' = "loop" /\ connected' = FALSE
    /\ lib' = "idle" /\ sock' = "none" /\ inbox' = "none" /\ subscribed' = FALSE
    /\ quiet' = 0 /\ age' = 0 /\ left' = {}
    /\ queue' = <<>> /\ sensor' = FALSE /\ sample' = FALSE
    /\ fed' = FALSE /\ dropped' = FALSE /\ unsaid' = FALSE

Network == BrokerAnswers \/ BrokerSends \/ PeerLost \/ PeerBack \/ Closes \/ TcpGivesUp

Next == \/ Reboot
        \/ MqttTask
        \/ ~Bitten /\ (\/ StartMqtt \/ ManagerStep \/ Notify
                       \/ OtherEvent \/ SampleSensor \/ Network)

Spec == Init /\ [][Next]_vars

(***************************************************************************)
(* The threads have one priority and time slices, and each blocks in every *)
(* turn; TCP retransmits only so often; the watchdog is hardware.  Nothing *)
(* is assumed of the name resolution, of the broker, of a peer that is     *)
(* gone, or of Wi-Fi: an attempt that fails is a turn of the thread.       *)
(***************************************************************************)
FairSpec == /\ Spec
            /\ WF_vars(MqttTask) /\ WF_vars(~Bitten /\ Notify)
            /\ WF_vars(~Bitten /\ SampleSensor) /\ WF_vars(~Bitten /\ TcpGivesUp)
            /\ WF_vars(Reboot)

-----------------------------------------------------------------------------
(***************************************************************************)
(* The client believes in a session only while the library has one whose   *)
(* broker has been sent the topics: commands reach the feeder.             *)
(***************************************************************************)
RunningIsSession ==
    thread = "alive" /\ state = "RUNNING" /\ connected =>
        lib = "session" /\ subscribed /\ sock # "none"

(***************************************************************************)
(* The sensor, which samples for a session that exists, is told what the   *)
(* client believes: sensor and events on their way say what the flag says, *)
(* in every state of the thread, after any sequence of sessions, restarts  *)
(* of the thread and failures, unless the client's last event found the    *)
(* queue full or connect() has cleared the flag since then, which it does  *)
(* without an event.  That silence ends with the next session, at latest.  *)
(***************************************************************************)
Told(on) ==
    \/ sensor = on /\ \A i \in DOMAIN queue : queue[i] = "OTHER"
    \/ \E i \in DOMAIN queue :
          /\ queue[i] = IF on THEN "MQTT_CONNECTED" ELSE "MQTT_DISCONNECTED"
          /\ \A j \in DOMAIN queue : j > i => queue[j] = "OTHER"

SensorFollows ==
    /\ ~dropped /\ ~unsaid => Told(connected)
    /\ unsaid => ~connected /\ state \notin {"RUNNING", "ERROR"}

(***************************************************************************)
(* The same, connect() included: it is not so once the thread has been     *)
(* started anew in a session, or a packet was read as its connection ended.*)
(***************************************************************************)
SensorAlwaysTold == ~dropped => Told(connected)

(***************************************************************************)
(* A session in which the watchdog has been fed once keeps its own channel *)
(* young: the polls end with the keepalive, before the channel's limit,    *)
(* and every iteration feeds, whatever came of its reading.  So the only   *)
(* channel that can reboot the device in it is one that an earlier         *)
(* incarnation of the thread has left behind (see FlapIsSurvived).         *)
(***************************************************************************)
SessionIsFed ==
    thread = "alive" /\ state = "RUNNING" /\ fed =>
        age <= KeepAlive /\ (Bitten => Limit \in left)

(***************************************************************************)
(* A session whose peer is gone is noticed, by the ping that TCP cannot    *)
(* deliver or by the end of the connection, and left: once the gate is     *)
(* open the client starts over with the broker's name.  That the name is   *)
(* resolved, or the broker accepts, nothing promises.                      *)
(***************************************************************************)
LostIsRetried ==
    (thread = "alive" /\ state = "RUNNING" /\ sock \in {"silent", "unacked", "closed"})
    ~> (state \in {"CLIENT_READY", "BROKER_READY", "INIT"} \/ gate # "released" \/ sock = "open")

(***************************************************************************)
(* In a session that lasts samples are published again and again.          *)
(***************************************************************************)
SamplesFlow ==
    <>[](thread = "alive" /\ state = "RUNNING" /\ connected /\ ~dropped)
    => []<>sample /\ []<>~sample

(***************************************************************************)
(* "if the connection with broker was lost the task also keeps trying to   *)
(* reconnect every 5 seconds": it does not wait for ever for an answer.    *)
(***************************************************************************)
ConnectingEnds ==
    (thread = "alive" /\ state = "CONNECTING") ~> (state # "CONNECTING")

(***************************************************************************)
(* Netmgnt gates the client on Wi-Fi "without stopping the thread": a      *)
(* connection that comes back does not end in a reboot.                    *)
(***************************************************************************)
FlapIsSurvived == Limit \notin left

(***************************************************************************)
(* The gate "prevents the MQTT machine from spinning through reconnect     *)
(* attempts while the network is known to be down".                        *)
(***************************************************************************)
GateStopsAttempts ==
    [][lib # "waiting" /\ lib' = "waiting" => gate = "released"]_vars

(***************************************************************************)
(* The watchdog fires when the thread stalls, not while it reconnects.     *)
(***************************************************************************)
ReconnectsInTime == thread = "alive" => age < Limit
=============================================================================
