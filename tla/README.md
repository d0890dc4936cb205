# Automatic pet feeder: specifications and proofs

TLA+ specifications of the firmware in `../src`, checked with TLC and, where a
theorem is listed, proved with TLAPS for every value of the constants.
Paths below are relative to the root of the repository (`src/…` is its source directory).

The feeder is a Zephyr application for an ESP32-S3. Rules ("feed 12 steps on
Mondays at 8:30") arrive over MQTT, are kept in flash, and are compared with a
battery-backed clock every five seconds; a matching rule turns a stepper motor.
A second subsystem keeps the device on Wi-Fi and takes credentials over
Bluetooth when it cannot.

## 1. Inventory

| Component | State | Operations | Talks to |
|---|---|---|---|
| `Application` | thread state, `rules` (RAM), `isRulesAvaliable`, `shouldUpdateRules` | `app` loop, `get_rules`, `select_rules_to_execute`, `process_rules`, `Update` | store, clock, motor, watchdog; told by `Netmgnt::Notify` |
| `SchedulerRules` | `map`, a bitset of used slots | `init`, `write_rule`, `read_rules`, `delete_rule`, `clear_rules`, count | called by the application and the MQTT thread, without a lock; calls `Storage` |
| `Storage` | ZMS flash entries, a mutex per operation | read, write, delete, emptiness of an id | – |
| `Netmgnt` | `wifi_sm` (state, tries), listeners, RSSI work item | dispatcher thread, `process_state`, `on_entry`, `on_exit`, `Notify` | reads `net_evt_queue`; calls Wi-Fi, MQTT, LED, provisioning; calls the listeners |
| `WifiStation` | one timer, the interface | connect, disconnect, DHCP, driver callbacks, timer handler | posts to `net_evt_queue` |
| `Provisioning`, `BluetoothLE` | `isProvisioningEnabled`, credentials buffer, advertising | start, stop, GATT writes, storing credentials | posts to `net_evt_queue` |
| `MQTT` | client state machine, `isMqttConnected`, `isWifiConnected` | `mqtt_task`, topic handlers, publish | store, `net_evt_queue`, publish queue, watchdog |
| `RTC` | `rtc_time_spec`, sync timer and work item | getters, `sync_time`, `Update` | SNTP, clock chip |
| `LvlSensor` | `isMQTTconnectd`, last sample | sampling thread, `Update` | publish queue (one place) |
| `StepperController` | GPIO pins | `move_for` | called by the application thread and by the dispatcher (feed now) |
| `Led`, `Watchdog`, `JsonModule` | colour; channels; none | output; feed; parse and encode | – |
| `main` | the two queues, the objects | wiring, start-up order | everything |

Threads: the dispatcher of `Netmgnt`, the application, MQTT and the level sensor,
all with priority 5 (time-sliced), plus the system work queue, the network and
Bluetooth stacks and the timer interrupt.

How the parts interact: `net_evt_queue` (ten places, `K_NO_WAIT`, a full queue
drops the event) carries every event to the dispatcher, which runs the Wi-Fi
state machine and then, in its own thread, the `Update` of each listener. The
store is shared by two threads. `wifi_sm.state` is read by the work item, and
the MQTT gate is a flag that the dispatcher writes.

What is hard, and what must hold:

* **Store.** Two threads in an unprotected bitset; a flash operation and its bit
  are two steps with a power loss in between; each of several flash operations
  may fail. Accepted rules must stay, index and flash must agree, and a rule may be
  refused only for lack of room.
* **Feeding loop.** RAM is a copy of the store that other threads outdate; the
  loop bound is read live; the clock moves between its readings; updates travel
  through a lossy queue and a flag that is tested and cleared by separate
  instructions. Due rules must be fed, once, and the copy must catch up.
* **Connection.** One timer for two kinds of wait, late results of abandoned
  attempts, callbacks while `on_entry` sleeps, dropped events, a shared retry
  counter. What the machine believes must be true or be about to be
  corrected; no wait may be endless; tries must be counted right.
* **MQTT client.** A thread created anew, on its own stack, at every connection; a connection
  acknowledgement that one poll waits for; samples taken from their queue before they are
  published; a watchdog fed at the end of some turns. What the client and the
  sensor believe must be true, a lost session must be left, and the watchdog must spare a live one.
* **Motor and listeners.** Two callers of one motor, an amount read through a pointer to a stack
  that is gone, listeners whose masks may not match. The motor must rest
  disabled, and an update must get past the feedings that hold the dispatcher.
* **Provisioning data.** Name and password come in two writes, wait in a buffer
  that outlives a phone's connection, are copied by one thread and read by another
  without a lock. A name must be stored with its own password.

`PROJECT.json` lists the hazards one by one, each with the line where it bites
and the properties that would show it.

## 2. Modules

| Module | Models |
|---|---|
| `SchedulerRules` | `SchedulerRules` over `Storage`: calls as small state machines (no specification of its own) |
| `RuleStore` | the store under its callers and power losses |
| `FeedScheduler` | application thread, add and remove handlers of MQTT, queue and dispatcher as they see it, clock, power losses; extends `SchedulerRules` |
| `WifiManager` | `Netmgnt`, `WifiStation`, `Provisioning`, `BluetoothLE` and their environment |
| `MqttClient` | `MQTT`, `LvlSensor`, the watchdog channel of the MQTT thread, broker and TCP; runs under `Session` |
| `Dispensing` | `Notify` and its listeners, `StepperController`, feed now |
| `Credentials` | the credentials from a phone into flash |
| `RuleTable` | abstract: the table of rules a caller of the store sees; `RuleStore` implements it |
| `Session` | abstract: what the connection manager promises; `WifiManager` implements it |
| `MCRuleStore`, `MCFeedScheduler`, `MCDispensing` | sets of rules, callers and numbers for TLC (the others need no such module) |
| `SchedulerRulesProofs` and `…Proofs` of `RuleStore`, `FeedScheduler`, `WifiManager`, `MqttClient`, `Dispensing`, `Credentials` | theorems and lemmas |

The modules are joined in two ways. `FeedScheduler` extends the store and `MqttClient` instantiates
`Session`, so they are compositions; and the two abstract modules are implemented, so what is checked above them
holds of the detailed ones below.

### SchedulerRules and RuleStore

`flash` maps each ZMS id to a rule or to `Empty`; `map` is the set of slots whose
bit is set; `call[t]` is the call thread `t` is in. A call goes through
`"test"` (`write_rule` tests the bit of a slot), `"flash"` (one operation under the mutex of `Storage`, which is why it is one
step), `"load"` and `"store"` (the two halves of `map.set`), and `"return"`; the other thread may run between any two of them. `CallDelete`
keeps the code's mixture of numbers: it tests the bit and the id of the slot,
and `DeleteSlot` erases the id `ErasedBy(s) = s`. Writing what an id already
holds does not count as a success, because ZMS answers 0 and `write_rule`
looks for a positive result; the loop then goes on to the next free slot. `is_id_empty` answers
"empty" for an id whose length cannot be read, as the code does for every result that is not positive (`Storage.cpp:167`):
with the fault `"length"`, `init` may build any of `InitMaps`, the bitsets without some of the stored rules.
`RuleStore` adds the callers: `Removals` and `Clearers` say who may ask what,
`kept` records what was accepted, not asked away and not given up by a restart, and `unseen` the slots whose rule the last `init`
did not see: the entry is there, without a bit, until a later restart sees it, a write takes the slot or a clear erases it.

### FeedScheduler

The thread's `pc` has the states of `APP_STATES` and, inside them, the points at
which another thread can matter: each test of a bit in the loop of `read_rules` (`reading`) and each
read of an entry (`read`), each
reading of the clock in a match (`select` reads the day, `hour`, `minute`), the
deletion of an executed rule, and the place between the test of
`shouldUpdateRules` and its clearing. The MQTT handlers start a call of the
store, and `OnReturn` posts `MQTT_UPDATE_DATA` when the result is positive. `Dispatch`
is the dispatcher with `Application::Update`. Time is a number of minutes from
which the getters of `RTC` are computed, with the month counted from 0 as
`tm_mon` is.

Abstractions: year, month and day are one reading, and the year is not compared;
the amount of food is part of the identity of a rule; feeding is one step; a minute does not end
before a check that began in it has ended (checks start every five seconds), but
it may end anywhere in a later check; no MQTT message arrives before the
store is initialised. The history variables `served`, `fed`, `pass`, `loaded` and `lost` only feed the
properties.

### WifiManager

`sm`, `tries` and `evt` are `wifi_sm` and the event in hand; `pc` is where the
dispatcher is: `get` (blocked on the queue), `handle`, `sleep` (the second before
a connection request), `arm` (the request made, the timer not yet started) and
`settle` (the 100 ms of CONNECTED). Each `Enter…` operator is `on_exit`, the
assignment and `on_entry` up to the first of these points, so `transition` and
`restart_state` are one step or two, never an optional part. `link`, `addr`
and `dhcp` are the driver and the DHCP client; `LinkUp`, `LinkRefused`,
`LinkDown`, `AddressAdded` and `TimerExpires` are the callbacks, which post from another context; all but
`LinkDown` stop the timer (`StopTimer`), whatever the state. The history `astray` says that the timer was stopped for an event that
was dropped or that the state it met does not handle. A disconnect request made during an attempt may or may
not stop it, and one on an association ends it a little later. `bt` holds what matters of
Bluetooth: a phone's connection ends advertising, and two written halves are
handed over in any state.

Left out because no execution reaches it: `WIFI_CREDS_FAIL` (never posted),
`PROVISIONING_STORE_CREDENTIALS_ERROR` in PROVISIONING (posted only while
STORING is entered, and handled there), the RESTART state (no transition to it). The IFACE_ERROR state is the reboot it performs.
When `led.init()` fails, `init_rssi_monitor` starts no work item (fault `"led"`).
The green and magenta outputs of the work item are one colour, `SIGNAL`; writes
of length zero and which half of the credentials a write fills are abstracted here (`Credentials` has them).

### RuleTable and Session

`RuleStore!Holds` reads the table off the flash under the bitset, and the rules hidden from it off the flash under `unseen`; `Adding` and
`Busy("clear")` say what is being asked; with these `IsTable` is `RuleTable`'s specification. A rule
enters the table in the step that sets its bit, and leaves it in the
step that erases its flash entry; a restart adds what was in flight or nothing, and brings hidden rules back. Where
lengths may be misread (`Misreads`), and only there, it may hide rules too.

`WifiManager!Phase`, its retry counter and the gate are a `Session`: every step of the
dispatcher, the driver, the timer or a phone is one abstract step or none. In particular the
gate is closed in the same step that leaves CONNECTED, which is what `MqttClient` relies on.

### MqttClient

`state` is the state of `mqtt_task`, `pc` tells whether the thread is in a half-done one: `dns` is the name
resolution, `tcp` the connection, `connack`
the single poll of `connect()`, `publish` the part of a RUNNING turn behind
`read_payload`. One action stands for one state and outcome (`SetupClient`, `SetupBroker`, `BrokerSet`,
`Connect`, `MqttConnect`, `AwaitConnack`, `WaitForConnack`, `Subscribe`, `ReadPacket`, `ReadFails`, `ReadClosed`, `KeepAlivePing`, `Publish`,
`LeaveRunning`, `OnError`); `Disconnect` is the handler of `MQTT_EVT_DISCONNECT`, which the library calls from within
the thread. A packet read well on a connection that has ended meanwhile (`POLLHUP` or `POLLERR` beside `POLLIN`) leads to ERROR with the flag still set; one that
is malformed or breaks off ends the connection (`ReadFails`). `connect()` clears a flag that is still set without an event, which the history
`unsaid` records. `lib`, `sock` and `inbox` are the library, TCP and what can be read;
`BrokerAnswers`, `BrokerSends`, `PeerLost`, `PeerBack`, `Closes` and `TcpGivesUp` are the environment.

Time passes in the waits of the thread only: each adds to `age`, the age of the thread's watchdog
channel, and to that of the channel an earlier incarnation left behind (`left`; the oldest
one, which reaches its limit first). `StartMqtt` is `on_entry` of CONNECTED: the thread
is created again, and `Recreated` says what becomes of one that runs (it starts over, it
never runs again, or it faults), because the kernel promises nothing.

Abstractions: the pauses of one and of five seconds are one constant; a handler's post and its
assignment of the flag are one step; when a start cuts a wait short, the part that had passed is not counted; a
sample is present or absent, without a value; a message longer than the 500 bytes of the buffer, and
what the library makes of the rest of a payload that a handler left unread, are not modelled. A poll that reports
`POLLERR` without `POLLIN`, which `read_payload` would answer with 0, is taken not to occur: the socket layer marks a closed connection as at its
end, which is readable. `reconnect()` and `abort()` have no caller.

### Dispensing

`evt` and `told` are the event in the dispatcher's hand and how many listeners were told of it,
in the order `main` attaches them; `Mask` and `Group` are the numbers of the
code, and `Reaches` their bitwise conjunction. `move_for` is `Begins`, a `Toggle` per step of the
pin, and `Finishes`; `moving` is the set of threads inside. `slot` is the
place on the MQTT thread's stack a feed-now event points to: `FeedTopic` fills it, `StackReused` overwrites it,
`Notify` reads it. What `process_state` does with the events is `WifiManager`.

### Credentials

A phone writes the two halves (`Begins`, `Continues`), `Write` with its `data_check` starts the
copy when both are there, `Copy` copies one half of the struct at a time and finally posts the event and
clears the buffer; the dispatcher reads the name (`ReadName`) and then the password (`Store`).
`First` and `Hasty` say which half a phone may write first and whether it may write
while the device is not asking; `Entries` is the room of the credentials library.

## 3. Runs

Passing runs:

| Run | Properties | What it shows |
|---|---|---|
| `MCRuleStoreClears` | `TypeOK`, `IndexMirrorsFlash`, `RefusedOnlyWhenFull`, `IsTable` | adds and clears by one thread with failing deletions, unreadable lengths and restarts: index and flash agree but for rules `init` could not see, every slot gets used, and the store is a `RuleTable` |
| `MCRuleStoreRemovals` | `KeptIsStored` | one careful caller, failing writes, deletions and length reads, two restarts: an accepted rule is given up by a restart that cannot read its length and by nothing else |
| `MCFeedWeekly` | `TypeOK`, `WeeklyDueIsFed`, `AddIsAnnounced`, `RulesEvaluated`, `FedOncePerLoad`, `FedInItsMinute`, `FedFromLoad` | weekly rules that are only added: due rules are fed, once, in their minute, and only what the last load filled; no rule of the bitset is forgotten, and the rules in RAM are available |
| `MCFeedLive` | `AcceptedIsLoaded`, `FedOncePerLoad` | a rule of a date too, with removals, clears and failing deletions: what is announced reaches RAM, and a rule whose removal failed is not fed again |
| `MCWifiSafe` | `TypeOK`, `OnlineIsUp`, `WaitIsTimed`, `GivesUpAfterTries`, `IsSession` | every fault, a phone, late answers and an overflowing queue: what the machine believes of the link is true or about to be corrected, no wait is without a timer or an event for it, but where a callback stopped the timer with an event that was dropped or came too late, the retry budget is exact, and the manager is a `Session` |
| `MCWifiLive` | `WaitingEnds` | while events are handled promptly and no phone submits credentials, every wait ends, whatever the network does |
| `MCMqttSession` | `TypeOK`, `RunningIsSession`, `SensorFollows`, `SessionIsFed`, `LostIsRetried`, `SamplesFlow` | every behaviour of name resolution, broker, peer, Wi-Fi and a thread created twice: what the client believes is true, the sensor is told of it but for the flag `connect()` clears, the thread's own watchdog channel spares a session, a lost one is left, samples flow in one that lasts |
| `MCDispense` | `TypeOK`, `RestsDisabled`, `UpdateIsTold` | two threads in the motor and any amount: it rests disabled, and updates get past the feedings |
| `MCCredentials` | `TypeOK`, `StoredIsPair` | phones that abandon, repeat and alternate submissions: every name has its own password |

The preconditions of the passing runs are as wide as the code allows: where it
breaks a property beyond them, another configuration checks the same property, or
the one it was weakened from, on a small instance that ends in a counterexample.
Three of those are runs of the project, and `PROJECT.json` quotes the sentence of
the documentation that each contradicts:

| Run | Property | What the code does |
|---|---|---|
| `MCFeedShrink` | `WeeklyDueIsFed` | after a removal the loop, bounded by the live count, misses the last rule in RAM |
| `MCFeedReboot` | `SpecificOnce` | an executed rule of a date comes back from flash after a restart |
| `MCMqttStuck` | `ConnectingEnds` | an acknowledgement that misses the five seconds of `connect()` is read by nobody: CONNECTING sleeps for ever, fed |

### Further divergences

These configurations are kept beside the runs. Each ends in a counterexample:
`tlc -config X.cfg M`, where `M` is `MCRuleStore`, `MCFeedScheduler`, `WifiManager`,
`MqttClient` (`MCMqtt…`), `MCDispensing` (`MCDispense…`) or `Credentials` (`MCCreds…`) as the name says.
(Source lines are under `src/src/`.)

| Configuration | Property | What the code does | Where |
|---|---|---|---|
| `MCRuleStoreRace` | `KeptIsStored` | two unlocked updates of the bitset's word overlap, one is lost | `application/SchedulerRules.cpp:45` |
| `MCRuleStoreErased` | `DeletedIsErased` | `delete_rule` erases the bare slot number: the rule stays in flash | `application/SchedulerRules.cpp:94` |
| `MCRuleStoreOther` | `KeptIsStored` | … and with a slot that is an id itself, another slot's entry goes | `application/SchedulerRules.cpp:94` |
| `MCRuleStoreMisread` | `RestartKeeps` | `init` takes an entry whose length cannot be read for an empty one: the rule loses its bit, and its slot may be written over | `storage/Storage.cpp:167` |
| `MCRuleStoreRefused` | `RefusedOnlyWhenFull` | a write of what the id already holds answers 0 and is taken for a failure | `application/SchedulerRules.cpp:43` |
| `MCFeedRemoved` | `RemovalIsAnnounced` | a removal that succeeds answers 0 and is not announced | `network/mqtt/MQTT.cpp:205` |
| `MCFeedTwice` | `FedOncePerMatch` | a reload in the minute of a feeding makes the rule ready again | `application/SchedulerRules.cpp:73` |
| `MCFeedTorn` | `FedWhenDue` | hour and minute are read apart: 0:59 and 1:00 read as 0:00 | `application/Application.cpp:75` |
| `MCFeedMonth` | `SpecificDueIsFed` | months from 0 are compared with months from 1 | `devices/rtc/RTC.cpp:123` |
| `MCFeedPayload` | `UnknownIdIgnored` | 256 is cut to 0 before it is checked, and slot 0 is removed | `network/mqtt/MQTT.cpp:186` |
| `MCFeedReadError` | `RulesEvaluated` | one failed read leaves every rule unavailable | `application/SchedulerRules.cpp:79` |
| `MCFeedStaleRam` | `FedFromLoad` | the count has grown since the load: entries of an earlier load are executed | `application/Application.cpp:132` |
| `MCWifiUntimed` | `WaitIsAlwaysTimed` | a late address stops the timer of a new attempt | `network/wifi/WifiStation.cpp:78` |
| `MCWifiSecond` | `UserCanProvision` | the second provisioning advertises nothing | `network/provisioning/ble/BluetoothLE.cpp:163` |
| `MCWifiDropped` | `DropIsNoticed` | a disconnection dropped on a full queue is never noticed | `network/wifi/WifiStation.cpp:215` |
| `MCWifiIfup` | `InitializingEnds` | `net_if_up` fails and nobody reads the result | `network/wifi/WifiStation.cpp:110` |
| `MCWifiTimer` | `TimerStopped` | an address that arrives before its timer is started leaves the timer running | `network/wifi/WifiStation.cpp:167` |
| `MCWifiRssi` | `RssiCancelled` | a running work item schedules itself again after its cancellation | `network/Netmgnt.cpp:71` |
| `MCMqttFlap` | `FlapIsSurvived` | the thread is created again and registers a second watchdog channel; the first one is fed by nobody and reboots the device | `network/Netmgnt.cpp:243`, `network/mqtt/MQTT.cpp:625` |
| `MCMqttSilent` | `SensorAlwaysTold` | `connect()` clears a flag that is still set (the thread was started anew in a session, or a packet was read as its connection ended) and posts nothing: the sensor samples for a session that is not there, until the next one | `network/mqtt/MQTT.cpp:398` |
| `MCMqttGate` | `GateStopsAttempts` | the gate is read in ERROR only: an attempt under way goes on without Wi-Fi | `network/mqtt/MQTT.cpp:661` |
| `MCMqttSlow` | `ReconnectsInTime` | the last poll of a lost session, the name resolution and the connection pass without a feed: together they may outlast the channel's limit | `network/mqtt/MQTT.cpp:646` |
| `MCDispenseSteps` | `StepsAreDriven` | the end of one feeding disables the motor under the other | `devices/motor/StepperController.cpp:75` |
| `MCDispenseClock` | `ClockIsTold` | the group of Wi-Fi events is 0 and used as a mask: the clock is never told of the network | `network/Netmgnt.cpp:124` |
| `MCDispenseAsked` | `FedAsAsked` | the amount is read through a pointer to a local variable of a handler that has returned | `network/mqtt/MQTT.cpp:216` |
| `MCCredsMixed` | `StoredIsPair` | a phone that writes the password first meets the half another one left behind | `network/provisioning/ble/BluetoothLE.cpp:106` |
| `MCCredsHasty` | `StoredIsPair` | the struct is overwritten while the dispatcher reads it | `network/provisioning/Provisioning.cpp:31` |

`MCCredentials` also shows, in passing, that a network without a password is never submitted: `data_check`
waits for a second half of length above 0 (`BluetoothLE.cpp:108`). A network beyond the two
entries of the library (`CONFIG_WIFI_CREDENTIALS_MAX_ENTRIES`, `prj.conf:61`) is not stored, since nothing deletes one. The race of
`MCRuleStoreRace` is one of the application too: an add that overlaps the removal of an executed rule of a date restores its bit.

### Bounds

* Slots: 1 to 3 for 5. Three slots have a first, a middle and a last one, and with `RuleBase = 2`
  slot 2 is the smallest whose bare number is the id of another rule, as in the program.
* Rules: two that differ (symmetric in `RuleStore`, where they are only
  compared), or a few chosen to fall due inside the horizon; one of the weekly ones is refused by the validation.
* Calendar: days of two hours of two minutes, weeks of two days, months of one or
  two days: every carry of the clock happens within five minutes.
* `Horizon`, `MaxRestarts`, `MaxSubmits`: ends of the clock, of power losses and of credentials. One power
  loss is enough for a crash between any two steps followed by a recovery; `MCRuleStoreClears` has two.
* `QueueCap`: 1 to 5 for 10. With 1 and 3 the queue overflows often, which is what `MCFeedWeekly`,
  `MCFeedLive` and `MCWifiSafe` are about; `MCWifiDropped` has the program's 10.
* `MaxTries`: 3 for 10 (2 in the counterexamples): the first, a middle and the last try differ, the rest repeat.
* `MqttClient`: `KeepAlive = 1`, `Limit = 2`, the other waits 0 or 1, so that a keepalive is shorter than the
  watchdog's limit, as in the program, two waits in a row can reach it, and a ping may be due at once or
  later (the counterexamples have up to 6 and 7). A queue of two overflows and reorders nothing less than one of ten does. About 378 000 states.
* `Dispensing`: amounts 0 and 2, left-overs -1 and 1 (no step, some steps, a negative number), a queue of two. About 280 000 states.
* `Credentials`: four networks, one without a password, two entries as in the program. 456 states.
* `Prompt = TRUE` lets the network, the timer and MQTT post only when the dispatcher has nothing in hand
  and nothing queued. This is a restriction of the model, not of the code. `MCWifiSafe` and
  `MCWifiDropped` run without it, since a listener that turns the motor does hold the dispatcher for seconds.

`WaitingEnds` is therefore claimed for a machine whose events do not pile up. Without `Prompt` a full
queue drops the timer's event and the wait has no end; that is the loss of `MCWifiDropped`
in another place. `MCWifiLive` has other traffic, three tries and failing calls, but no phone: credentials
submitted before an attempt make the late address of `MCWifiUntimed` possible, and that wait does not end either. `WaitIsTimed`, in `MCWifiSafe`,
says what is true without these restrictions: those two, an event dropped and an event too late, are the only ways to lose a timer.

The runs of `WifiManager` do not check for deadlock, because the device may
really stop: in PROVISIONING, when a phone has connected (which ends advertising) and
left without writing, nothing is left to happen. The clock of `FeedScheduler` stops at `Horizon`,
but the application goes on, so its runs do check for deadlock, as do those of `RuleStore` and `Dispensing`.
`MCMqttSession` does not (a thread that did not survive its second creation stands still), nor does `MCCredentials`, because the device
may wait for a phone that stays away.

### Fairness

* `FeedScheduler!FairSpec`: weak fairness of the application, of each thread's
  store call, of the handler's return and of the dispatcher. The threads have
  equal priority with time slicing, and each blocks or sleeps in every turn.
  Nothing is assumed of the clock, of MQTT messages or of power.
* `WifiManager!FairSpec`: weak fairness of the dispatcher, which blocks only for events and for
  bounded sleeps, and strong fairness of the expiry of a running timer. A kernel timer that is not stopped
  expires however often other events are handled meanwhile; with `Prompt` the model disables the expiry during each of
  them, so weak fairness would let traffic postpone it forever, which the hardware does not.
  Nothing is assumed of the network, the driver or the phone.
* `MqttClient!FairSpec`: weak fairness of the MQTT thread, of the dispatcher's `Notify`, of the sensor's thread, of TCP
  giving up on data that is not acknowledged, and of the reboot a spent watchdog causes. Nothing is assumed of the name resolution,
  of the broker, of a peer that is gone, or of Wi-Fi: a resolution or a connection that fails is a turn of the thread that goes from `dns` or `tcp` back to
  where it was, so fairness of the thread forces none of them to succeed. `LostIsRetried` ends with the new attempt, not with its success.
* `Dispensing!FairSpec`: weak fairness of the dispatcher and of each thread's turns in the motor, whose loop waits for nobody.

## 4. Proofs

| Theorem | States | Under |
|---|---|---|
| `RuleStoreProofs!TypeCorrect` | `Spec => []TypeOK` | the constants' assumptions |
| `RuleStoreProofs!Durable` | `Spec => []KeptIsStored` | and `OneCarefulCaller` |
| `RuleStoreProofs!Implements` | `Spec => IsTable` | and `AddsAndClears` |
| `RuleStoreProofs!Mirrors` | `Spec => []IndexMirrorsFlash` | and `AddsAndClears` |
| `RuleStoreProofs!RefusesWhenFull` | `Spec => []RefusedOnlyWhenFull` | and `AddsAndClears`, writes accepted by flash |
| `FeedSchedulerProofs!TypeCorrect` | `Spec => []TypeOK` | the constants' assumptions |
| `FeedSchedulerProofs!FedOnce` | `Spec => FedOncePerLoad` | the constants' assumptions |
| `FeedSchedulerProofs!FedByTheClock` | `Spec => FedInItsMinute` | the constants' assumptions |
| `FeedSchedulerProofs!Announced` | `Spec => []AddIsAnnounced` | and `OnlyAdded` |
| `FeedSchedulerProofs!Available` | `Spec => []RulesEvaluated` | and `OnlyAdded` |
| `FeedSchedulerProofs!WeeklyFed` | `Spec => []WeeklyDueIsFed` | and `WeeklyAdds`, `MinutesPerHour > 1` |
| `FeedSchedulerProofs!FedFromTheLoad` | `Spec => FedFromLoad` | and `WeeklyAdds`, `MinutesPerHour > 1` |
| `WifiManagerProofs!TypeCorrect` | `Spec => []TypeOK` | the constants' assumptions |
| `WifiManagerProofs!GivesUp` | `Spec => GivesUpAfterTries` | the constants' assumptions |
| `WifiManagerProofs!Implements` | `Spec => IsSession` | the constants' assumptions |
| `WifiManagerProofs!BelievesTheLink` | `Spec => []OnlineIsUp` | the constants' assumptions |
| `WifiManagerProofs!WaitsAreTimed` | `Spec => []WaitIsTimed` | the constants' assumptions |
| `MqttClientProofs!TypeCorrect` | `Spec => []TypeOK` | the constants' assumptions |
| `MqttClientProofs!Believed` | `Spec => []RunningIsSession` | the constants' assumptions |
| `MqttClientProofs!SparedByWatchdog` | `Spec => []SessionIsFed` | the constants' assumptions |
| `MqttClientProofs!SensorIsTold` | `Spec => []SensorFollows` | the constants' assumptions |
| `DispensingProofs!TypeCorrect` | `Spec => []TypeOK` | the constants' assumptions |
| `DispensingProofs!MotorRests` | `Spec => []RestsDisabled` | the constants' assumptions |
| `CredentialsProofs!OwnPassword` | `Spec => []StoredIsPair` | and `OrderlyPhones` |
| `CredentialsProofs!TypeCorrect` | `Spec => []TypeOK` | the constants' assumptions |

The assumptions beyond those of the constants are what the counterexamples of section 3 make necessary. `WeeklyAdds`: every
rule is weekly and the remove topic is silent; `OnlyAdded`: and flash can be read. Each of these is met by the passing run that checks the property.

* `SchedulerRulesProofs` has the lemmas about one step of a call that the
  two state machines over it share.
* **Durable.** `KeptIsStored` is not inductive: a word loaded before a bit was
  set could erase it. The invariant adds that the application is in no
  call, that a loaded word is the bitset as it is, and that the slot in the hands of a write is free and already
  in flash when its bit is about to be set. A restart that cannot read a length gives the rule up, and
  `kept` says so: `RestartKeeps` (`MCRuleStoreMisread`) is the claim that this does not happen, and it fails. `OneCarefulCaller` (only the MQTT thread
  calls, and only with slots below the id base) is what the findings above show to be necessary: with a second thread the word is
  stale, with a higher slot the wrong entry goes.
* **TypeCorrect of FeedScheduler.** That `rules[app.i]` stays inside the array
  rests on `LoopInv` (the fill index never overtakes the slot index; a clock reading belongs to a
  valid entry) and on the cardinality of the bitset, whatever the other thread does to it.
* **FedOnce.** The invariant says that an entry that was served in this load is
  not READY again while its minute lasts, including the window in which a check has read the day or the hour
  of a minute that is over.
* **GivesUp.** `CountInv`: in a counting state each round but the first has
  cost one try; elsewhere the counter is at rest. Type correctness needs it too, as `tries < MaxTries` is not inductive without it.

* **Implements and Mirrors of RuleStore.** `TableInv`: outside the slot in flight, an id holds an entry exactly when its bit is set or `init` did not see it,
   the loaded word is the bitset, and the slot in flight already has in flash what its bit is going
  to say. Each step of the store is then a step of the table or leaves it alone, a restart included: it rebuilds from the flash
  what the bitset was, with the slot in flight decided by its entry, unseen rules seen again and others hidden where a length is misread. `Mirrors` and
  `RefusesWhenFull` follow from the same invariant; the latter because what is under a clear bit was not seen, so that a slot
  a write has tried in vain is taken, by a rule with its bit or by an unseen one that equals the new rule.
* **Announced.** `AddInv` adds that a bit is set only in the step that produces the answer to be announced, that nothing
  under a set bit is rewritten, and that a load has filled as many entries as it has counted. `OnlyAdded` (weekly rules, no removals, readable
  flash) is what the findings make necessary: a removed rule is not announced, a failed read ends a load.
* **Available.** `Loaded`: once a load has filled an entry and is over, the rules are available. With `AddInv`, a stored rule that has nothing
  left to announce is in RAM, so the last load did fill an entry.
* **FedByTheClock.** `MinuteInv`: an entry waits only between its selection and its execution, none waits when a check begins,
  and what a check that began in this minute has read of the clock still holds, for the entry it is at and for those it has selected. Removals,
  rules of a date and faults change nothing about it.
* **WeeklyFed.** `WeeklyDueIsFed` is far from inductive. `DueInv` says three more things. `Fits`: there are at least as many bits set as
  entries loaded, so that the live loop bound reaches every entry (this is what `MCFeedShrink` loses by a removal). `Covered`: an
  entry that matches and that this check has looked at waits or was fed. `Rearmed`: an executed entry that
  matches was fed, and one that a check of this minute has looked at and left executed does match. The last is how an
  executed rule gets armed again before its next minute: some check of every minute looks at it while it does not match. It fails when an hour
  has one minute only, because a rule could then match in two minutes in a row, hence `MinutesPerHour > 1` (lemma
  `NextDiffers`: two successive numbers differ modulo more than 1). Failing reads are allowed: the rules are not available then.
* **FedFromTheLoad.** The loop may run past the entries loaded, up to the bits set since. `BlankInv` says that entries there are as the static
  object was, which match no day: bits are only set while rules are only added, so each load fills at least what the one
  before it filled, and during a load the bits still to come cover the difference. A load cut short by a failed read leaves the rest behind, but then no check runs.
* **Implements of WifiManager.** Rests on `CountInv`; each `Enter…` operator is one abstract step or none.
* **BelievesTheLink.** `OnlineIsUp` speaks of one state, but an event that reports an association may be older than its
  loss. `LinkInv` orders the queue: an event that reports an association outlives it only with the event of the loss
  behind it (or that event was dropped), and the same for the event in the dispatcher's hand.
* **WaitsAreTimed.** `WaitIsTimed` is inductive with the types and `Gated`: a wait begins with its timer; whatever stops the timer either puts an
  event in the queue that the state handles or is recorded in `astray`; such an event is only taken to be handled, and then a timer is
  started, or the state is left. Nothing is assumed of the order in which driver, timer, phone and queue interrupt the dispatcher.
* **SensorIsTold.** Inductive together with `ClientInv`, which says in which states the flag can change. The lemmas about `Told` cover what
  happens to a queue: another sender's event changes nothing, the client's becomes the last one, and when the dispatcher takes the
  last one the sensor believes it. The states after a restart of the thread are included: the flag is still set there, and so is the sensor's belief; once
  `connect()` has cleared it, `unsaid` stays until the client's next event, which comes before RUNNING or ERROR is reached.
* **ClientInvariant of MqttClient.** Three parts: where the thread is determines what the library and the socket can be (`Where`), a flag that is set
  belongs to a session of the library, whose topics were sent in RUNNING (`Believes`), and in a session that has been fed each poll begins with a channel
  of age 0 and lasts no longer than the keepalive (`Spared`). The channel of an earlier incarnation is not in it, and may reboot the device in a session (`MCMqttFlap`). The only assumption about times is that the keepalive is below the limit.
* **MotorRests.** Inductive with the types: only an end leaves the motor to nobody, and every end disables it, for negative and
  zero amounts too.
* **OwnPassword.** With the name first and only while the device asks, the halves in the buffer belong to the submission
  the phone is at, and nobody writes the struct while it is copied or read.
* **TypeCorrect of Credentials.** Two parts count: the names stored never outnumber the entries, because a new one is written only
  where an entry is free and an old one over itself; and a submission being copied began while there was room for its
  event. Counting needs the finite set of networks the assumption states.

Only model-checked: the liveness properties `AcceptedIsLoaded`, `WaitingEnds`, `LostIsRetried`, `SamplesFlow` and `UpdateIsTold`. They
follow from fairness, and so from `ENABLED`, which the prover does not reason about. Every other property of a passing run is a theorem.

## 5. Plan

Done: the store and its table, the feeding loop, the connection manager and its session, the MQTT client with sensor and watchdog,
the motor and the listeners, the credentials, with the proofs of section 4. Left, in this order:

1. `FeederSystem`: store, scheduler, connection and client over the one queue of ten. Today each module has the
   queue to itself, with the others' events as `OTHER`.
2. The watchdog channel of the application, with a feeding that outlasts its budget.

## 6. Not modelled

* `RTC::sync_time`, its timer handler and its work item: no execution of the program reaches them, because
  `RTC::Update` is never called (`MCDispenseClock`).
* `JsonModule` and the names for the log: no state; a rule reaches the models already parsed. A rule with a missing
  field keeps what the handler's stack held (`MQTT.cpp:167`), which the models cannot tell from a rule that was sent.
* `Storage::init_storage`: the device check, the page information, the mount and their errors. `main` asserts that it succeeds; the models
  begin with the flash mounted.
* `IHTTPServer`: an interface without an implementation.
* The order in which `main` starts the threads; each module begins with its threads present.
* Zephyr's drivers and stacks, which are environments modelled from how the code uses them, and the build files.
