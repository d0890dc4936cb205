-------------------------- MODULE WifiManagerProofs --------------------------
(***************************************************************************)
(* Proofs about WifiManager.  The type invariant is not inductive: that    *)
(* tries and rounds stay within MaxTries rests on how they move together,  *)
(* which Count states.  With it, the retry budget is a theorem.  Then what *)
(* the machine believes of the link, and the timers of its waits.          *)
(***************************************************************************)
EXTENDS WifiManager, TLAPS

\* The type of bt.
BtRecord == [on : BOOLEAN, adv : BOOLEAN, peer : BOOLEAN, half : BOOLEAN,
             enabled : BOOLEAN]

(***************************************************************************)
(* In a state that counts, each round but the first has cost a try; in the *)
(* others the counter is at rest.                                          *)
(***************************************************************************)
Count == IF sm \in Counting THEN rounds = tries + 1
                            ELSE tries = 0 /\ rounds = 1

CountInv == TypeOK /\ Count

\* What the part of TypeOK about the machine itself says.
MachineOK == /\ sm \in States /\ tries \in 0 .. MaxTries - 1
             /\ rounds \in 1 .. MaxTries
             /\ gate \in {"none", "blocked", "released"}
             /\ rssi \in {"idle", "queued", "running"}

\* Posting an event leaves a queue of events that respects its capacity.
LEMMA PostType ==
    ASSUME NEW e \in Events, Post(e),
           queue \in Seq(Events), Len(queue) <= QueueCap, lost \in BOOLEAN
    PROVE  /\ queue' \in Seq(Events) /\ Len(queue') <= QueueCap
           /\ lost' \in BOOLEAN
<1>. USE QueueAssumption
<1>1. lost' \in BOOLEAN
  BY DEF Post, HasRoom
<1>2. CASE HasRoom
  BY <1>1, <1>2 DEF Post, HasRoom
<1>3. CASE ~HasRoom
  BY <1>1, <1>3 DEF Post
<1>. QED BY <1>2, <1>3

\* Leaving for another state, on_exit finding the counter as it is.
LEMMA LeaveOther ==
    ASSUME NEW to \in States, CountInv, Leave(to, tries), to # sm
    PROVE  MachineOK' /\ Count'
BY TriesAssumption DEF CountInv, TypeOK, Count, Leave, LeaveTries, MachineOK, Counting

\* Entering a counting state again, one try later, while tries are left.
LEMMA LeaveAgain ==
    ASSUME CountInv, sm \in Counting, canRetry, Leave(sm, tries + 1)
    PROVE  MachineOK' /\ Count'
<1>1. sm' = sm /\ tries' = tries + 1 /\ rounds' = rounds + 1
  BY DEF Leave, LeaveTries, CountInv, TypeOK, States
<1>2. tries + 1 \in 0 .. MaxTries - 1 /\ rounds = tries + 1
  BY TriesAssumption DEF CountInv, TypeOK, Count, canRetry
<1>3. gate' \in {"none", "blocked", "released"} /\ rssi' \in {"idle", "queued", "running"}
  BY DEF Leave, CountInv, TypeOK
<1>. QED BY <1>1, <1>2, <1>3, TriesAssumption DEF CountInv, TypeOK, Count, MachineOK

-----------------------------------------------------------------------------
(***************************************************************************)
(* One lemma per on_entry, in the form in which process_state uses it.     *)
(***************************************************************************)
\* on_entry of INITIALIZING keeps the invariant.
LEMMA InitializeStep == ASSUME CountInv, Initialize PROVE CountInv'
<1>. USE DEF CountInv
<1>1. queue' \in Seq(Events) /\ Len(queue') <= QueueCap /\ lost' \in BOOLEAN
  <2>1. CASE Post("IFACE_UP")    BY <2>1, PostType DEF TypeOK, Events
  <2>2. CASE Post("IFACE_ERROR") BY <2>2, PostType DEF TypeOK, Events
  <2>3. CASE UNCHANGED <<queue, lost>> BY <2>3 DEF TypeOK
  <2>. QED BY <2>1, <2>2, <2>3 DEF Initialize
<1>2. Count'
  BY DEF Initialize, Count, Counting
<1>. QED BY <1>1, <1>2, TriesAssumption
         DEF Initialize, TypeOK, DispatcherAt, netVars, Events

\* The reboot starts over, with the credentials that are stored.
LEMMA RebootStep == ASSUME CountInv, Reboot PROVE CountInv'
<1>1. queue' \in Seq(Events) /\ Len(queue') <= QueueCap
  BY QueueAssumption DEF Reboot
<1>2. bt' \in BtRecord
  BY DEF Reboot, BtOff, BtRecord
<1>3. Count'
  BY DEF Reboot, Count, Counting
<1>4. timer' \in BOOLEAN /\ astray' \in BOOLEAN /\ addr' \in BOOLEAN /\ dhcp' \in BOOLEAN
      /\ lost' \in BOOLEAN /\ creds' \in BOOLEAN
  BY DEF Reboot, CountInv, TypeOK
<1>5. tries' \in 0 .. MaxTries - 1 /\ rounds' \in 1 .. MaxTries
  BY TriesAssumption DEF Reboot
<1>6. /\ sm' \in States /\ pc' \in {"get", "handle", "sleep", "arm", "settle"}
      /\ evt' \in Events /\ link' \in {"down", "trying", "up", "leaving"}
      /\ gate' \in {"none", "blocked", "released"}
      /\ led' \in {"OFF", "RED", "YELLOW", "BLUE", "SIGNAL"}
      /\ rssi' \in {"idle", "queued", "running"} /\ submits' \in 0 .. MaxSubmits
  BY DEF Reboot, States, Events, CountInv, TypeOK
<1>. QED BY <1>1, <1>2, <1>3, <1>4, <1>5, <1>6 DEF CountInv, TypeOK, BtRecord

\* on_entry of LOADING_CREDENTIALS keeps the invariant.
LEMMA LoadingStep ==
    ASSUME CountInv, EnterLoading, sm # "LOADING_CREDENTIALS" PROVE CountInv'
<1>1. MachineOK' /\ Count'
  BY LeaveOther DEF EnterLoading, States
<1>2. queue' \in Seq(Events) /\ Len(queue') <= QueueCap /\ lost' \in BOOLEAN
  BY PostType DEF EnterLoading, CountInv, TypeOK, Events
<1>. QED BY <1>1, <1>2 DEF CountInv, TypeOK, MachineOK, EnterLoading, ExitColour,
                           DispatcherAt, netVars, Events

\* on_entry of CONNECTING, given what on_exit has done to the counter.
LEMMA ConnectingStep ==
    ASSUME CountInv, NEW n, EnterConnecting(n), timer' \in BOOLEAN, MachineOK', Count'
    PROVE  CountInv'
<1>1. link' \in {"down", "trying", "up", "leaving"}
  BY DEF EnterConnecting, CountInv, TypeOK
<1>. QED BY <1>1 DEF CountInv, TypeOK, MachineOK, EnterConnecting, ExitColour,
                     DispatcherAt, Events

\* on_entry of WAITING_FOR_IP_ADDRESS.
LEMMA WaitingStep ==
    ASSUME CountInv, NEW n, EnterWaiting(n), MachineOK', Count' PROVE CountInv'
BY DEF CountInv, TypeOK, MachineOK, EnterWaiting, DispatcherAt, Events

\* on_entry of CONNECTED.
LEMMA ConnectedStep ==
    ASSUME CountInv, EnterConnected, sm # "CONNECTED" PROVE CountInv'
<1>1. MachineOK' /\ Count'
  BY LeaveOther DEF EnterConnected, States
<1>. QED BY <1>1 DEF CountInv, TypeOK, MachineOK, EnterConnected, ExitColour,
                     DispatcherAt, netVars, Events

\* on_entry of PROVISIONING.
LEMMA ProvisioningStep ==
    ASSUME CountInv, EnterProvisioning, sm # "PROVISIONING" PROVE CountInv'
<1>1. MachineOK' /\ Count'
  BY LeaveOther DEF EnterProvisioning, States
<1>2. bt' \in BtRecord
  BY DEF EnterProvisioning, StartProvisioning, CountInv, TypeOK, BtRecord
<1>. QED BY <1>1, <1>2 DEF BtRecord, CountInv, TypeOK, MachineOK, EnterProvisioning,
                           DispatcherAt, netVars, Events

\* on_entry of STORING_CREDENTIALS.
LEMMA StoringStep ==
    ASSUME CountInv, EnterStoring, sm # "STORING_CREDENTIALS" PROVE CountInv'
<1>1. MachineOK' /\ Count'
  BY LeaveOther DEF EnterStoring, States
<1>2. queue' \in Seq(Events) /\ Len(queue') <= QueueCap /\ lost' \in BOOLEAN
  <2>1. CASE Post("STORE_OK")    BY <2>1, PostType DEF CountInv, TypeOK, Events
  <2>2. CASE Post("STORE_ERROR") BY <2>2, PostType DEF CountInv, TypeOK, Events
  <2>. QED BY <2>1, <2>2 DEF EnterStoring
<1>3. creds' \in BOOLEAN
  BY DEF EnterStoring, CountInv, TypeOK
<1>4. UNCHANGED <<timer, astray, link, addr, dhcp, bt, submits>> /\ led' = ExitColour
      /\ pc' = "get" /\ evt' = "OTHER"
  BY DEF EnterStoring, netVars, DispatcherAt
<1>. QED BY <1>1, <1>2, <1>3, <1>4 DEF CountInv, TypeOK, MachineOK, ExitColour, Events

-----------------------------------------------------------------------------
(***************************************************************************)
(* The invariant: a lemma per state for process_state, then one step per   *)
(* action.                                                                 *)
(***************************************************************************)
\* A retry of CONNECTING.
LEMMA RetryConnecting ==
    ASSUME CountInv, sm = "CONNECTING", canRetry, EnterConnecting(tries + 1),
           UNCHANGED timer
    PROVE  CountInv'
<1>1. MachineOK' /\ Count'
  BY LeaveAgain DEF EnterConnecting, Counting
<1>. QED BY <1>1, ConnectingStep DEF CountInv, TypeOK

\* A retry of WAITING_FOR_IP_ADDRESS.
LEMMA RetryWaiting ==
    ASSUME CountInv, sm = "WAITING_FOR_IP_ADDRESS", canRetry, EnterWaiting(tries + 1)
    PROVE  CountInv'
<1>1. MachineOK' /\ Count'
  BY LeaveAgain DEF EnterWaiting, Counting
<1>. QED BY <1>1, WaitingStep DEF CountInv, TypeOK

\* CONNECTING entered from another state.
LEMMA FirstConnecting ==
    ASSUME CountInv, sm # "CONNECTING", EnterConnecting(tries), timer' \in BOOLEAN
    PROVE  CountInv'
<1>1. MachineOK' /\ Count'
  BY LeaveOther DEF EnterConnecting, States
<1>. QED BY <1>1, ConnectingStep DEF CountInv, TypeOK

\* An event that is ignored changes nothing but the dispatcher.
LEMMA StayStep == ASSUME CountInv, Stay PROVE CountInv'
BY DEF CountInv, TypeOK, Count, Stay, DispatcherAt, netVars, showVars, Events

\* process_state keeps the invariant, whatever the event and the state.
LEMMA ProcessStep == ASSUME CountInv, ProcessState PROVE CountInv'
<1>1. CASE sm = "INITIALIZING" /\ OnInitializing
  BY <1>1, InitializeStep, RebootStep, LoadingStep DEF OnInitializing
<1>2. CASE sm = "LOADING_CREDENTIALS" /\ OnLoading
  <2>1. CASE EnterConnecting(tries) /\ UNCHANGED timer
    BY <1>2, <2>1, FirstConnecting DEF CountInv, TypeOK
  <2>2. CASE EnterProvisioning
    BY <1>2, <2>2, ProvisioningStep
  <2>. QED BY <1>2, <2>1, <2>2 DEF OnLoading
<1>3. CASE sm = "CONNECTING" /\ OnConnecting
  <2>1. CASE EnterWaiting(tries)
    <3>1. MachineOK' /\ Count'
      BY <1>3, <2>1, LeaveOther DEF EnterWaiting, States
    <3>. QED BY <2>1, <3>1, WaitingStep DEF CountInv, TypeOK
  <2>2. CASE canRetry /\ EnterConnecting(tries + 1) /\ UNCHANGED timer
    BY <1>3, <2>2, RetryConnecting
  <2>3. CASE EnterProvisioning
    BY <1>3, <2>3, ProvisioningStep
  <2>. QED BY <1>3, <2>1, <2>2, <2>3 DEF OnConnecting
<1>4. CASE sm = "WAITING_FOR_IP_ADDRESS" /\ OnWaiting
  <2>1. CASE EnterConnected
    BY <1>4, <2>1, ConnectedStep
  <2>2. CASE canRetry /\ EnterWaiting(tries + 1)
    BY <1>4, <2>2, RetryWaiting
  <2>3. CASE EnterProvisioning
    BY <1>4, <2>3, ProvisioningStep
  <2>4. CASE timer' = FALSE /\ EnterConnecting(tries)
    BY <1>4, <2>4, FirstConnecting
  <2>. QED BY <1>4, <2>1, <2>2, <2>3, <2>4 DEF OnWaiting
<1>5. CASE sm = "CONNECTED" /\ OnConnected
  BY <1>5, FirstConnecting DEF OnConnected, CountInv, TypeOK
<1>6. CASE sm = "PROVISIONING" /\ OnProvisioning
  BY <1>6, StoringStep DEF OnProvisioning
<1>7. CASE sm = "STORING_CREDENTIALS" /\ OnStoring
  BY <1>7, LoadingStep, ProvisioningStep DEF OnStoring
<1>8. CASE Ignore
  BY <1>8, StayStep DEF Ignore
<1>. QED BY <1>1, <1>2, <1>3, <1>4, <1>5, <1>6, <1>7, <1>8 DEF ProcessState

\* What an event posted by another context may change.
LEMMA PostedStep ==
    ASSUME CountInv, NEW e \in Events, Post(e), UNCHANGED <<coreVars, dhcp, showVars>>,
           timer' \in BOOLEAN, astray' \in BOOLEAN, addr' \in BOOLEAN,
           link' \in {"down", "trying", "up", "leaving"}, UNCHANGED bt
    PROVE  CountInv'
<1>1. queue' \in Seq(Events) /\ Len(queue') <= QueueCap /\ lost' \in BOOLEAN
  BY PostType DEF CountInv, TypeOK
<1>. QED BY <1>1 DEF CountInv, TypeOK, Count, coreVars, showVars

\* The inductive invariant: in a state that counts its tries, the counter of
\* Netmgnt::canRetry is one less than the times the state was entered, and the
\* counter is zero in every other state.
THEOREM CountIsInvariant == Spec => []CountInv
<1>1. Init => CountInv
  <2>1. ASSUME Init PROVE queue \in Seq(Events) /\ Len(queue) <= QueueCap
    BY <2>1, QueueAssumption DEF Init
  <2>2. ASSUME Init PROVE bt \in BtRecord
    BY <2>2 DEF Init, BtOff, BtRecord
  <2>3. ASSUME Init PROVE /\ tries \in 0 .. MaxTries - 1 /\ rounds \in 1 .. MaxTries
                          /\ submits \in 0 .. MaxSubmits /\ Count
    BY <2>3, TriesAssumption, SubmitsAssumption DEF Init, Count, Counting
  <2>4. ASSUME Init PROVE /\ sm \in States /\ evt \in Events
                          /\ pc \in {"get", "handle", "sleep", "arm", "settle"}
                          /\ link \in {"down", "trying", "up", "leaving"}
                          /\ gate \in {"none", "blocked", "released"}
                          /\ led \in {"OFF", "RED", "YELLOW", "BLUE", "SIGNAL"}
                          /\ rssi \in {"idle", "queued", "running"}
    BY <2>4 DEF Init, States, Events
  <2>5. ASSUME Init PROVE /\ timer \in BOOLEAN /\ astray \in BOOLEAN
                          /\ addr \in BOOLEAN /\ dhcp \in BOOLEAN
                          /\ creds \in BOOLEAN /\ lost \in BOOLEAN
    BY <2>5 DEF Init
  <2>. QED BY <2>1, <2>2, <2>3, <2>4, <2>5 DEF CountInv, TypeOK, BtRecord
<1>2. CountInv /\ [Next]_vars => CountInv'
  <2>. SUFFICES ASSUME CountInv, [Next]_vars PROVE CountInv'
    OBVIOUS
  <2>1. CASE GetEvent
    <3>1. queue' \in Seq(Events) /\ Len(queue') <= QueueCap /\ evt' \in Events
      BY <2>1, QueueAssumption DEF GetEvent, CountInv, TypeOK
    <3>. QED BY <2>1, <3>1 DEF GetEvent, CountInv, TypeOK, Count, netVars, showVars
  <2>2. CASE ProcessState
    BY <2>2, ProcessStep
  <2>3. CASE Request
    <3>1. queue' \in Seq(Events) /\ Len(queue') <= QueueCap /\ lost' \in BOOLEAN
      BY <2>3, PostType DEF Request, CountInv, TypeOK, Events
    <3>. QED BY <2>3, <3>1 DEF Request, CountInv, TypeOK, Count, showVars,
                               DispatcherAt, Events
  <2>4. CASE StartTimer
    <3>1. /\ timer' = TRUE /\ astray' = FALSE /\ pc' = "get" /\ evt' = "OTHER"
          /\ UNCHANGED <<sm, tries, queue, link, addr, dhcp, creds, bt, gate, led, rssi,
                         submits, rounds, lost>>
      BY <2>4 DEF StartTimer, DispatcherAt, showVars
    <3>2. Count'
      BY <3>1 DEF CountInv, Count
    <3>3. pc' \in {"get", "handle", "sleep", "arm", "settle"} /\ evt' \in Events
          /\ timer' \in BOOLEAN /\ astray' \in BOOLEAN
      BY <3>1 DEF Events
    <3>. QED BY <3>1, <3>2, <3>3 DEF CountInv, TypeOK
  <2>5. CASE Settle
    <3>1. bt' \in BtRecord
      BY <2>5 DEF Settle, CountInv, TypeOK, BtRecord
    <3>2. rssi' \in {"idle", "queued", "running"} /\ gate' = "released"
      BY <2>5 DEF Settle, CountInv, TypeOK
    <3>3. UNCHANGED <<sm, tries, queue, netVars, creds, led, submits, rounds, lost>>
          /\ pc' = "get" /\ evt' = "OTHER"
      BY <2>5 DEF Settle, DispatcherAt
    <3>. QED BY <3>1, <3>2, <3>3 DEF CountInv, TypeOK, Count, netVars, Events, BtRecord
  <2>6. CASE LinkUp
    BY <2>6, PostedStep DEF LinkUp, StopTimer, CountInv, TypeOK, Events
  <2>7. CASE LinkRefused
    BY <2>7 DEF LinkRefused, CountInv, TypeOK, Count, coreVars, showVars
  <2>8. CASE LinkDown
    BY <2>8, PostedStep DEF LinkDown, CountInv, TypeOK, Events
  <2>9. CASE AddressAdded
    BY <2>9, PostedStep DEF AddressAdded, StopTimer, CountInv, TypeOK, Events
  <2>10. CASE TimerExpires
    BY <2>10, PostedStep DEF TimerExpires, StopTimer, CountInv, TypeOK, Events
  <2>11. CASE OtherEvent
    BY <2>11, PostedStep DEF OtherEvent, CountInv, TypeOK, Events, netVars
  <2>12. CASE PeerConnects
    <3>1. bt' \in BtRecord
      BY <2>12 DEF PeerConnects, CountInv, TypeOK, BtRecord
    <3>. QED BY <2>12, <3>1 DEF PeerConnects, CountInv, TypeOK, Count, coreVars,
                                netVars, showVars, BtRecord
  <2>13. CASE PeerLeaves
    <3>1. bt' \in BtRecord
      BY <2>13 DEF PeerLeaves, CountInv, TypeOK, BtRecord
    <3>. QED BY <2>13, <3>1 DEF PeerLeaves, CountInv, TypeOK, Count, coreVars,
                                netVars, showVars, BtRecord
  <2>14. CASE PeerWrites
    <3>1. queue' \in Seq(Events) /\ Len(queue') <= QueueCap /\ lost' \in BOOLEAN
      BY <2>14, PostType DEF PeerWrites, CountInv, TypeOK, Events
    <3>2. submits' \in 0 .. MaxSubmits
      BY <2>14, SubmitsAssumption DEF PeerWrites, CountInv, TypeOK
    <3>3. bt' \in BtRecord
      BY <2>14 DEF PeerWrites, CountInv, TypeOK, BtRecord
    <3>. QED BY <2>14, <3>1, <3>2, <3>3
             DEF PeerWrites, CountInv, TypeOK, Count, netVars, showVars, BtRecord
  <2>15. CASE RssiTests
    BY <2>15 DEF RssiTests, CountInv, TypeOK, Count, coreVars, netVars
  <2>16. CASE RssiShows
    BY <2>16 DEF RssiShows, CountInv, TypeOK, Count, coreVars, netVars
  <2>17. CASE UNCHANGED vars
    BY <2>17 DEF vars, CountInv, TypeOK, Count, netVars, showVars
  <2>. QED BY <2>1, <2>2, <2>3, <2>4, <2>5, <2>6, <2>7, <2>8, <2>9, <2>10, <2>11,
              <2>12, <2>13, <2>14, <2>15, <2>16, <2>17 DEF Next
<1>. QED BY <1>1, <1>2, PTL DEF Spec

(***************************************************************************)
(* Type correctness: in particular the counter of tries and the queue stay *)
(* within their bounds.                                                    *)
(***************************************************************************)
THEOREM TypeCorrect == Spec => []TypeOK
<1>1. CountInv => TypeOK
  BY DEF CountInv
<1>. QED BY <1>1, CountIsInvariant, PTL

(***************************************************************************)
(* The retry budget: whatever the network, the faults and the order of the *)
(* events, the device asks for credentials only after MaxTries rounds of   *)
(* the state in which the network failed it.                               *)
(***************************************************************************)
THEOREM GivesUp == Spec => GivesUpAfterTries
<1>1. CountInv /\ [Next]_vars
        => ((sm \in Counting /\ sm' = "PROVISIONING") => rounds = MaxTries)
  <2>. SUFFICES ASSUME CountInv, [Next]_vars, sm \in Counting, sm' = "PROVISIONING"
                PROVE  rounds = MaxTries
    OBVIOUS
  <2>1. ~canRetry
    <3>1. sm' # sm
      BY DEF Counting
    <3>2. ProcessState
      BY <3>1 DEF Next, vars, GetEvent, Request, StartTimer, Settle, LinkUp,
         LinkRefused, LinkDown, AddressAdded, TimerExpires, OtherEvent,
         PeerConnects, PeerLeaves, PeerWrites, RssiTests, RssiShows, coreVars
    <3>3. CASE sm = "CONNECTING"
      BY <3>1, <3>2, <3>3 DEF ProcessState, OnConnecting, Ignore, Stay,
         EnterWaiting, EnterConnecting, Leave
    <3>4. CASE sm = "WAITING_FOR_IP_ADDRESS"
      BY <3>1, <3>2, <3>4 DEF ProcessState, OnWaiting, Ignore, Stay,
         EnterWaiting, EnterConnecting, EnterConnected, Leave
    <3>. QED BY <3>3, <3>4 DEF Counting
  <2>2. rounds = tries + 1 /\ tries \in 0 .. MaxTries - 1
    BY DEF CountInv, Count, TypeOK
  <2>. QED BY <2>1, <2>2, TriesAssumption DEF canRetry
<1>2. [][CountInv /\ [Next]_vars
            => ((sm \in Counting /\ sm' = "PROVISIONING") => rounds = MaxTries)]_vars
  BY <1>1, PTL
<1>. QED BY <1>1, CountIsInvariant, PTL DEF Spec, GivesUpAfterTries

-----------------------------------------------------------------------------
(***************************************************************************)
(* The refinement.  That the abstract gate opens once per session and is   *)
(* closed by the step that ends it needs to know where the dispatcher is:  *)
(* MQTT is released exactly in CONNECTED, once the entry is over.          *)
(***************************************************************************)
Gated == /\ gate = "released" <=> (sm = "CONNECTED" /\ pc # "settle")
         /\ pc = "settle" => sm = "CONNECTED"
         /\ sm = "INITIALIZING" => gate = "none"

SessionInv == CountInv /\ Gated

\* The other contexts, and the dispatcher outside process_state and the entry
\* into CONNECTED, touch nothing of the session.
LEMMA ElsewhereKeeps ==
    ASSUME [Next]_vars, ~ProcessState, ~Settle
    PROVE  UNCHANGED <<sm, tries, gate>> /\ (pc' = "settle" <=> pc = "settle")
BY DEF Next, vars, GetEvent, Request, StartTimer, DispatcherAt, LinkUp, LinkRefused,
       LinkDown, AddressAdded, TimerExpires, OtherEvent, PeerConnects, PeerLeaves,
       PeerWrites, RssiTests, RssiShows, coreVars

\* The phase of each state (Netmgnt::process_state), before and after a step.
LEMMA PhaseOf ==
    /\ sm = "INITIALIZING" \/ sm = "LOADING_CREDENTIALS" => Phase = "offline"
    /\ sm = "CONNECTING" \/ sm = "WAITING_FOR_IP_ADDRESS" => Phase = "trying"
    /\ sm = "CONNECTED" => Phase = "online"
    /\ sm = "PROVISIONING" \/ sm = "STORING_CREDENTIALS" => Phase = "asking"
    /\ sm' = "INITIALIZING" \/ sm' = "LOADING_CREDENTIALS" => Phase' = "offline"
    /\ sm' = "CONNECTING" \/ sm' = "WAITING_FOR_IP_ADDRESS" => Phase' = "trying"
    /\ sm' = "CONNECTED" => Phase' = "online"
    /\ sm' = "PROVISIONING" \/ sm' = "STORING_CREDENTIALS" => Phase' = "asking"
BY DEF Phase, Counting

\* What process_state does to the session (Netmgnt::process_state), state by
\* state: where it goes, with what counter, and what happens to the gate.
Goes(to, n, point) == sm' = to /\ tries' = n /\ pc' = point

LEMMA ProcessMoves ==
    ASSUME SessionInv, ProcessState
    PROVE  \/ UNCHANGED <<sm, tries, gate>> /\ pc' \notin {"settle"}
           \/ /\ sm = "INITIALIZING" /\ gate' = "none"
              /\ Goes("INITIALIZING", 0, "handle")
           \/ /\ sm \in {"INITIALIZING", "STORING_CREDENTIALS"} /\ gate' = gate
              /\ Goes("LOADING_CREDENTIALS", tries, "get")
           \/ /\ sm = "LOADING_CREDENTIALS" /\ gate' = gate
              /\ Goes("CONNECTING", tries, "sleep") \/ Goes("PROVISIONING", tries, "get")
           \/ /\ sm = "PROVISIONING" /\ gate' = gate
              /\ Goes("STORING_CREDENTIALS", tries, "get")
           \/ /\ sm = "STORING_CREDENTIALS" /\ gate' = gate
              /\ Goes("PROVISIONING", tries, "get")
           \/ /\ sm \in Counting /\ gate' = gate
              /\ \/ Goes(sm, tries + 1, pc') /\ canRetry
                 \/ Goes("PROVISIONING", 0, "get") /\ ~canRetry
                 \/ \E to \in Counting : Goes(to, 0, pc') /\ to # sm
              /\ pc' \in {"get", "sleep", "arm"}
           \/ /\ sm = "WAITING_FOR_IP_ADDRESS" /\ gate' = gate
              /\ Goes("CONNECTED", 0, "settle")
           \/ /\ sm = "CONNECTED" /\ gate' = "blocked"
              /\ Goes("CONNECTING", tries, "sleep")
<1>. USE DEF Leave, LeaveTries, Counting, DispatcherAt, Goes
<1>0. pc = "handle" /\ (sm \notin Counting => tries = 0)
  BY DEF ProcessState, SessionInv, CountInv, Count
<1>1. CASE sm = "INITIALIZING" /\ OnInitializing
  BY <1>0, <1>1 DEF OnInitializing, Initialize, EnterLoading, Reboot
<1>2. CASE sm = "LOADING_CREDENTIALS" /\ OnLoading
  BY <1>0, <1>2 DEF OnLoading, EnterConnecting, EnterProvisioning
<1>3. CASE sm = "CONNECTING" /\ OnConnecting
  BY <1>0, <1>3 DEF OnConnecting, EnterWaiting, EnterConnecting, EnterProvisioning
<1>4. CASE sm = "WAITING_FOR_IP_ADDRESS" /\ OnWaiting
  BY <1>0, <1>4 DEF OnWaiting, EnterConnected, EnterWaiting, EnterConnecting, EnterProvisioning
<1>5. CASE sm = "CONNECTED" /\ OnConnected
  BY <1>0, <1>5 DEF OnConnected, EnterConnecting
<1>6. CASE sm = "PROVISIONING" /\ OnProvisioning
  BY <1>0, <1>6 DEF OnProvisioning, EnterStoring
<1>7. CASE sm = "STORING_CREDENTIALS" /\ OnStoring
  BY <1>0, <1>7 DEF OnStoring, EnterLoading, EnterProvisioning
<1>8. CASE Ignore
  BY <1>8 DEF Ignore, Stay
<1>. QED BY <1>1, <1>2, <1>3, <1>4, <1>5, <1>6, <1>7, <1>8 DEF ProcessState

\* Each of these moves is a step of the session.
LEMMA ProcessIsSession ==
    ASSUME SessionInv, ProcessState
    PROVE  Gated' /\ [Abstract!Next]_<<Phase, tries, gate>>
<1>. USE DEF Goes, Counting
<1>0. /\ pc = "handle" /\ tries \in 0 .. MaxTries - 1 /\ MaxTries \in Nat
      /\ sm \notin Counting => tries = 0
  BY TriesAssumption DEF ProcessState, SessionInv, CountInv, Count, TypeOK
<1>1. Gated'
  BY <1>0, ProcessMoves DEF SessionInv, Gated
<1>2. [Abstract!Next]_<<Phase, tries, gate>>
  <2>. USE <1>0, ProcessMoves, PhaseOf DEF Abstract!Next, Abstract!Quiet
  <2>1. CASE sm = "INITIALIZING"
    BY <2>1 DEF SessionInv, Gated
  <2>2. CASE sm = "LOADING_CREDENTIALS"
    BY <2>2 DEF Abstract!Try, Abstract!Ask
  <2>3. CASE sm \in Counting
    BY <2>3 DEF canRetry, Abstract!Fail, Abstract!GiveUp, Abstract!Advance, Abstract!Online
  <2>4. CASE sm = "CONNECTED"
    BY <2>4 DEF SessionInv, Gated, Abstract!Drop
  <2>5. CASE sm \in {"PROVISIONING", "STORING_CREDENTIALS"}
    BY <2>5 DEF Abstract!Answered
  <2>. QED
    BY <2>1, <2>2, <2>3, <2>4, <2>5 DEF SessionInv, CountInv, TypeOK, States
<1>. QED BY <1>1, <1>2

\* Gated is kept by every step, which is one of the session or none.
LEMMA SessionStep ==
    ASSUME SessionInv, [Next]_vars PROVE Gated' /\ [Abstract!Next]_<<Phase, tries, gate>>
<1>1. CASE ProcessState
  BY <1>1, ProcessIsSession
<1>2. CASE Settle
  <2>1. /\ pc = "settle" /\ sm = "CONNECTED" /\ UNCHANGED <<sm, tries>>
        /\ gate # "released" /\ gate' = "released" /\ pc' = "get"
    BY <1>2 DEF Settle, SessionInv, Gated, DispatcherAt
  <2>2. Phase = "online" /\ Phase' = "online"
    BY <2>1, PhaseOf
  <2>. QED BY <2>1, <2>2 DEF Gated, Abstract!Next, Abstract!Open
<1>3. CASE ~ProcessState /\ ~Settle
  <2>1. UNCHANGED <<sm, tries, gate>> /\ (pc' = "settle" <=> pc = "settle")
    BY <1>3, ElsewhereKeeps
  <2>2. Phase' = Phase
    BY <2>1 DEF Phase
  <2>. QED BY <2>1, <2>2 DEF SessionInv, Gated
<1>. QED BY <1>1, <1>2, <1>3

(***************************************************************************)
(* The manager implements the session: for every number of tries, capacity *)
(* of the queue and set of faults, whatever the order of the events.       *)
(***************************************************************************)
THEOREM Implements == Spec => IsSession
<1>1. Init => Abstract!Init /\ Gated
  BY PhaseOf DEF Init, Abstract!Init, Gated
<1>2. CountInv /\ Gated /\ [Next]_vars
          => Gated' /\ [Abstract!Next]_<<Phase, tries, gate>>
  BY SessionStep DEF SessionInv
<1>. QED BY <1>1, <1>2, CountIsInvariant, PTL DEF Spec, IsSession, Abstract!Spec, Abstract!sessionVars

-----------------------------------------------------------------------------
(***************************************************************************)
(* The link.  An event that reports an association or an address outlives  *)
(* it, but then the event of the loss is behind it in the queue (or was    *)
(* dropped), and is handled in the state that the first one led to.        *)
(***************************************************************************)
Loss == "WIFI_DISCONNECTED"
Associated == link \in {"up", "leaving"} \/ lost
Addressed  == addr \/ lost

LossIn      == \E i \in DOMAIN queue : queue[i] = Loss
LossAfter(i) == \E j \in DOMAIN queue : j > i /\ queue[j] = Loss

Reported ==
    /\ \A i \in DOMAIN queue : queue[i] = "WIFI_CONNECTED" => Associated \/ LossAfter(i)
    /\ \A i \in DOMAIN queue : queue[i] = "IP_ACQUIRED" => Addressed \/ LossAfter(i)
InHand ==
    /\ pc = "handle" /\ evt = "WIFI_CONNECTED" => Associated \/ LossIn
    /\ pc = "handle" /\ evt = "IP_ACQUIRED" => Addressed \/ LossIn
Held ==
    /\ sm = "WAITING_FOR_IP_ADDRESS" => Associated \/ Pending(Loss)
    /\ sm = "CONNECTED" => Addressed \/ Pending(Loss)

LinkInv == Reported /\ InHand /\ Held

\* What Post does to the queue, place by place (k_msgq_put).
LEMMA PostedAt ==
    ASSUME queue \in Seq(Events), NEW e \in Events, Post(e)
    PROVE  /\ \A i \in DOMAIN queue : i \in DOMAIN queue' /\ queue'[i] = queue[i]
           /\ \A i \in DOMAIN queue' : i \in DOMAIN queue \/ queue'[i] = e
           /\ \/ \E j \in DOMAIN queue' : queue'[j] = e /\ \A i \in DOMAIN queue : j > i
              \/ e = Loss => lost'
           /\ lost => lost'
<1>1. CASE HasRoom
  <2>1. /\ queue' = Append(queue, e) /\ DOMAIN queue' = 1 .. Len(queue) + 1
        /\ DOMAIN queue = 1 .. Len(queue) /\ Len(queue) \in Nat
        /\ queue'[Len(queue) + 1] = e
        /\ \A i \in 1 .. Len(queue) : queue'[i] = queue[i]
    BY <1>1 DEF Post
  <2>2. \E j \in DOMAIN queue' : queue'[j] = e /\ \A i \in DOMAIN queue : j > i
    BY <2>1
  <2>3. \A i \in DOMAIN queue' : i \in DOMAIN queue \/ queue'[i] = e
    BY <2>1
  <2>4. \A i \in DOMAIN queue : i \in DOMAIN queue' /\ queue'[i] = queue[i]
    BY <2>1
  <2>5. lost => lost'
    BY DEF Post
  <2>. QED BY <2>2, <2>3, <2>4, <2>5
<1>2. CASE ~HasRoom
  BY <1>2 DEF Post, Loss
<1>. QED BY <1>1, <1>2

\* Another context posts: what was true of the link stays true, or its loss is
\* what is posted.
LEMMA PostKeepsLink ==
    ASSUME TypeOK, LinkInv, NEW e \in Events, Post(e), UNCHANGED sm,
           UNCHANGED <<pc, evt>> \/ (pc # "handle" /\ pc' # "handle"),
           link \in {"up", "leaving"} => link' \in {"up", "leaving"} \/ e = Loss,
           addr => addr' \/ e = Loss,
           e = "WIFI_CONNECTED" => link' = "up", e = "IP_ACQUIRED" => addr'
    PROVE  LinkInv'
<1>0. queue \in Seq(Events)
  BY DEF TypeOK
<1>1. \A i \in DOMAIN queue : LossAfter(i) => LossAfter(i)'
  BY <1>0, PostedAt DEF LossAfter
<1>2. e = Loss => lost' \/ (LossIn' /\ \A i \in DOMAIN queue : LossAfter(i)')
  BY <1>0, PostedAt DEF LossIn, LossAfter
<1>3. LossIn => LossIn'
  BY <1>0, PostedAt DEF LossIn
<1>4. /\ Associated => Associated' \/ (LossIn' /\ \A i \in DOMAIN queue : LossAfter(i)')
      /\ Addressed => Addressed' \/ (LossIn' /\ \A i \in DOMAIN queue : LossAfter(i)')
  BY <1>0, <1>2, PostedAt DEF Associated, Addressed
<1>5. Reported'
  BY <1>0, <1>1, <1>4, PostedAt DEF LinkInv, Reported, Associated, Addressed, Loss
<1>6. InHand'
  BY <1>3, <1>4 DEF LinkInv, InHand
<1>7. LossIn' => Pending(Loss)'
  BY DEF LossIn, Pending
<1>8. Pending(Loss) => Pending(Loss)'
  BY <1>3, <1>7 DEF LossIn, Pending
<1>9. Held'
  BY <1>4, <1>7, <1>8 DEF LinkInv, Held
<1>. QED BY <1>5, <1>6, <1>9 DEF LinkInv

\* k_msgq_get: the event taken is in hand, the others move up by one place.
LEMMA GetKeepsLink == ASSUME TypeOK, LinkInv, GetEvent PROVE LinkInv'
<1>1. /\ evt' = queue[1] /\ pc' = "handle" /\ pc = "get"
      /\ UNCHANGED <<sm, link, addr, lost>>
      /\ DOMAIN queue = 1 .. Len(queue) /\ Len(queue) \in Nat \ {0}
      /\ DOMAIN queue' = 1 .. Len(queue) - 1
      /\ \A i \in DOMAIN queue' : queue'[i] = queue[i + 1]
  BY DEF GetEvent, TypeOK, netVars
<1>2. Associated' = Associated /\ Addressed' = Addressed
  BY <1>1 DEF Associated, Addressed
<1>3. \A i \in DOMAIN queue' : LossAfter(i + 1) => LossAfter(i)'
  <2> SUFFICES ASSUME NEW i \in DOMAIN queue', NEW j \in DOMAIN queue,
                      j > i + 1, queue[j] = Loss
               PROVE  LossAfter(i)'
    BY DEF LossAfter
  <2>1. j - 1 \in DOMAIN queue' /\ j - 1 > i /\ queue'[j - 1] = queue[j]
    BY <1>1
  <2>. QED BY <2>1 DEF LossAfter
<1>4. LossAfter(1) => LossIn'
  <2> SUFFICES ASSUME NEW j \in DOMAIN queue, j > 1, queue[j] = Loss PROVE LossIn'
    BY DEF LossAfter
  <2>1. j - 1 \in DOMAIN queue' /\ queue'[j - 1] = queue[j]
    BY <1>1
  <2>. QED BY <2>1 DEF LossIn
<1>5. Reported'
  <2>1. \A i \in DOMAIN queue' : i + 1 \in DOMAIN queue /\ queue'[i] = queue[i + 1]
    BY <1>1
  <2>. QED BY <1>2, <1>3, <2>1 DEF LinkInv, Reported
<1>6. InHand'
  <2>1. 1 \in DOMAIN queue
    BY <1>1
  <2>. QED BY <1>1, <1>2, <1>4, <2>1 DEF LinkInv, Reported, InHand
<1>7. Pending(Loss) => Pending(Loss)'
  <2>1. ASSUME NEW j \in DOMAIN queue, queue[j] = Loss PROVE Pending(Loss)'
    <3>1. CASE j = 1
      BY <1>1, <2>1, <3>1 DEF Pending
    <3>2. CASE j # 1
      <4>1. j - 1 \in DOMAIN queue' /\ queue'[j - 1] = queue[j]
        BY <1>1, <3>2
      <4>. QED BY <2>1, <4>1 DEF Pending
    <3>. QED BY <3>1, <3>2
  <2>. QED BY <1>1, <2>1 DEF Pending
<1>8. Held'
  BY <1>1, <1>2, <1>7 DEF LinkInv, Held
<1>. QED BY <1>5, <1>6, <1>8 DEF LinkInv

\* What process_state does to the link and the queue, apart from a reboot: it
\* posts no event of the driver, and ends neither an association nor an address.
\* The states that believe in one are entered by the event that reports it.
Own == Events \ {"WIFI_CONNECTED", "IP_ACQUIRED", Loss}

LEMMA ProcessAndLink ==
    ASSUME TypeOK, ProcessState
    PROVE  \/ Reboot
           \/ /\ pc = "handle" /\ pc' # "handle" /\ UNCHANGED addr
              /\ link \in {"up", "leaving"} => link' \in {"up", "leaving"}
              /\ UNCHANGED <<queue, lost>> \/ \E e \in Own : Post(e)
              /\ sm' = "WAITING_FOR_IP_ADDRESS" =>
                    evt = "WIFI_CONNECTED" \/ (sm = sm' /\ evt # Loss)
              /\ sm' = "CONNECTED" => evt = "IP_ACQUIRED" \/ (sm = sm' /\ evt # Loss)
<1>. USE DEF Leave, DispatcherAt, netVars, Own, Events, Loss
<1>0. pc = "handle"
  BY DEF ProcessState
<1>1. CASE sm = "INITIALIZING" /\ OnInitializing
  BY <1>0, <1>1 DEF OnInitializing, Initialize, EnterLoading
<1>2. CASE sm = "LOADING_CREDENTIALS" /\ OnLoading
  BY <1>0, <1>2 DEF OnLoading, EnterConnecting, EnterProvisioning
<1>3. CASE sm = "CONNECTING" /\ OnConnecting
  BY <1>0, <1>3 DEF OnConnecting, EnterWaiting, EnterConnecting, EnterProvisioning
<1>4. CASE sm = "WAITING_FOR_IP_ADDRESS" /\ OnWaiting
  BY <1>0, <1>4 DEF OnWaiting, EnterConnected, EnterWaiting, EnterConnecting, EnterProvisioning
<1>5. CASE sm = "CONNECTED" /\ OnConnected
  BY <1>0, <1>5 DEF OnConnected, EnterConnecting
<1>6. CASE sm = "PROVISIONING" /\ OnProvisioning
  BY <1>0, <1>6 DEF OnProvisioning, EnterStoring
<1>7. CASE sm = "STORING_CREDENTIALS" /\ OnStoring
  BY <1>0, <1>7 DEF OnStoring, EnterLoading, EnterProvisioning
<1>8. CASE Ignore
  <2>1. /\ Loss \in Handled["WAITING_FOR_IP_ADDRESS"]
        /\ Loss \in Handled["CONNECTED"]
    BY DEF Handled, States
  <2>. QED BY <1>0, <1>8, <2>1 DEF Ignore, Stay
<1>. QED BY <1>1, <1>2, <1>3, <1>4, <1>5, <1>6, <1>7, <1>8 DEF ProcessState

LEMMA ProcessKeepsLink == ASSUME TypeOK, LinkInv, ProcessState PROVE LinkInv'
<1>1. CASE Reboot
  BY <1>1 DEF Reboot, LinkInv, Reported, InHand, Held
<1>2. CASE ~Reboot
  <2>1. /\ pc = "handle" /\ pc' # "handle" /\ UNCHANGED addr
        /\ link \in {"up", "leaving"} => link' \in {"up", "leaving"}
        /\ UNCHANGED <<queue, lost>> \/ \E e \in Own : Post(e)
        /\ sm' = "WAITING_FOR_IP_ADDRESS" =>
              evt = "WIFI_CONNECTED" \/ (sm = sm' /\ evt # Loss)
        /\ sm' = "CONNECTED" => evt = "IP_ACQUIRED" \/ (sm = sm' /\ evt # Loss)
    BY <1>2, ProcessAndLink
  <2>2. /\ \A i \in DOMAIN queue : i \in DOMAIN queue' /\ queue'[i] = queue[i]
        /\ \A i \in DOMAIN queue' : i \in DOMAIN queue \/ queue'[i] \in Own
        /\ lost => lost'
    <3>1. CASE UNCHANGED <<queue, lost>>
      BY <3>1
    <3>2. CASE \E e \in Own : Post(e)
      BY <3>2, PostedAt DEF Own, TypeOK
    <3>. QED BY <2>1, <3>1, <3>2
  <2>3. (Associated => Associated') /\ (Addressed => Addressed')
    BY <2>1, <2>2 DEF Associated, Addressed
  <2>4. LossIn => LossIn'
    BY <2>2 DEF LossIn
  <2>5. \A i \in DOMAIN queue : LossAfter(i) => LossAfter(i)'
    BY <2>2 DEF LossAfter
  <2>6. Reported'
    BY <2>2, <2>3, <2>5 DEF LinkInv, Reported, Own
  <2>7. InHand'
    BY <2>1 DEF InHand
  <2>8. /\ evt # Loss /\ Pending(Loss) => LossIn
        /\ LossIn' => Pending(Loss)'
    BY DEF Pending, LossIn
  <2>9. Held'
    BY <2>1, <2>3, <2>4, <2>8 DEF LinkInv, InHand, Held
  <2>. QED BY <2>6, <2>7, <2>9 DEF LinkInv
<1>. QED BY <1>1, <1>2

\* Steps that neither post nor lose anything.
LEMMA QuietKeepsLink ==
    ASSUME LinkInv, UNCHANGED <<sm, queue, lost, addr>>,
           link' = link \/ link \notin {"up", "leaving"},
           UNCHANGED <<pc, evt>> \/ (pc # "handle" /\ pc' # "handle")
    PROVE  LinkInv'
<1>1. (Associated => Associated') /\ (Addressed => Addressed')
  BY DEF Associated, Addressed
<1>2. Reported'
  BY <1>1 DEF LinkInv, Reported, LossAfter
<1>3. InHand'
  BY <1>1 DEF LinkInv, InHand, LossIn
<1>4. Held'
  BY <1>1 DEF LinkInv, Held, Pending
<1>. QED BY <1>2, <1>3, <1>4 DEF LinkInv

LEMMA LinkStep == ASSUME TypeOK, LinkInv, [Next]_vars PROVE LinkInv'
<1>. USE DEF Associated, Addressed, coreVars
<1>1. CASE GetEvent
  BY <1>1, GetKeepsLink
<1>2. CASE ProcessState
  BY <1>2, ProcessKeepsLink
<1>3. CASE Request
  <2>1. CASE UNCHANGED <<queue, lost>>
    BY <1>3, <2>1, QuietKeepsLink DEF Request, DispatcherAt
  <2>2. CASE Post("IFACE_ERROR")
    <3>1. UNCHANGED <<sm, addr>> /\ pc # "handle" /\ pc' # "handle"
          /\ (link \in {"up", "leaving"} => link' = link)
      BY <1>3 DEF Request, DispatcherAt
    <3>. QED BY <2>2, <3>1, PostKeepsLink DEF Events, Loss
  <2>. QED BY <1>3, <2>1, <2>2 DEF Request
<1>4. CASE StartTimer \/ Settle
  BY <1>4, QuietKeepsLink DEF StartTimer, Settle, DispatcherAt, netVars
<1>5. CASE LinkUp
  BY <1>5, PostKeepsLink DEF LinkUp, StopTimer, Events, Loss
<1>6. CASE LinkDown
  BY <1>6, PostKeepsLink DEF LinkDown, Events, Loss
<1>7. CASE AddressAdded
  BY <1>7, PostKeepsLink DEF AddressAdded, StopTimer, Events, Loss
<1>8. CASE TimerExpires \/ OtherEvent
  BY <1>8, PostKeepsLink DEF TimerExpires, OtherEvent, StopTimer, netVars, Events, Loss
<1>9. CASE LinkRefused \/ PeerConnects \/ PeerLeaves \/ RssiTests \/ RssiShows
  BY <1>9, QuietKeepsLink
     DEF LinkRefused, PeerConnects, PeerLeaves, RssiTests, RssiShows, netVars
<1>10. CASE PeerWrites
  <2>1. CASE Post("CREDS_RECEIVED")
    BY <1>10, <2>1, PostKeepsLink DEF PeerWrites, netVars, Events, Loss
  <2>2. CASE UNCHANGED <<queue, lost>>
    BY <1>10, <2>2, QuietKeepsLink DEF PeerWrites, netVars
  <2>. QED BY <1>10, <2>1, <2>2 DEF PeerWrites
<1>11. CASE UNCHANGED vars
  BY <1>11, QuietKeepsLink DEF vars, netVars
<1>. QED BY <1>1, <1>2, <1>3, <1>4, <1>5, <1>6, <1>7, <1>8, <1>9, <1>10, <1>11 DEF Next

(***************************************************************************)
(* What the machine believes of the link is true, or about to be put right *)
(* (or its correction was dropped on a full queue): for every number of    *)
(* tries, capacity, set of faults and order of the driver's answers.       *)
(***************************************************************************)
THEOREM BelievesTheLink == Spec => []OnlineIsUp
<1>1. Init => Gated /\ LinkInv
  BY DEF Init, Gated, LinkInv, Reported, InHand, Held
<1>2. CountInv /\ Gated /\ [Next]_vars => Gated'
  BY SessionStep DEF SessionInv
<1>3. CountInv /\ LinkInv /\ [Next]_vars => LinkInv'
  BY LinkStep DEF CountInv
<1>4. Gated /\ LinkInv => OnlineIsUp
  BY DEF Gated, LinkInv, Held, Associated, Addressed, Loss, OnlineIsUp
<1>. QED BY <1>1, <1>2, <1>3, <1>4, CountIsInvariant, PTL DEF Spec

-----------------------------------------------------------------------------
(***************************************************************************)
(* The timer of a wait.  A wait begins with its timer; what stops it puts  *)
(* an event in the queue that the state handles, or leads astray; and that *)
(* event stays where it is until it is handled, which leaves the wait.     *)
(***************************************************************************)
\* An event on its way stays there when another is posted, or none is.
LEMMA PendingOnPost ==
    ASSUME queue \in Seq(Events), NEW e, Pending(e), UNCHANGED <<pc, evt>>,
           UNCHANGED queue \/ \E f \in Events : Post(f)
    PROVE  Pending(e)'
<1>1. CASE UNCHANGED queue
  BY <1>1 DEF Pending
<1>2. CASE \E f \in Events : Post(f)
  BY <1>2, PostedAt DEF Pending
<1>. QED BY <1>1, <1>2

\* Taking the first event leaves every other in the queue.
LEMMA PendingOnGet ==
    ASSUME queue \in Seq(Events), NEW e, Pending(e), GetEvent PROVE Pending(e)'
<1>1. /\ evt' = queue[1] /\ pc' = "handle" /\ pc = "get"
      /\ DOMAIN queue = 1 .. Len(queue) /\ Len(queue) \in Nat \ {0}
      /\ DOMAIN queue' = 1 .. Len(queue) - 1
      /\ \A i \in DOMAIN queue' : queue'[i] = queue[i + 1]
  BY DEF GetEvent
<1> PICK j \in DOMAIN queue : queue[j] = e
  BY <1>1 DEF Pending
<1>2. CASE j = 1
  BY <1>1, <1>2 DEF Pending
<1>3. CASE j # 1
  <2>1. j - 1 \in DOMAIN queue' /\ queue'[j - 1] = queue[j]
    BY <1>1, <1>3
  <2>. QED BY <2>1 DEF Pending
<1>. QED BY <1>2, <1>3

\* process_state handles the event, or ignores it and leaves the queue alone.
LEMMA ProcessKeepsTimed == ASSUME WaitIsTimed, ProcessState PROVE WaitIsTimed'
<1>. USE DEF Leave, DispatcherAt, Counting
<1>1. CASE Ignore
  <2>1. /\ evt \notin Handled[sm] /\ UNCHANGED <<sm, queue, timer, astray>> /\ pc' = "get"
        /\ pc = "handle"
    BY <1>1 DEF Ignore, Stay, netVars, ProcessState
  <2>2. \A e \in Handled[sm] : Pending(e) => Pending(e)'
    BY <2>1 DEF Pending
  <2>. QED BY <2>1, <2>2 DEF WaitIsTimed
<1>2. CASE ~Ignore
  <2>1. sm' \in Counting => pc' \in {"sleep", "arm"}
    <3>1. CASE OnInitializing
      BY <3>1 DEF OnInitializing, Initialize, EnterLoading, Reboot
    <3>2. CASE OnLoading \/ OnConnected
      BY <3>2 DEF OnLoading, OnConnected, EnterConnecting, EnterProvisioning
    <3>3. CASE OnConnecting
      BY <3>3 DEF OnConnecting, EnterWaiting, EnterConnecting, EnterProvisioning
    <3>4. CASE OnWaiting
      BY <3>4 DEF OnWaiting, EnterConnected, EnterWaiting, EnterConnecting, EnterProvisioning
    <3>5. CASE OnProvisioning \/ OnStoring
      BY <3>5 DEF OnProvisioning, OnStoring, EnterStoring, EnterLoading, EnterProvisioning
    <3>. QED BY <1>2, <3>1, <3>2, <3>3, <3>4, <3>5 DEF ProcessState
  <2>. QED BY <2>1 DEF WaitIsTimed
<1>. QED BY <1>1, <1>2

\* What stops the timer, of whatever state it is: its event is on the way, or it
\* has led the wait astray.
LEMMA StopKeepsTimed ==
    ASSUME TypeOK, WaitIsTimed, NEW e \in Events, StopTimer(e), UNCHANGED <<sm, pc, evt>>
    PROVE  WaitIsTimed'
<1>0. queue \in Seq(Events) /\ Post(e)
  BY DEF TypeOK, StopTimer
<1>1. CASE timer
  <2>1. ~astray' => HasRoom /\ e \in Handled[sm]
    BY <1>1 DEF StopTimer
  <2>2. HasRoom => \E i \in DOMAIN queue' : queue'[i] = e
    <3> SUFFICES ASSUME HasRoom PROVE \E i \in DOMAIN queue' : queue'[i] = e
      OBVIOUS
    <3>1. queue' = Append(queue, e)
      BY <1>0 DEF Post
    <3>2. Len(queue) + 1 \in DOMAIN queue' /\ queue'[Len(queue) + 1] = e
      BY <1>0, <3>1
    <3>. QED BY <3>2
  <2>. QED BY <2>1, <2>2 DEF WaitIsTimed, Pending
<1>2. CASE ~timer
  <2>1. ~astray' => ~astray
    BY DEF StopTimer
  <2>2. \A f \in Handled[sm] : Pending(f) => Pending(f)'
    BY <1>0, PendingOnPost
  <2>. QED BY <1>2, <2>1, <2>2 DEF WaitIsTimed
<1>. QED BY <1>1, <1>2

\* A context that stops no timer: it posts, or it does not.
LEMMA OthersKeepTimed ==
    ASSUME TypeOK, WaitIsTimed, UNCHANGED <<sm, pc, evt, timer, astray>>,
           UNCHANGED queue \/ \E e \in Events : Post(e)
    PROVE  WaitIsTimed'
<1>1. \A f \in Handled[sm] : Pending(f) => Pending(f)'
  BY PendingOnPost DEF TypeOK
<1>. QED BY <1>1 DEF WaitIsTimed

LEMMA TimedStep == ASSUME TypeOK, Gated, WaitIsTimed, [Next]_vars PROVE WaitIsTimed'
<1>. USE DEF coreVars
<1>1. CASE ProcessState
  BY <1>1, ProcessKeepsTimed
<1>2. CASE GetEvent
  <2>1. pc = "get" /\ UNCHANGED <<sm, timer, astray>>
    BY <1>2 DEF GetEvent, netVars
  <2>2. \A f \in Handled[sm] : Pending(f) => Pending(f)'
    BY <1>2, PendingOnGet DEF TypeOK
  <2>. QED BY <2>1, <2>2 DEF WaitIsTimed
<1>3. CASE Request \/ StartTimer
  BY <1>3 DEF Request, StartTimer, DispatcherAt, WaitIsTimed
<1>4. CASE Settle
  BY <1>4 DEF Settle, DispatcherAt, Gated, WaitIsTimed, Counting
<1>5. CASE LinkUp \/ AddressAdded \/ TimerExpires
  BY <1>5, StopKeepsTimed DEF LinkUp, AddressAdded, TimerExpires, Events
<1>6. CASE LinkDown \/ OtherEvent \/ LinkRefused
  BY <1>6, OthersKeepTimed DEF LinkDown, OtherEvent, LinkRefused, netVars, Events
<1>7. CASE PeerConnects \/ PeerLeaves \/ PeerWrites
  BY <1>7, OthersKeepTimed DEF PeerConnects, PeerLeaves, PeerWrites, netVars, Events
<1>8. CASE RssiTests \/ RssiShows \/ UNCHANGED vars
  BY <1>8, OthersKeepTimed DEF RssiTests, RssiShows, vars, netVars
<1>. QED BY <1>1, <1>2, <1>3, <1>4, <1>5, <1>6, <1>7, <1>8 DEF Next

\* No state that counts its tries waits for nothing: for every number of tries,
\* capacity of the queue and set of faults, whatever the driver, the timer, MQTT and
\* a phone do in the middle of on_entry and process_state, its timer runs or an event
\* it handles is on the way, unless a callback has stopped the timer with an event
\* that was dropped or that the state ignores (WifiStation's callbacks stop the timer
\* without asking the state, on_entry starts it).
THEOREM WaitsAreTimed == Spec => []WaitIsTimed
<1>1. Init => Gated /\ WaitIsTimed
  BY DEF Init, Gated, WaitIsTimed, Counting
<1>2. CountInv /\ Gated /\ [Next]_vars => Gated'
  BY SessionStep DEF SessionInv
<1>3. CountInv /\ Gated /\ WaitIsTimed /\ [Next]_vars => WaitIsTimed'
  BY TimedStep DEF CountInv
<1>. QED BY <1>1, <1>2, <1>3, CountIsInvariant, PTL DEF Spec
=============================================================================
