-------------------------------- MODULE Session --------------------------------
(***************************************************************************)
(* What the connection manager promises to the rest of the device: whether *)
(* it is offline, trying, online or asking the user for credentials, how   *)
(* many attempts in a row have failed, and the gate that it opens to MQTT. *)
(* WifiManager implements it; MqttClient runs under it.                    *)
(***************************************************************************)
EXTENDS Naturals

CONSTANT MaxTries     \* the failures in a row after which the user is asked

VARIABLES
    phase,            \* "offline", "trying", "online" or "asking"
    failures,         \* the attempts of one kind that have failed in a row
    gate              \* is MQTT let through? "none" until the first time

sessionVars == <<phase, failures, gate>>

Init == phase = "offline" /\ failures = 0 /\ gate = "none"

Try == /\ phase = "offline"
       /\ phase' = "trying"
       /\ UNCHANGED <<failures, gate>>

Ask == /\ phase = "offline"
       /\ phase' = "asking"
       /\ UNCHANGED <<failures, gate>>

\* The user's credentials are loaded like those of the start.
Answered == /\ phase = "asking"
            /\ phase' = "offline"
            /\ UNCHANGED <<failures, gate>>

Fail == /\ phase = "trying" /\ failures + 1 < MaxTries
        /\ failures' = failures + 1
        /\ UNCHANGED <<phase, gate>>

GiveUp == /\ phase = "trying" /\ failures + 1 = MaxTries
          /\ phase' = "asking" /\ failures' = 0
          /\ UNCHANGED gate

\* From the association to the address, or back.
Advance == /\ phase = "trying"
           /\ failures' = 0
           /\ UNCHANGED <<phase, gate>>

Online == /\ phase = "trying"
          /\ phase' = "online" /\ failures' = 0
          /\ UNCHANGED gate

Open == /\ phase = "online" /\ gate # "released"
        /\ gate' = "released"
        /\ UNCHANGED <<phase, failures>>

\* The gate is closed in the step that leaves "online".
Drop == /\ phase = "online" /\ gate = "released"
        /\ phase' = "trying" /\ gate' = "blocked"
        /\ UNCHANGED failures

Quiet == Try \/ Ask \/ Answered \/ Fail \/ GiveUp \/ Advance \/ Online

Next == Quiet \/ Open \/ Drop

Spec == Init /\ [][Next]_sessionVars
================================================================================
