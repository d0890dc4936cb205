------------------------------ MODULE Credentials ------------------------------
(***************************************************************************)
(* The credentials on their way from a phone into the flash: the two       *)
(* characteristics a phone writes (the thread of Bluetooth), the buffer of *)
(* BluetoothLE and the one of Provisioning, and the dispatcher, which      *)
(* stores what it finds in the second.  No lock guards it.  The library of *)
(* the credentials keeps one password per name, for so many names.         *)
(***************************************************************************)
EXTENDS Naturals, FiniteSets

CONSTANTS
    Network,    \* the networks; each has a name and a password of its own
    None,       \* nothing written
    Open,       \* the networks without a password
    First,      \* the halves with which a phone may begin
    Hasty,      \* may a phone write while the device is not asking?
    Entries     \* CONFIG_WIFI_CREDENTIALS_MAX_ENTRIES

Halves == {"ssid", "psk"}

ASSUME NetworkAssumption ==
    IsFiniteSet(Network) /\ None \notin Network /\ Open \subseteq Network
ASSUME PhoneAssumption == First \subseteq Halves /\ First # {} /\ Hasty \in BOOLEAN
ASSUME EntriesAssumption == Entries \in Nat \ {0}

VARIABLES
    phone,      \* the network it is submitting, the halves it has still to write
    buffer,     \* BluetoothLE::creds; a half of length 0 is missing
    creds,      \* Provisioning::creds
    copying,    \* the halves of the buffer that have still to be copied
    posted,     \* the PROVISIONING_CREDS_RECEIVED in the queue
    manager,    \* "asking", "storing", "trying", "online"
    taken,      \* the name that write_credentials has read
    stored      \* the passwords in flash, by name

phoneVars == <<phone, buffer, copying>>
vars == <<phoneVars, creds, posted, manager, taken, stored>>

Pair == [Halves -> Network \cup {None}]
Blank == [h \in Halves |-> None]

TypeOK ==
    /\ phone \in [network : Network \cup {None}, rest : SUBSET Halves]
    /\ buffer \in Pair /\ creds \in Pair /\ copying \subseteq Halves
    /\ posted \in 0 .. 1 + Cardinality(Network)
    /\ manager \in {"asking", "storing", "trying", "online"}
    /\ taken \in Network \cup {None}
    /\ stored \in [Network -> Network \cup {None}]
    /\ Cardinality({n \in Network : stored[n] # None}) <= Entries

Init == /\ phone = [network |-> None, rest |-> {}]
        /\ buffer = Blank /\ creds = Blank /\ copying = {} /\ posted = 0
        /\ manager = "asking" /\ taken = None
        /\ stored = [n \in Network |-> None]

-----------------------------------------------------------------------------
(***************************************************************************)
(* The phone.  It may begin with another network before it has written     *)
(* both halves of one.  The bound on what waits in the queue is named in   *)
(* TypeOK.                                                                 *)
(***************************************************************************)
MayWrite == /\ copying = {} /\ posted < 1 + Cardinality(Network)
            /\ Hasty \/ (manager = "asking" /\ posted = 0)

Sent(n, h) == IF h = "psk" /\ n \in Open THEN None ELSE n

\* write_ssid, write_password and data_check.
Write(n, h) ==
    /\ buffer' = [buffer EXCEPT ![h] = Sent(n, h)]
    /\ copying' = IF \E g \in Halves : buffer'[g] = None THEN {} ELSE Halves
    /\ UNCHANGED <<creds, posted, manager, taken, stored>>

Begins == /\ MayWrite
          /\ \E n \in Network, h \in First :
                Write(n, h) /\ phone' = [network |-> n, rest |-> Halves \ {h}]

Continues == /\ MayWrite
             /\ \E h \in phone.rest :
                   /\ Write(phone.network, h)
                   /\ phone' = [phone EXCEPT !.rest = @ \ {h}]

\* incoming_data_callback: the struct is copied, the event posted, and then
\* the buffer is cleared.
\* Mutant of Clear: it is not.
ClearNothing == buffer
Clear        == Blank

Copy(h) == /\ h \in copying
           /\ creds' = [creds EXCEPT ![h] = buffer[h]]
           /\ copying' = copying \ {h}
           /\ IF copying = {h} THEN posted' = posted + 1 /\ buffer' = Clear
                               ELSE UNCHANGED <<posted, buffer>>
           /\ UNCHANGED <<phone, manager, taken, stored>>

-----------------------------------------------------------------------------
(***************************************************************************)
(* The dispatcher.  write_credentials passes pointers: the library reads   *)
(* the name, finds its entry or a free one, and reads the password.        *)
(***************************************************************************)
Receive == /\ posted > 0 /\ manager # "storing"
           /\ posted' = posted - 1
           /\ IF manager = "asking" THEN manager' = "storing" /\ taken' = None
                                    ELSE UNCHANGED <<manager, taken>>
           /\ UNCHANGED <<phoneVars, creds, stored>>

ReadName == /\ manager = "storing" /\ taken = None
            /\ taken' = creds["ssid"]
            /\ UNCHANGED <<phoneVars, creds, posted, manager, stored>>

Used == Cardinality({n \in Network : stored[n] # None})

\* Mutant of HasEntry: one entry too many.
HasEntryLate == stored[taken] # None \/ Used <= Entries
HasEntry     == stored[taken] # None \/ Used < Entries

Store == /\ manager = "storing" /\ taken # None
         /\ \/ /\ HasEntry
               /\ stored' = [stored EXCEPT ![taken] = creds["psk"]]
               /\ manager' = "trying"
            \/ manager' = "asking" /\ UNCHANGED stored
         /\ UNCHANGED <<phoneVars, creds, posted, taken>>

\* The stored networks connect, or the manager gives up and asks again.
Ends == /\ \/ manager = "trying" /\ manager' \in {"online", "asking"}
           \/ manager = "online" /\ manager' = "trying"
        /\ UNCHANGED <<phoneVars, creds, posted, taken, stored>>

Next == \/ Begins \/ Continues \/ \E h \in Halves : Copy(h)
        \/ Receive \/ ReadName \/ Store \/ Ends

Spec == Init /\ [][Next]_vars

-----------------------------------------------------------------------------
(***************************************************************************)
(* A name is stored with its own password: the two halves come from two    *)
(* writes, wait in a buffer that outlives a submission, and are copied and *)
(* read in pieces by two threads, and yet are those of one submission.  It *)
(* holds for phones that write the name first, while the device asks.      *)
(***************************************************************************)
StoredIsPair == \A n \in Network : stored[n] \in {n, None}
=============================================================================
