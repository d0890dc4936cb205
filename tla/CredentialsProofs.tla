--------------------------- MODULE CredentialsProofs ---------------------------
(***************************************************************************)
(* Proofs about Credentials, for any number of networks and entries: its   *)
(* types, whatever the phones do; and that a name is stored with its own   *)
(* password, when they write the name first and only while it is asked     *)
(* for.                                                                    *)
(***************************************************************************)
EXTENDS Credentials, FiniteSetTheorems, TLAPS

OrderlyPhones == First = {"ssid"} /\ ~Hasty

Shapes == /\ buffer \in Pair /\ creds \in Pair /\ copying \subseteq Halves
          /\ posted \in Nat /\ taken \in Network \cup {None}
          /\ stored \in [Network -> Network \cup {None}]

(***************************************************************************)
(* StoredIsPair rests on what is on its way: the buffer holds a password   *)
(* only while it is copied, with the name it belongs to; the halves copied *)
(* so far are those of the buffer; and while anything is copied, waits or  *)
(* is stored, nothing is written.                                          *)
(***************************************************************************)
Orderly ==
    /\ phone.rest \subseteq {"psk"}
    /\ phone.rest # {} => buffer["ssid"] = phone.network
    /\ copying = {} => buffer["psk"] = None /\ creds["ssid"] = creds["psk"]
    /\ copying # {} =>
          /\ manager = "asking" /\ posted = 0 /\ phone.rest = {}
          /\ buffer["ssid"] = buffer["psk"] /\ buffer["ssid"] # None
          /\ \A h \in Halves \ copying : creds[h] = buffer[h]
    /\ manager = "storing" => posted = 0 /\ creds["ssid"] # None
                              /\ taken \in {None, creds["ssid"]}
    /\ posted > 0 => manager = "asking" /\ posted = 1 /\ creds["ssid"] # None

PairInv == Shapes /\ Orderly /\ StoredIsPair

\* A phone writes a half: write_ssid or write_password.
LEMMA WriteStep ==
    ASSUME OrderlyPhones, PairInv, Begins \/ Continues PROVE PairInv'
<1>. USE DEF PairInv
<1>1. /\ copying = {} /\ manager = "asking" /\ posted = 0
      /\ UNCHANGED <<creds, posted, manager, taken, stored>>
  BY DEF OrderlyPhones, Begins, Continues, MayWrite, Write
<1>2. CASE Begins
  <2> PICK n \in Network : /\ Write(n, "ssid")
                           /\ phone' = [network |-> n, rest |-> Halves \ {"ssid"}]
    BY <1>2 DEF Begins, OrderlyPhones
  <2>1. buffer' = [buffer EXCEPT !["ssid"] = n] /\ buffer["psk"] = None
    BY <1>1 DEF Write, Sent, Orderly
  <2>2. buffer'["psk"] = None /\ buffer'["ssid"] = n /\ buffer' \in Pair
    BY <2>1 DEF Shapes, Pair, Halves
  <2>3. copying' = {}
    BY <2>2 DEF Write, Halves
  <2>4. phone'.rest = {"psk"} /\ phone'.network = n
    BY DEF Halves
  <2>. QED BY <1>1, <2>2, <2>3, <2>4 DEF Shapes, Orderly, StoredIsPair
<1>3. CASE Continues
  <2>1. /\ "psk" \in phone.rest /\ Write(phone.network, "psk")
        /\ phone' = [phone EXCEPT !.rest = @ \ {"psk"}]
    BY <1>3 DEF Continues, Orderly
  <2> DEFINE p == Sent(phone.network, "psk")
  <2>2. buffer["ssid"] = phone.network /\ p \in {phone.network, None}
    BY <2>1 DEF Orderly, Sent
  <2>3. buffer' = [buffer EXCEPT !["psk"] = p]
    BY <2>1 DEF Write
  <2>4. buffer'["psk"] = p /\ buffer'["ssid"] = buffer["ssid"] /\ buffer' \in Pair
    BY <2>2, <2>3 DEF Shapes, Pair, Halves
  <2>5. copying' = IF buffer'["ssid"] = None \/ buffer'["psk"] = None THEN {} ELSE Halves
    BY <2>1 DEF Write, Halves
  <2>6. phone'.rest = {}
    BY <2>1 DEF Orderly
  <2>. QED BY <1>1, <2>2, <2>4, <2>5, <2>6 DEF Shapes, Orderly, StoredIsPair, Halves
<1>. QED BY <1>2, <1>3

\* incoming_data_callback copies a half.
LEMMA CopyStep ==
    ASSUME PairInv, NEW h \in Halves, Copy(h) PROVE PairInv'
<1>. USE DEF PairInv
<1>1. /\ h \in copying /\ creds' = [creds EXCEPT ![h] = buffer[h]]
      /\ copying' = copying \ {h}
      /\ UNCHANGED <<phone, manager, taken, stored>>
  BY DEF Copy
<1>2. /\ manager = "asking" /\ posted = 0 /\ phone.rest = {}
      /\ buffer["ssid"] = buffer["psk"] /\ buffer["ssid"] # None
      /\ \A g \in Halves \ copying : creds[g] = buffer[g]
  BY <1>1 DEF Orderly
<1>3. creds' \in Pair /\ \A g \in Halves \ copying' : creds'[g] = buffer[g]
  BY <1>1, <1>2 DEF Shapes, Pair
<1>4. CASE copying = {h}
  <2>1. copying' = {} /\ posted' = 1 /\ buffer' = Blank
    BY <1>1, <1>2, <1>4 DEF Copy, Clear
  <2>2. creds'["ssid"] = creds'["psk"] /\ creds'["ssid"] # None
    BY <1>2, <1>3, <2>1 DEF Halves
  <2>3. buffer' \in Pair /\ buffer'["psk"] = None
    BY <2>1 DEF Blank, Pair, Halves
  <2>4. Shapes' /\ StoredIsPair'
    BY <1>1, <1>3, <2>1, <2>3 DEF Shapes, StoredIsPair
  <2>. QED BY <1>1, <1>2, <2>1, <2>2, <2>3, <2>4 DEF Orderly
<1>5. CASE copying # {h}
  <2>1. copying' # {} /\ UNCHANGED <<posted, buffer>>
    BY <1>1, <1>5 DEF Copy
  <2>. QED BY <1>1, <1>2, <1>3, <2>1 DEF Shapes, Orderly, StoredIsPair
<1>. QED BY <1>4, <1>5

\* A step of the dispatcher.
LEMMA ManagerStep ==
    ASSUME PairInv, Receive \/ ReadName \/ Store \/ Ends PROVE PairInv'
<1>. USE DEF PairInv
<1>1. CASE Receive
  <2>1. posted' = 0 /\ posted = 1 /\ copying = {}
    BY <1>1 DEF Receive, Orderly
  <2>. QED BY <1>1, <2>1 DEF Receive, phoneVars, Shapes, Orderly, StoredIsPair
<1>2. CASE ReadName
  <2>1. manager = "storing" /\ copying = {} /\ creds["ssid"] \in Network
    BY <1>2 DEF ReadName, Orderly, Shapes, Pair, Halves
  <2>. QED BY <1>2, <2>1 DEF ReadName, phoneVars, Shapes, Orderly, StoredIsPair
<1>3. CASE Store
  <2>1. /\ manager = "storing" /\ copying = {} /\ posted = 0
        /\ taken \in Network /\ creds["psk"] = taken
    BY <1>3, NetworkAssumption DEF Store, Orderly, Shapes
  <2>2. stored' \in [Network -> Network \cup {None}] /\ StoredIsPair'
    BY <1>3, <2>1 DEF Store, Shapes, StoredIsPair
  <2>. QED BY <1>3, <2>1, <2>2 DEF Store, phoneVars, Shapes, Orderly
<1>4. CASE Ends
  BY <1>4 DEF Ends, phoneVars, Shapes, Orderly, StoredIsPair
<1>. QED BY <1>1, <1>2, <1>3, <1>4

(***************************************************************************)
(* Phones that write the name first and only while the device asks never   *)
(* make it store a name with the password of another network               *)
(* (BluetoothLE::data_check, Provisioning::write_credentials).             *)
(***************************************************************************)
THEOREM OwnPassword == ASSUME OrderlyPhones PROVE Spec => []StoredIsPair
<1>1. Init => PairInv
  <2> SUFFICES ASSUME Init PROVE PairInv
    OBVIOUS
  <2>1. buffer = Blank /\ creds = Blank /\ Blank \in Pair
    BY DEF Init, Blank, Pair
  <2>. QED BY <2>1 DEF Init, Blank, Halves, PairInv, Shapes, Orderly, StoredIsPair
<1>2. PairInv /\ [Next]_vars => PairInv'
  <2> SUFFICES ASSUME PairInv, [Next]_vars PROVE PairInv'
    OBVIOUS
  <2>1. CASE UNCHANGED vars
    BY <2>1 DEF vars, phoneVars, PairInv, Shapes, Orderly, StoredIsPair
  <2>. QED BY OrderlyPhones, <2>1, WriteStep, CopyStep, ManagerStep DEF Next
<1>3. PairInv => StoredIsPair
  BY DEF PairInv
<1>. QED BY <1>1, <1>2, <1>3, PTL DEF Spec

-----------------------------------------------------------------------------
(***************************************************************************)
(* The types, for every phone.  Two of them count: an entry is written     *)
(* where there is a free one, or over the name's own; and a submission     *)
(* that is being copied began when the queue had room for its event.       *)
(***************************************************************************)
Named(s) == {n \in Network : s[n] # None}

PhoneOK   == phone \in [network : Network \cup {None}, rest : SUBSET Halves]
BufferOK  == buffer \in Pair /\ creds \in Pair /\ copying \subseteq Halves
QueueOK   == /\ posted \in 0 .. 1 + Cardinality(Network)
             /\ copying # {} => posted <= Cardinality(Network)
ManagerOK == /\ manager \in {"asking", "storing", "trying", "online"}
             /\ taken \in Network \cup {None}
StoredOK  == /\ stored \in [Network -> Network \cup {None}]
             /\ Cardinality(Named(stored)) <= Entries

TypeInv == PhoneOK /\ BufferOK /\ QueueOK /\ ManagerOK /\ StoredOK

\* The names that have an entry are finitely many.
LEMMA NamedIsFinite ==
    ASSUME NEW s PROVE IsFiniteSet(Named(s)) /\ Cardinality(Named(s)) \in Nat
<1>1. Named(s) \subseteq Network
  BY DEF Named
<1>. QED BY <1>1, NetworkAssumption, FS_Subset, FS_CardinalityType

\* The library keeps to its entries: it writes over the name's own, or a free one.
LEMMA EntryIsFree ==
    ASSUME StoredOK, NEW n \in Network, NEW p \in Network \cup {None},
           stored[n] # None \/ Cardinality(Named(stored)) < Entries,
           stored' = [stored EXCEPT ![n] = p]
    PROVE  StoredOK'
<1>1. stored' \in [Network -> Network \cup {None}]
  BY DEF StoredOK
<1>2. Named(stored') \subseteq Named(stored) \cup {n}
  BY DEF StoredOK, Named
<1>3. /\ IsFiniteSet(Named(stored)) /\ Cardinality(Named(stored)) \in Nat
      /\ Cardinality(Named(stored)) <= Entries /\ Entries \in Nat
  BY NamedIsFinite, EntriesAssumption DEF StoredOK
<1>4. /\ IsFiniteSet(Named(stored) \cup {n})
      /\ Cardinality(Named(stored) \cup {n}) =
            IF n \in Named(stored) THEN Cardinality(Named(stored))
                                   ELSE Cardinality(Named(stored)) + 1
  BY <1>3, FS_AddElement
<1>5. Cardinality(Named(stored) \cup {n}) <= Entries
  <2>1. CASE n \in Named(stored)
    BY <1>3, <1>4, <2>1
  <2>2. CASE n \notin Named(stored)
    <3>1. Cardinality(Named(stored)) < Entries
      BY <2>2 DEF Named
    <3>. QED BY <1>3, <1>4, <2>2, <3>1
  <2>. QED BY <2>1, <2>2
<1>6. Cardinality(Named(stored')) <= Cardinality(Named(stored) \cup {n})
  BY <1>2, <1>4, FS_Subset
<1>7. Cardinality(Named(stored')) <= Entries
  <2>1. /\ Cardinality(Named(stored')) \in Nat
        /\ Cardinality(Named(stored) \cup {n}) \in Nat
    BY <1>4, NamedIsFinite, FS_CardinalityType
  <2>. QED BY <1>3, <1>5, <1>6, <2>1
<1>. QED BY <1>1, <1>7 DEF StoredOK

\* A half that is written: what it sets off is copied only if there is room for it.
LEMMA WriteTypes ==
    ASSUME TypeInv, MayWrite, NEW n \in Network \cup {None}, NEW h \in Halves,
           Write(n, h)
    PROVE  BufferOK' /\ QueueOK' /\ ManagerOK' /\ StoredOK'
<1>. USE DEF TypeInv
<1>1. Sent(n, h) \in Network \cup {None}
  BY DEF Sent
<1>2. BufferOK'
  BY <1>1 DEF Write, BufferOK, Pair
<1>3. Cardinality(Network) \in Nat
  BY NetworkAssumption, FS_CardinalityType
<1>4. QueueOK'
  BY <1>3 DEF MayWrite, Write, QueueOK
<1>. QED BY <1>2, <1>4 DEF Write, ManagerOK, StoredOK

LEMMA PhoneTypes == ASSUME TypeInv, Begins \/ Continues PROVE TypeInv'
<1>1. CASE Begins
  <2> PICK n \in Network, h \in First :
           Write(n, h) /\ phone' = [network |-> n, rest |-> Halves \ {h}]
    BY <1>1 DEF Begins
  <2>1. h \in Halves /\ PhoneOK'
    BY PhoneAssumption DEF PhoneOK
  <2>. QED BY <1>1, <2>1, WriteTypes DEF Begins, TypeInv
<1>2. CASE Continues
  <2> PICK h \in phone.rest : /\ Write(phone.network, h)
                              /\ phone' = [phone EXCEPT !.rest = @ \ {h}]
    BY <1>2 DEF Continues
  <2>1. h \in Halves /\ phone.network \in Network \cup {None} /\ PhoneOK'
    BY DEF TypeInv, PhoneOK
  <2>. QED BY <1>2, <2>1, WriteTypes DEF Continues, TypeInv
<1>. QED BY <1>1, <1>2

LEMMA CopyTypes == ASSUME TypeInv, NEW h \in Halves, Copy(h) PROVE TypeInv'
<1>. USE DEF TypeInv
<1>1. Cardinality(Network) \in Nat
  BY NetworkAssumption, FS_CardinalityType
<1>2. QueueOK'
  BY <1>1 DEF Copy, QueueOK
<1>3. BufferOK'
  <2>1. Blank \in Pair
    BY DEF Blank, Pair
  <2>. QED BY <2>1 DEF Copy, Clear, BufferOK, Pair
<1>. QED BY <1>2, <1>3 DEF Copy, PhoneOK, ManagerOK, StoredOK

LEMMA DispatcherTypes ==
    ASSUME TypeInv, Receive \/ ReadName \/ Store \/ Ends PROVE TypeInv'
<1>. USE DEF TypeInv
<1>1. PhoneOK' /\ BufferOK'
  BY DEF Receive, ReadName, Store, Ends, phoneVars, PhoneOK, BufferOK
<1>2. QueueOK'
  <2>1. Cardinality(Network) \in Nat
    BY NetworkAssumption, FS_CardinalityType
  <2>. QED BY <2>1 DEF Receive, ReadName, Store, Ends, phoneVars, QueueOK
<1>3. ManagerOK'
  <2>1. creds["ssid"] \in Network \cup {None}
    BY DEF BufferOK, Pair, Halves
  <2>. QED BY <2>1 DEF Receive, ReadName, Store, Ends, ManagerOK
<1>4. StoredOK'
  <2>1. CASE stored' = stored
    BY <2>1 DEF StoredOK
  <2>2. CASE Store /\ HasEntry /\ stored' = [stored EXCEPT ![taken] = creds["psk"]]
    <3>1. taken \in Network /\ creds["psk"] \in Network \cup {None}
      BY <2>2 DEF Store, ManagerOK, BufferOK, Pair, Halves
    <3>2. stored[taken] # None \/ Cardinality(Named(stored)) < Entries
      BY <2>2 DEF HasEntry, Used, Named
    <3>. QED BY <2>2, <3>1, <3>2, EntryIsFree
  <2>. QED BY <2>1, <2>2 DEF Receive, ReadName, Store, Ends
<1>. QED BY <1>1, <1>2, <1>3, <1>4

\* Credentials keeps its types for every phone, also one that writes the password
\* first or when it is not asked: no more names are stored than there are entries,
\* and no more submissions wait than there is room for.
THEOREM TypeCorrect == Spec => []TypeOK
<1>1. Init => TypeInv
  <2> SUFFICES ASSUME Init PROVE TypeInv
    OBVIOUS
  <2>1. Cardinality(Network) \in Nat
    BY NetworkAssumption, FS_CardinalityType
  <2>2. Named(stored) = {}
    BY DEF Init, Named
  <2>3. StoredOK
    BY <2>2, FS_EmptySet, EntriesAssumption DEF Init, StoredOK
  <2>4. PhoneOK /\ BufferOK
    BY DEF Init, PhoneOK, BufferOK, Blank, Pair
  <2>5. QueueOK /\ ManagerOK
    BY <2>1 DEF Init, QueueOK, ManagerOK
  <2>. QED BY <2>3, <2>4, <2>5 DEF TypeInv
<1>2. TypeInv /\ [Next]_vars => TypeInv'
  <2> SUFFICES ASSUME TypeInv, [Next]_vars PROVE TypeInv'
    OBVIOUS
  <2>1. CASE UNCHANGED vars
    BY <2>1 DEF vars, phoneVars, TypeInv, PhoneOK, BufferOK, QueueOK, ManagerOK,
                StoredOK
  <2>. QED BY <2>1, PhoneTypes, CopyTypes, DispatcherTypes DEF Next
<1>3. TypeInv => TypeOK
  BY DEF TypeInv, TypeOK, PhoneOK, BufferOK, QueueOK, ManagerOK, StoredOK, Named
<1>. QED BY <1>1, <1>2, <1>3, PTL DEF Spec
================================================================================
