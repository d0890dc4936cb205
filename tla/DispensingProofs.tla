--------------------------- MODULE DispensingProofs ---------------------------
(***************************************************************************)
(* Proofs about Dispensing, for all amounts, left-overs of the stack and   *)
(* capacities of the queue: its types, and that the motor rests disabled.  *)
(***************************************************************************)
EXTENDS Dispensing, TLAPS

\* TypeOK in parts: the queue and the dispatcher, the motor, the listeners.
QueueOK == /\ queue \in Seq(Messages) /\ Len(queue) <= QueueCap
           /\ evt \in Messages \cup {Nothing} /\ told \in 0 .. 3
           /\ slot \in Amounts \cup Leftovers
MotorOK == moving \subseteq Threads /\ left \in [Threads -> Int] /\ enable \in {0, 1}
ToldOK  == /\ update \in BOOLEAN /\ sensor \in BOOLEAN
           /\ clock \in [online : BOOLEAN, timer : BOOLEAN]

LEMMA Parts == TypeOK <=> QueueOK /\ MotorOK /\ ToldOK
BY DEF TypeOK, QueueOK, MotorOK, ToldOK

\* RestsDisabled is inductive with the motor's types.
DispensingInv == QueueOK /\ MotorOK /\ ToldOK /\ RestsDisabled

-----------------------------------------------------------------------------
\* Posting keeps the queue within its capacity.
LEMMA PutType ==
    ASSUME queue \in Seq(Messages), Len(queue) <= QueueCap, NEW e \in Messages, Put(e)
    PROVE  queue' \in Seq(Messages) /\ Len(queue') <= QueueCap
<1>. USE CapAssumption DEF Put
<1>1. CASE Len(queue) < QueueCap
  BY <1>1
<1>2. CASE ~(Len(queue) < QueueCap)
  BY <1>2
<1>. QED BY <1>1, <1>2

\* A feeding that begins drives the motor, which is then turned by somebody.
LEMMA BeginsType ==
    ASSUME MotorOK, NEW t \in Threads, NEW a \in Int, Begins(t, a)
    PROVE  MotorOK' /\ RestsDisabled'
BY DEF MotorOK, Begins, RestsDisabled

\* Whoever turns it toggles its pin, and the end disables it.
LEMMA MoveType ==
    ASSUME MotorOK, RestsDisabled, NEW t \in Threads, Move(t)
    PROVE  MotorOK' /\ RestsDisabled'
<1>1. CASE Toggle(t)
  BY <1>1 DEF Toggle, MotorOK, RestsDisabled
<1>2. CASE Finishes(t)
  BY <1>2 DEF Finishes, MotorOK, RestsDisabled
<1>. QED BY <1>1, <1>2 DEF Move

\* What is read through the event's pointer is a number.
LEMMA SlotType == ASSUME QueueOK PROVE slot \in Int
BY AmountsAssumption DEF QueueOK

-----------------------------------------------------------------------------
\* The dispatcher takes an event, and tells it to one listener after the other.
LEMMA GetEventStep == ASSUME DispensingInv, GetEvent PROVE DispensingInv'
<1>1. Head(queue) \in Messages /\ Tail(queue) \in Seq(Messages)
      /\ Len(Tail(queue)) <= QueueCap
  BY CapAssumption DEF DispensingInv, QueueOK, GetEvent
<1>2. QueueOK'
  BY <1>1 DEF DispensingInv, QueueOK, GetEvent
<1>3. MotorOK' /\ ToldOK' /\ RestsDisabled'
  BY DEF DispensingInv, GetEvent, motorVars, toldVars, MotorOK, ToldOK, RestsDisabled
<1>. QED BY <1>2, <1>3 DEF DispensingInv

LEMMA NotifyStep == ASSUME DispensingInv, Notify PROVE DispensingInv'
<1>1. QueueOK'
  BY DEF DispensingInv, QueueOK, Notify, ListenersLeft, Mask
<1>2. ToldOK'
  <2>1. UpdateSensor \in BOOLEAN
    BY DEF DispensingInv, ToldOK, UpdateSensor
  <2>2. UpdateClock \in [online : BOOLEAN, timer : BOOLEAN]
    BY DEF DispensingInv, ToldOK, UpdateClock
  <2>3. sensor' \in BOOLEAN /\ clock' \in [online : BOOLEAN, timer : BOOLEAN]
    BY <2>1, <2>2 DEF DispensingInv, ToldOK, Notify
  <2>4. update' \in BOOLEAN
    BY DEF Notify
  <2>. QED BY <2>3, <2>4 DEF ToldOK
<1>3. MotorOK' /\ RestsDisabled'
  <2>1. CASE Feeds
    BY <2>1, SlotType, BeginsType DEF DispensingInv, Notify, Threads
  <2>2. CASE ~Feeds
    BY <2>2 DEF DispensingInv, Notify, motorVars, MotorOK, RestsDisabled
  <2>. QED BY <2>1, <2>2
<1>. QED BY <1>1, <1>2, <1>3 DEF DispensingInv

\* The application's thread feeds, and loads its rules.
LEMMA AppStep == ASSUME DispensingInv, RuleIsDue \/ Reload PROVE DispensingInv'
<1>1. CASE RuleIsDue
  <2>1. MotorOK' /\ RestsDisabled'
    BY <1>1, AmountsAssumption, BeginsType DEF DispensingInv, RuleIsDue, Threads
  <2>2. QueueOK' /\ ToldOK'
    BY <1>1 DEF DispensingInv, RuleIsDue, toldVars, QueueOK, ToldOK
  <2>. QED BY <2>1, <2>2 DEF DispensingInv
<1>2. CASE Reload
  BY <1>2 DEF DispensingInv, Reload, motorVars, QueueOK, MotorOK, ToldOK, RestsDisabled
<1>. QED BY <1>1, <1>2

\* Events are posted, and the stack they may point to changes.
LEMMA PostStep == ASSUME DispensingInv, Post \/ FeedTopic \/ StackReused PROVE DispensingInv'
<1>1. MotorOK' /\ ToldOK' /\ RestsDisabled'
  BY DEF DispensingInv, Post, FeedTopic, StackReused, motorVars, toldVars, MotorOK,
         ToldOK, RestsDisabled
<1>2. QueueOK'
  <2>1. CASE Post
    BY <2>1, PutType DEF DispensingInv, Post, QueueOK, Messages
  <2>2. CASE FeedTopic
    <3> PICK m \in FeedNow : Put(m) /\ slot' = m.asked
      BY <2>2 DEF FeedTopic
    <3>1. slot' \in Amounts
      BY DEF FeedNow
    <3>. QED BY <2>2, <3>1, PutType DEF DispensingInv, FeedTopic, QueueOK, Messages
  <2>3. CASE StackReused
    BY <2>3 DEF DispensingInv, StackReused, QueueOK
  <2>. QED BY <2>1, <2>2, <2>3
<1>. QED BY <1>1, <1>2 DEF DispensingInv

\* The motor turns.
LEMMA MotorStep == ASSUME DispensingInv, NEW t \in Threads, Move(t) PROVE DispensingInv'
<1>1. MotorOK' /\ RestsDisabled'
  BY MoveType DEF DispensingInv
<1>2. QueueOK' /\ ToldOK'
  BY DEF DispensingInv, Move, Toggle, Finishes, toldVars, QueueOK, ToldOK
<1>. QED BY <1>1, <1>2 DEF DispensingInv

-----------------------------------------------------------------------------
\* The invariant holds of every behaviour.
THEOREM DispensingInvariant == Spec => []DispensingInv
<1>1. Init => DispensingInv
  <2> SUFFICES ASSUME Init PROVE DispensingInv
    OBVIOUS
  <2>1. <<>> \in Seq(Messages) /\ Len(<<>>) <= QueueCap
    BY CapAssumption
  <2>2. QueueOK
    BY <2>1 DEF Init, QueueOK
  <2>3. MotorOK /\ RestsDisabled
    BY DEF Init, MotorOK, RestsDisabled
  <2>4. ToldOK
    BY DEF Init, ToldOK
  <2>. QED BY <2>2, <2>3, <2>4 DEF DispensingInv
<1>2. DispensingInv /\ [Next]_vars => DispensingInv'
  <2> SUFFICES ASSUME DispensingInv, [Next]_vars PROVE DispensingInv'
    OBVIOUS
  <2>1. CASE UNCHANGED vars
    BY <2>1 DEF DispensingInv, vars, motorVars, toldVars, QueueOK, MotorOK, ToldOK,
                RestsDisabled
  <2>. QED BY <2>1, GetEventStep, NotifyStep, AppStep, PostStep, MotorStep DEF Next
<1>. QED BY <1>1, <1>2, PTL DEF Spec

\* Queue, listeners and motor keep their types, also when a pointer to the stack
\* of a handler that has returned is read.
THEOREM TypeCorrect == Spec => []TypeOK
<1>1. DispensingInv => TypeOK
  BY Parts DEF DispensingInv
<1>. QED BY <1>1, DispensingInvariant, PTL

\* The motor is disabled whenever neither thread is in move_for.
THEOREM MotorRests == Spec => []RestsDisabled
<1>1. DispensingInv => RestsDisabled
  BY DEF DispensingInv
<1>. QED BY <1>1, DispensingInvariant, PTL
===============================================================================
