----------------------- MODULE BatteryManager_proofs -----------------------
(***************************************************************************)
(* Proofs about the battery manager process, for any number of batteries,  *)
(* any readings of them and any length of the queue.                       *)
(***************************************************************************)
EXTENDS BatteryManager, SequenceTheorems, TLAPS

\* A sequence without its last element.
LEMMA FrontFact ==
  ASSUME NEW S, NEW s \in Seq(S), s # <<>>
  PROVE  /\ Len(s) \in Nat \ {0} /\ Last(s) = s[Len(s)] /\ Last(s) \in S
         /\ Front(s) \in Seq(S) /\ Len(Front(s)) = Len(s) - 1
         /\ \A i \in 1..Len(s)-1 : Front(s)[i] = s[i]
<1>1. Len(s) \in Nat /\ Len(s) # 0 /\ \A j \in 1..Len(s) : s[j] \in S
  BY EmptySeq
<1>2. Len(s) \in 1..Len(s)  BY <1>1
<1>3. /\ SubSeq(s, 1, Len(s)-1) \in Seq(S)
      /\ Len(SubSeq(s, 1, Len(s)-1)) = Len(s)-1
      /\ \A j \in 1..Len(s)-1 : SubSeq(s, 1, Len(s)-1)[j] = s[j]
  <2> DEFINE n == Len(s) - 1
  <2>1. n \in Nat /\ n-1+1 = n  BY <1>1
  <2>2. \A j \in 1..n : s[j] \in S /\ 1+j-1 = j
    BY <1>1
  <2> HIDE DEF n
  <2>3. 1 \in Int /\ n \in Int  BY <2>1
  <2>4. /\ SubSeq(s, 1, n) \in Seq(S)
        /\ Len(SubSeq(s, 1, n)) = IF 1 <= n THEN n-1+1 ELSE 0
        /\ \A j \in 1..n-1+1 : SubSeq(s, 1, n)[j] = s[1+j-1]
    BY <2>2, <2>3, SubSeqProperties
  <2>5. /\ SubSeq(s, 1, n) \in Seq(S) /\ Len(SubSeq(s, 1, n)) = n
        /\ \A j \in 1..n : SubSeq(s, 1, n)[j] = s[j]
    BY <2>1, <2>2, <2>4
  <2>6. QED  BY <2>5 DEF n
<1>4. QED  BY <1>1, <1>2, <1>3 DEF Front, Last

(***************************************************************************)
(* Part 1: what setChargerStatus makes of the status of a battery.         *)
(***************************************************************************)
USE DEF MINIMUM_CHARGE_CHARGING_PERMITTED, MINIMUM_CHARGE_CHARGING_NOT_PERMITTED,
        FULL_CHARGE, CHARGE_HYSTERESIS, MAXIMUM_TEMPERATURE_C,
        TEMPERATURE_BROKEN_C, TEMPERATURE_HYSTERESIS_C

\* Every module's invariants look at a status in these ways only.
Hot(s) == s.overTemperature \/ s.temperatureBroken

LEMMA DataFact ==
  ASSUME NEW d \in Data
  PROVE  d.capacity \in Nat /\ d.temperature \in Int
<1>1. d.capacity \in Capacity \cup {0} /\ d.temperature \in Temperature \cup {0}
  BY DEF Data
<1>2. Capacity \subseteq Nat /\ Temperature \subseteq Int
  BY BatteryManagerAssumption, Zenon
<1>3. \A c \in Capacity \cup {0} : c \in Nat BY <1>2
<1>4. \A t \in Temperature \cup {0} : t \in Int BY <1>2
<1> QED BY <1>1, <1>3, <1>4

LEMMA StatusTyped ==
  ASSUME NEW s \in Status, NEW d \in Data
  PROVE  LET t == ChargerStatus(s, d)
         IN  /\ t \in Status
             /\ t.chargerOn <=>
                  /\ ~GetsHot(s, d) /\ ~GetsBroken(s, d) /\ ~GetsFull(s, d)
                  /\ (s.chargerOn \/ GetsLow(s, d))
             /\ t.fullyCharged <=> (s.fullyCharged \/ GetsFull(s, d))
             /\ t.insufficientCharge <=>
                  (~LeavesLow(s, d) /\ (s.insufficientCharge \/ GetsLow(s, d)))
             /\ t.overTemperature <=>
                  (~CoolsDown(s, d) /\ (s.overTemperature \/ GetsHot(s, d)))
             /\ t.temperatureBroken <=>
                  (~Mends(s, d) /\ (s.temperatureBroken \/ GetsBroken(s, d)))
<1>1. /\ s.fullyCharged \in BOOLEAN /\ s.insufficientCharge \in BOOLEAN
      /\ s.chargerOn \in BOOLEAN /\ s.overTemperature \in BOOLEAN
      /\ s.temperatureBroken \in BOOLEAN
  BY DEF Status
<1>2. /\ (s.fullyCharged \/ GetsFull(s, d)) \in BOOLEAN
      /\ (~LeavesLow(s, d) /\ (s.insufficientCharge \/ GetsLow(s, d))) \in BOOLEAN
      /\ (/\ ~GetsHot(s, d) /\ ~GetsBroken(s, d) /\ ~GetsFull(s, d)
          /\ (s.chargerOn \/ GetsLow(s, d))) \in BOOLEAN
      /\ (~CoolsDown(s, d) /\ (s.overTemperature \/ GetsHot(s, d))) \in BOOLEAN
      /\ (~Mends(s, d) /\ (s.temperatureBroken \/ GetsBroken(s, d))) \in BOOLEAN
  BY <1>1, Zenon
<1>3. ChargerStatus(s, d) \in Status
  BY <1>2 DEF ChargerStatus, Status
<1> QED BY <1>3 DEF ChargerStatus

\* A charger goes on, and stays on, only for a battery that is neither hot
\* nor broken.
LEMMA HotFact ==
  ASSUME NEW s \in Status, NEW d \in Data, Hot(s) => ~s.chargerOn
  PROVE  Hot(ChargerStatus(s, d)) => ~ChargerStatus(s, d).chargerOn
BY StatusTyped DEF Hot, GetsLow, Sound

\* The charger of a battery that was full when last looked at is off.
LEMMA FullFact ==
  ASSUME NEW s \in Status, NEW d \in Data, threshold \in {1800, 2000},
         Hot(s) => ~s.chargerOn,
         s.fullyCharged => ~s.chargerOn,
         ChargerStatus(s, d).chargerOn
  PROVE  /\ d.capacity <= FULL_CHARGE
         /\ LeavesFull(s, d) \/ ~ChargerStatus(s, d).fullyCharged
<1>1. Sound(s, d)
  BY StatusTyped DEF Hot, GetsLow, Sound
<1>2. d.capacity \in Nat BY DataFact
<1>3. ~GetsFull(s, d) /\ (s.chargerOn \/ GetsLow(s, d))
  BY StatusTyped
<1>4. ChargerStatus(s, d).fullyCharged = s.fullyCharged
  BY <1>3, StatusTyped DEF Status
<1>5. CASE s.chargerOn
  BY <1>1, <1>2, <1>3, <1>4, <1>5 DEF GetsFull
<1>6. CASE GetsLow(s, d)
  BY <1>1, <1>2, <1>4, <1>6 DEF GetsLow, LeavesFull
<1> QED BY <1>3, <1>5, <1>6

\* A charger that goes off although its battery stays low went off for a
\* fault of the temperature.
LEMMA LowFact ==
  ASSUME NEW s \in Status, NEW d \in Data, threshold \in {1800, 2000},
         s.insufficientCharge, s.chargerOn,
         ChargerStatus(s, d).insufficientCharge, ~ChargerStatus(s, d).chargerOn
  PROVE  Hot(ChargerStatus(s, d))
<1>1. d.capacity \in Nat BY DataFact
<1>2. GetsHot(s, d) \/ GetsBroken(s, d) \/ GetsFull(s, d)
  BY StatusTyped
<1>3. ~LeavesLow(s, d)
  BY StatusTyped
<1>4. ~GetsFull(s, d)
  BY <1>1, <1>3 DEF GetsFull, LeavesLow
<1>5. CASE GetsHot(s, d)
  <2>1. ~CoolsDown(s, d) BY <1>5 DEF GetsHot, CoolsDown
  <2> QED BY <1>5, <2>1, StatusTyped DEF Hot
<1>6. CASE GetsBroken(s, d)
  <2>1. ~Mends(s, d) BY <1>6 DEF GetsBroken, Mends
  <2> QED BY <1>6, <2>1, StatusTyped DEF Hot
<1> QED BY <1>2, <1>4, <1>5, <1>6

\* s and t agree but for the full flag.
Alike(s, t) ==
  /\ s.chargerOn <=> t.chargerOn
  /\ s.insufficientCharge <=> t.insufficientCharge
  /\ s.overTemperature <=> t.overTemperature
  /\ s.temperatureBroken <=> t.temperatureBroken

\* setChargerStatus changes the status of its battery, and the flag of Rio.
LEMMA SetStatusFact ==
  ASSUME NEW b \in Battery, NEW d \in Data, Rio \in Battery,
         status \in [Battery -> Status], SetStatus(b, d)
  PROVE  /\ status' \in [Battery -> Status]
         /\ Alike(status'[b], ChargerStatus(status[b], d))
         /\ \A c \in Battery : c # b => Alike(status'[c], status[c])
         /\ status'[Rio].fullyCharged =>
              /\ ~LeavesFull(status[b], d)
              /\ b = Rio => ChargerStatus(status[b], d).fullyCharged
              /\ b # Rio => status[Rio].fullyCharged
<1> DEFINE t == [status EXCEPT ![b] = ChargerStatus(status[b], d)]
<1>1. ChargerStatus(status[b], d) \in Status BY StatusTyped
<1>2. /\ t \in [Battery -> Status]
      /\ t[b] = ChargerStatus(status[b], d)
      /\ \A c \in Battery : c # b => t[c] = status[c]
  BY <1>1
<1>3. status' = IF LeavesFull(status[b], d)
                THEN [t EXCEPT ![Rio].fullyCharged = FALSE] ELSE t
  BY DEF SetStatus
<1> HIDE DEF t
<1>4. \A s \in Status : /\ [s EXCEPT !.fullyCharged = FALSE] \in Status
                        /\ ~[s EXCEPT !.fullyCharged = FALSE].fullyCharged
                        /\ Alike([s EXCEPT !.fullyCharged = FALSE], s)
  BY DEF Status, Alike
<1>5. CASE ~LeavesFull(status[b], d)
  <2>1. status' = t BY <1>3, <1>5
  <2> QED BY <1>2, <1>5, <2>1 DEF Alike
<1>6. CASE LeavesFull(status[b], d)
  <2>1. /\ status'[Rio] = [t[Rio] EXCEPT !.fullyCharged = FALSE]
        /\ \A c \in Battery : c # Rio => status'[c] = t[c]
        /\ status' \in [Battery -> Status]
    BY <1>2, <1>3, <1>4, <1>6
  <2>2. \A c \in Battery : t[c] \in Status /\ Alike(t[c], t[c])
    BY <1>2 DEF Alike
  <2>3. \A c \in Battery : Alike(status'[c], t[c])
    BY <1>4, <2>1, <2>2
  <2>4. ~status'[Rio].fullyCharged
    BY <1>4, <2>1, <2>2
  <2> QED BY <1>2, <2>1, <2>3, <2>4
<1> QED BY <1>5, <1>6

(***************************************************************************)
(* Part 2: the inductive invariant, in four parts.                         *)
(***************************************************************************)
LoopInv ==
  /\ pc \in Pc /\ at \in 1..Len(Order)
  /\ force \in BOOLEAN /\ permitted \in BOOLEAN
  /\ threshold \in {1800, 2000}
  /\ allFull \in BOOLEAN /\ allLow \in BOOLEAN
  /\ event \in Seq(Event)

\* A battery of the Pi and the RIO whose full flag is set has its charger
\* off: RioOffWhenFull depends on the flag, which is what the code looks at.
StatusInv ==
  /\ data \in [Battery -> Data] /\ status \in [Battery -> Status]
  /\ NeverChargeHot
  /\ status[Rio].fullyCharged => ~status[Rio].chargerOn
  /\ RioOffWhenFull

\* The expiry of the offset timer is two seconds after the last message.
QueueInv ==
  /\ q \in Seq(Message) /\ Len(q) <= MaxQ
  /\ running \in BOOLEAN /\ timer \in {"none", "running", "elapsed"}
  /\ charger \in [Battery -> BOOLEAN] /\ settled \in BOOLEAN
  /\ crossed \in SUBSET Battery
  /\ QueueHasTimer
  /\ timer = "elapsed" => settled
  /\ pc = "launched" => ~running

\* The hardware server has been told, or will be told last, that the charger
\* of b is to be v.
Said(b, v) ==
  /\ \A i \in 1..Len(q) : q[i].battery = b => q[i].on = v
  /\ (\E i \in 1..Len(q) : q[i].battery = b) \/ charger[b] = v

Sure(b, v) == b \in crossed \/ Said(b, v)

\* The handler of the permission has been at b.
Told(b) == \E i \in 1..at-1 : Order[i] = b

RelayInv ==
  /\ pc = "launched" =>
        ~permitted /\ \A b \in Battery : ~status[b].chargerOn /\ ~charger[b]
  /\ pc \in {"accept", "signal"} => \A b \in Battery : Sure(b, Wanted(b))
  /\ pc = "off" =>
        permitted /\ ~force /\ \A b \in Battery : Told(b) => Sure(b, FALSE)
  /\ pc = "set" =>
        /\ force => permitted
        /\ \A b \in Battery : (force => Told(b)) => Sure(b, Wanted(b))

IInv == LoopInv /\ StatusInv /\ QueueInv /\ RelayInv

LEMMA OrderFact ==
  /\ Order \in Seq(Battery) /\ Len(Order) \in Nat \ {0}
  /\ \A i \in 1..Len(Order) : Order[i] \in Battery
  /\ \A b \in Battery : \E i \in 1..Len(Order) : Order[i] = b
  /\ Rio \in Battery /\ MaxQ \in Nat
<1>1. /\ Order \in Seq(Battery) /\ Order # <<>> /\ Rio = Order[1] /\ MaxQ \in Nat
  BY BatteryManagerAssumption, Zenon
<1>2. Len(Order) \in Nat \ {0}
  BY <1>1, EmptySeq
<1>3. \A b \in Battery : \E i \in 1..Len(Order) : Order[i] = b
  BY <1>1 DEF Battery, ToSet
<1> QED BY <1>1, <1>2, <1>3

LEMMA ZeroTyped == ZeroData \in Data /\ ZeroStatus \in Status
BY DEF ZeroData, Data, ZeroStatus, Status

LEMMA InitInv == Init => IInv
<1> SUFFICES ASSUME Init PROVE IInv OBVIOUS
<1>1. LoopInv
  <2>1. <<>> \in Seq(Event) BY EmptySeq
  <2>2. 1 \in 1..Len(Order) BY OrderFact
  <2> QED BY <2>1, <2>2 DEF Init, LoopInv, Pc
<1>2. StatusInv
  BY OrderFact, ZeroTyped DEF Init, StatusInv, NeverChargeHot, RioOffWhenFull, ZeroStatus, ZeroData
<1>3. QueueInv
  <2>1. <<>> \in Seq(Message) /\ Len(<<>>) = 0 BY EmptySeq
  <2>2. 0 <= MaxQ BY OrderFact
  <2> QED BY <2>1, <2>2 DEF Init, QueueInv, QueueHasTimer
<1>4. RelayInv
  BY DEF Init, RelayInv, ZeroStatus
<1> QED BY <1>1, <1>2, <1>3, <1>4 DEF IInv

(***************************************************************************)
(* The status of the batteries.                                            *)
(***************************************************************************)
LEMMA SetStatusKeeps ==
  ASSUME StatusInv, threshold \in {1800, 2000}, NEW b \in Battery, NEW d \in Data,
         SetStatus(b, d), data' \in [Battery -> Data], data'[b] = d,
         \A c \in Battery : c # b => data'[c] = data[c]
  PROVE  StatusInv'
<1>1. /\ status \in [Battery -> Status] /\ data \in [Battery -> Data]
      /\ \A c \in Battery : Hot(status[c]) => ~status[c].chargerOn
      /\ status[Rio].fullyCharged => ~status[Rio].chargerOn
      /\ Rio \in Battery
  BY OrderFact DEF StatusInv, NeverChargeHot, Hot
<1>2. /\ status' \in [Battery -> Status]
      /\ Alike(status'[b], ChargerStatus(status[b], d))
      /\ \A c \in Battery : c # b => Alike(status'[c], status[c])
      /\ status'[Rio].fullyCharged =>
           /\ ~LeavesFull(status[b], d)
           /\ b = Rio => ChargerStatus(status[b], d).fullyCharged
           /\ b # Rio => status[Rio].fullyCharged
  BY <1>1, SetStatusFact
<1>3. /\ data' \in [Battery -> Data] /\ data'[b] = d
      /\ b # Rio => data'[Rio] = data[Rio]
  BY <1>1
<1>4. ASSUME NEW c \in Battery
      PROVE  Hot(status'[c]) => ~status'[c].chargerOn
  <2>1. CASE c = b
    <3>1. Hot(ChargerStatus(status[b], d)) => ~ChargerStatus(status[b], d).chargerOn
      BY <1>1, HotFact
    <3> QED BY <1>2, <2>1, <3>1 DEF Alike, Hot
  <2>2. CASE c # b
    BY <1>1, <1>2, <2>2 DEF Alike, Hot
  <2> QED BY <2>1, <2>2
<1>5. /\ status'[Rio].fullyCharged => ~status'[Rio].chargerOn
      /\ status'[Rio].chargerOn => data'[Rio].capacity <= FULL_CHARGE
  <2>1. CASE b = Rio
    <3>1. ChargerStatus(status[b], d).chargerOn =>
            /\ d.capacity <= FULL_CHARGE
            /\ LeavesFull(status[b], d) \/ ~ChargerStatus(status[b], d).fullyCharged
      BY <1>1, <2>1, FullFact
    <3>2. status'[Rio].chargerOn <=> ChargerStatus(status[b], d).chargerOn
      BY <1>2, <2>1 DEF Alike
    <3> QED BY <1>2, <1>3, <2>1, <3>1, <3>2
  <2>2. CASE b # Rio
    <3>1. status'[Rio].chargerOn <=> status[Rio].chargerOn
      BY <1>1, <1>2, <2>2 DEF Alike
    <3> QED BY <1>1, <1>2, <1>3, <2>2, <3>1 DEF StatusInv, RioOffWhenFull
  <2> QED BY <2>1, <2>2
<1> QED BY <1>2, <1>3, <1>4, <1>5 DEF StatusInv, RioOffWhenFull, NeverChargeHot, Hot

LEMMA StatusStep ==
  ASSUME IInv, [Next]_vars
  PROVE  StatusInv'
<1> USE DEF IInv
<1>1. CASE ActionBatteryManagerServerStart
  BY <1>1, OrderFact, ZeroTyped
    DEF ActionBatteryManagerServerStart, StatusInv, NeverChargeHot, RioOffWhenFull,
        ZeroStatus, ZeroData
<1>2. CASE \E b \in Battery, d \in Data : ActionBatteryManagerData(b, d)
  <2>0. PICK b \in Battery, d \in Data : ActionBatteryManagerData(b, d) BY <1>2
  <2>1. SetStatus(b, d) /\ data' = [data EXCEPT ![b] = d]
    BY <2>0 DEF ActionBatteryManagerData, SetChargerOf
  <2>2. /\ data' \in [Battery -> Data] /\ data'[b] = d
        /\ \A c \in Battery : c # b => data'[c] = data[c]
    BY <2>1 DEF StatusInv
  <2> QED BY <2>1, <2>2, SetStatusKeeps DEF LoopInv
<1>3. CASE SetChargers
  <2>1. Order[at] \in Battery BY OrderFact DEF LoopInv
  <2>2. data \in [Battery -> Data] /\ data[Order[at]] \in Data
    BY <2>1 DEF StatusInv
  <2>3. SetStatus(Order[at], data[Order[at]]) /\ data' = data
    BY <1>3 DEF SetChargers, SetChargerOf
  <2> QED BY <2>1, <2>2, <2>3, SetStatusKeeps DEF LoopInv
<1>4. CASE UNCHANGED <<data, status>>
  BY <1>4 DEF StatusInv, NeverChargeHot, RioOffWhenFull
<1>5. \/ ActionBatteryManagerServerStart
      \/ \E b \in Battery, d \in Data : ActionBatteryManagerData(b, d)
      \/ SetChargers
      \/ UNCHANGED <<data, status>>
  BY DEF Next, vars, HandlerStep, chargeVars, ActionBatteryManagerServerStop,
         ActionBatteryManagerChargingPermitted, SwitchChargersOff, SignalChargeStateAll,
         ActionBatteryManagerTimerExpiry, OffsetPasses
<1> QED BY <1>1, <1>2, <1>3, <1>4, <1>5

(***************************************************************************)
(* The queue and the relays.                                               *)
(***************************************************************************)
LEMMA AppendFact ==
  ASSUME NEW S, NEW s \in Seq(S), NEW m \in S
  PROVE  /\ Append(s, m) \in Seq(S) /\ Len(Append(s, m)) = Len(s) + 1
         /\ \A i \in 1..Len(s) : Append(s, m)[i] = s[i]
         /\ Append(s, m)[Len(s) + 1] = m
OBVIOUS

\* What is queued for other batteries, and for b if it is not opposite, stays
\* the last word.
LEMMA SendFact ==
  ASSUME QueueInv, NEW b \in Battery, NEW on \in BOOLEAN,
         NEW next \in {"off", "set", "signal"},
         SendMsgOffset([battery |-> b, on |-> on], next)
  PROVE  /\ QueueInv' /\ Len(q') >= Len(q) /\ pc' \in {next, "aborted"}
         /\ pc' # "aborted" =>
              /\ Sure(b, on)'
              /\ \A c \in Battery, v \in BOOLEAN : c # b /\ Sure(c, v) => Sure(c, v)'
<1> DEFINE m == [battery |-> b, on |-> on]
<1>1. m \in Message /\ m.battery = b /\ m.on = on BY DEF Message
<1>2. /\ q \in Seq(Message) /\ Len(q) \in Nat /\ Len(q) <= MaxQ /\ MaxQ \in Nat
      /\ charger \in [Battery -> BOOLEAN] /\ crossed \in SUBSET Battery
      /\ q # <<>> => running
  <2>1. /\ q \in Seq(Message) /\ Len(q) <= MaxQ
        /\ charger \in [Battery -> BOOLEAN] /\ crossed \in SUBSET Battery
        /\ q # <<>> => running
    BY DEF QueueInv, QueueHasTimer
  <2>2. MaxQ \in Nat  BY OrderFact
  <2>3. Len(q) \in Nat  BY <2>1
  <2>4. QED  BY <2>1, <2>2, <2>3
<1>3. SendMsgOffset(m, next) OBVIOUS
<1> HIDE DEF m
<1>4. CASE ~running /\ pc' = next
  <2>1. /\ charger' = [charger EXCEPT ![b] = on] /\ settled' = FALSE
        /\ running' = TRUE /\ timer' = "running"
        /\ crossed' = crossed \ {b} /\ q' = q
    BY <1>1, <1>3, <1>4 DEF SendMsgOffset
  <2>2. QueueInv'
    BY <1>2, <1>4, <2>1 DEF QueueInv, QueueHasTimer
  <2>3. Len(q) = 0 BY <1>2, <1>4
  <2>4. /\ charger'[b] = on
        /\ \A c \in Battery : c # b => charger'[c] = charger[c] /\ (c \in crossed' <=> c \in crossed)
    BY <1>2, <2>1
  <2>5. Sure(b, on)' BY <2>1, <2>3, <2>4 DEF Sure, Said
  <2>6. ASSUME NEW c \in Battery, NEW v \in BOOLEAN, c # b, Sure(c, v)
        PROVE  Sure(c, v)'
    BY <2>1, <2>4, <2>6 DEF Sure, Said
  <2> QED BY <1>2, <1>4, <2>1, <2>2, <2>5, <2>6
<1>5. CASE running /\ Len(q) < MaxQ /\ pc' = next
  <2>1. /\ q' = Append(q, m)
        /\ crossed' = IF \E n \in ToSet(q) : Opposite(m, n)
                      THEN crossed \cup {b} ELSE crossed \ {b}
        /\ UNCHANGED <<running, timer, charger, settled>>
    BY <1>1, <1>3, <1>5 DEF SendMsgOffset
  <2>2. /\ q' \in Seq(Message) /\ Len(q') = Len(q) + 1
        /\ \A i \in 1..Len(q) : q'[i] = q[i]
        /\ q'[Len(q) + 1] = m
    BY <1>1, <1>2, <2>1, AppendFact
  <2>3. QueueInv'
    BY <1>2, <1>5, <2>1, <2>2 DEF QueueInv, QueueHasTimer
  <2>4. Sure(b, on)'
    <3>1. CASE \E n \in ToSet(q) : Opposite(m, n)
      BY <2>1, <3>1 DEF Sure
    <3>2. CASE ~\E n \in ToSet(q) : Opposite(m, n)
      <4>1. \A i \in 1..Len(q) : q[i].battery = b => q[i].on = on
        BY <1>1, <1>2, <3>2 DEF Opposite, ToSet
      <4> QED BY <1>1, <1>2, <2>2, <4>1 DEF Sure, Said
    <3> QED BY <3>1, <3>2
  <2>5. ASSUME NEW c \in Battery, NEW v \in BOOLEAN, c # b, Sure(c, v)
        PROVE  Sure(c, v)'
    <3>1. c \in crossed' <=> c \in crossed BY <2>1, <2>5
    <3>2. Said(c, v) => Said(c, v)'
      BY <1>1, <1>2, <2>1, <2>2, <2>5 DEF Said
    <3> QED BY <2>5, <3>1, <3>2 DEF Sure
  <2> QED BY <1>2, <1>5, <2>2, <2>3, <2>4, <2>5
<1>6. CASE pc' = "aborted" /\ UNCHANGED relayVars
  BY <1>2, <1>6 DEF relayVars, QueueInv, QueueHasTimer
<1> QED BY <1>2, <1>3, <1>4, <1>5, <1>6 DEF SendMsgOffset

\* The message that goes out is no different from those for its battery that
\* stay in the queue, if the battery is not crossed.
LEMMA ExpiryFact ==
  ASSUME QueueInv, ActionBatteryManagerTimerExpiry
  PROVE  /\ QueueInv'
         /\ Len(q') < Len(q) => settled /\ Len(q') = Len(q) - 1
         /\ \A c \in Battery, v \in BOOLEAN : Sure(c, v) => Sure(c, v)'
<1>1. /\ pc = "accept" /\ pc' = pc /\ timer = "elapsed" /\ settled
      /\ (running' <=> Len(q) > 1) /\ running' \in BOOLEAN
      /\ timer' = IF Len(q) > 1 THEN "running" ELSE "none"
      /\ crossed' = crossed
  <2>1. CASE Len(q) > 1
    <3>1. ~(Len(q) <= 1) BY <2>1 DEF QueueInv
    <3>2. running' = TRUE /\ timer' = "running"
      BY <3>1 DEF ActionBatteryManagerTimerExpiry
    <3> QED BY <2>1, <3>2 DEF ActionBatteryManagerTimerExpiry, loopVars, QueueInv
  <2>2. CASE ~(Len(q) > 1)
    BY <2>2 DEF ActionBatteryManagerTimerExpiry, loopVars, QueueInv
  <2> QED BY <2>1, <2>2
<1>2. /\ q \in Seq(Message) /\ Len(q) \in Nat /\ Len(q) <= MaxQ /\ MaxQ \in Nat
      /\ charger \in [Battery -> BOOLEAN] /\ crossed \in SUBSET Battery
      /\ settled \in BOOLEAN
  BY OrderFact DEF QueueInv
<1>3. CASE q = <<>> /\ UNCHANGED <<q, charger, settled>>
  <2>1. Len(q) = 0 BY <1>3
  <2>2. running' = FALSE /\ timer' = "none" BY <1>1, <2>1
  <2> QED BY <1>1, <1>2, <1>3, <2>1, <2>2 DEF QueueInv, QueueHasTimer, Sure, Said
<1>4. CASE q # <<>>
  <2> DEFINE m == Last(q)
  <2>1. /\ charger' = [charger EXCEPT ![m.battery] = m.on]
        /\ settled' = FALSE /\ q' = Front(q)
    BY <1>4 DEF ActionBatteryManagerTimerExpiry
  <2>2. /\ Len(q) \in Nat \ {0} /\ m = q[Len(q)] /\ m \in Message
        /\ q' \in Seq(Message) /\ Len(q') = Len(q) - 1
        /\ \A i \in 1..Len(q)-1 : q'[i] = q[i]
    BY <1>2, <1>4, <2>1, FrontFact
  <2> HIDE DEF m
  <2>3. m.battery \in Battery /\ m.on \in BOOLEAN BY <2>2 DEF Message
  <2>4. /\ charger' \in [Battery -> BOOLEAN] /\ charger'[m.battery] = m.on
        /\ \A c \in Battery : c # m.battery => charger'[c] = charger[c]
    BY <1>2, <2>1, <2>3
  <2>5. QueueInv'
    <3>1. q' # <<>> => Len(q) > 1 BY <2>2, EmptySeq
    <3>2. /\ running' \in BOOLEAN /\ timer' \in {"none", "running"}
          /\ running' <=> timer' # "none"
          /\ Len(q) > 1 => running'
      BY <1>1, <2>2
    <3>3. crossed' \in SUBSET Battery BY <1>1, <1>2
    <3>4. Len(q') <= MaxQ BY <1>2, <2>2
    <3>5. settled' \in BOOLEAN /\ pc' # "launched" BY <1>1, <2>1
    <3> QED BY <2>2, <2>4, <3>1, <3>2, <3>3, <3>4, <3>5 DEF QueueInv, QueueHasTimer
  <2>6. ASSUME NEW c \in Battery, NEW v \in BOOLEAN, Said(c, v)
        PROVE  Said(c, v)'
    <3>1. \A i \in 1..Len(q') : q'[i].battery = c => q'[i].on = v
      BY <2>2, <2>6 DEF Said
    <3>2. CASE m.battery = c
      BY <2>2, <2>4, <2>6, <3>1, <3>2 DEF Said
    <3>3. CASE m.battery # c
      BY <2>2, <2>4, <2>6, <3>1, <3>3 DEF Said
    <3> QED BY <3>2, <3>3
  <2> QED BY <1>1, <2>2, <2>5, <2>6 DEF Sure
<1> QED BY <1>3, <1>4 DEF ActionBatteryManagerTimerExpiry

\* Once the charger of b has been decided on, the relay follows.
LEMMA SetChargerOfFact ==
  ASSUME QueueInv, StatusInv, permitted \in BOOLEAN,
         NEW b \in Battery, NEW d \in Data, NEW f \in BOOLEAN,
         NEW next \in {"set", "signal"},
         SetChargerOf(b, d, f, next), permitted' = permitted, pc # "launched",
         f => permitted, ~f => Sure(b, Wanted(b))
  PROVE  /\ QueueInv' /\ Len(q') >= Len(q) /\ pc' \in {next, "aborted"}
         /\ pc' # "aborted" =>
              /\ Sure(b, Wanted(b))'
              /\ \A c \in Battery : c # b /\ Sure(c, Wanted(c)) => Sure(c, Wanted(c))'
<1>1. /\ status' \in [Battery -> Status]
      /\ \A c \in Battery : c # b => Alike(status'[c], status[c])
  BY OrderFact, SetStatusFact DEF SetChargerOf, StatusInv
<1>2. /\ \A c \in Battery : Wanted(c) \in BOOLEAN /\ Wanted(c)' \in BOOLEAN
      /\ \A c \in Battery : c # b => (Wanted(c)' <=> Wanted(c))
  BY <1>1 DEF Wanted, Alike
<1>3. CASE ~MustTell(b, f)
  <2>1. pc' = next /\ UNCHANGED relayVars
    BY <1>3 DEF SetChargerOf
  <2>2. ~f /\ (Wanted(b)' <=> Wanted(b))
    BY <1>3 DEF MustTell, Wanted
  <2>3. \A c \in Battery : Wanted(c)' = Wanted(c)
    BY <1>2, <2>2
  <2>4. \A c \in Battery : Sure(c, Wanted(c)) => Sure(c, Wanted(c))'
    BY <2>1, <2>3 DEF relayVars, Sure, Said
  <2>5. QueueInv' /\ Len(q') >= Len(q)
    BY <2>1 DEF relayVars, QueueInv, QueueHasTimer
  <2> QED BY <2>1, <2>2, <2>4, <2>5
<1>4. CASE MustTell(b, f)
  <2>1. PICK on \in BOOLEAN : on = status'[b].chargerOn BY <1>1 DEF Status
  <2>2. SendMsgOffset([battery |-> b, on |-> on], next)
    BY <1>4, <2>1 DEF SetChargerOf
  <2>3. on <=> Wanted(b)'
    BY <1>4, <2>1 DEF MustTell, Wanted
  <2>4. /\ QueueInv' /\ Len(q') >= Len(q) /\ pc' \in {next, "aborted"}
        /\ pc' # "aborted" =>
             /\ Sure(b, on)'
             /\ \A c \in Battery, v \in BOOLEAN : c # b /\ Sure(c, v) => Sure(c, v)'
    BY <2>2, SendFact
  <2>5. on = Wanted(b)' BY <1>2, <2>3
  <2>6. pc' # "aborted" => Sure(b, Wanted(b))'
    BY <2>4, <2>5 DEF Sure, Said
  <2>7. ASSUME NEW c \in Battery, c # b, Sure(c, Wanted(c)), pc' # "aborted"
        PROVE  Sure(c, Wanted(c))'
    <3>1. PICK v \in BOOLEAN : v = Wanted(c) BY <1>2
    <3>2. v = Wanted(c)' BY <1>2, <2>7, <3>1
    <3>3. Sure(c, v)' BY <2>4, <2>7, <3>1
    <3> QED BY <3>2, <3>3 DEF Sure, Said
  <2> QED BY <2>4, <2>6, <2>7
<1> QED BY <1>3, <1>4

(***************************************************************************)
(* The steps of the process.                                               *)
(***************************************************************************)
\* Which handler does what to the queue: nothing ever shortens it but the
\* expiry of the offset timer.
LEMMA DataStep ==
  ASSUME IInv, NEW b \in Battery, NEW d \in Data, ActionBatteryManagerData(b, d)
  PROVE  /\ QueueInv' /\ Len(q') >= Len(q) /\ RelayInv' /\ pc' \in Pc
<1> USE DEF IInv
<1>1. /\ pc = "accept" /\ SetChargerOf(b, d, FALSE, "signal")
      /\ permitted' = permitted /\ permitted \in BOOLEAN
      /\ \A c \in Battery : Sure(c, Wanted(c))
  <2>1. /\ pc = "accept" /\ SetChargerOf(b, d, FALSE, "signal")
        /\ permitted' = permitted
    BY DEF ActionBatteryManagerData
  <2>2. permitted \in BOOLEAN BY DEF LoopInv
  <2>3. \A c \in Battery : Sure(c, Wanted(c)) BY <2>1 DEF RelayInv
  <2> QED BY <2>1, <2>2, <2>3
<1>2. /\ QueueInv' /\ Len(q') >= Len(q) /\ pc' \in {"signal", "aborted"}
      /\ pc' # "aborted" =>
           /\ Sure(b, Wanted(b))'
           /\ \A c \in Battery : c # b /\ Sure(c, Wanted(c)) => Sure(c, Wanted(c))'
  BY <1>1, SetChargerOfFact
<1> QED BY <1>1, <1>2 DEF RelayInv, Pc

LEMMA OffStep ==
  ASSUME IInv, SwitchChargersOff
  PROVE  /\ QueueInv' /\ Len(q') >= Len(q) /\ RelayInv'
         /\ pc' \in Pc /\ at' \in 1..Len(Order)
<1> USE DEF IInv
<1> DEFINE next == IF LastBattery THEN "set" ELSE "off"
<1>1. /\ pc = "off" /\ SendMsgOffset([battery |-> Order[at], on |-> FALSE], next)
      /\ at' = (IF LastBattery THEN 1 ELSE at + 1)
      /\ permitted' = ~LastBattery /\ force' = force /\ status' = status
  BY DEF SwitchChargersOff
<1>2. /\ Order[at] \in Battery /\ at \in 1..Len(Order) /\ Len(Order) \in Nat
      /\ \A b \in Battery : \E i \in 1..Len(Order) : Order[i] = b
  BY OrderFact DEF LoopInv
<1>3. ~force /\ \A b \in Battery : Told(b) => Sure(b, FALSE)
  BY <1>1 DEF RelayInv
<1>4. /\ QueueInv' /\ Len(q') >= Len(q) /\ pc' \in {next, "aborted"}
      /\ pc' # "aborted" =>
           \A c \in Battery : c = Order[at] \/ Sure(c, FALSE) => Sure(c, FALSE)'
  <2>1. next \in {"off", "set", "signal"} OBVIOUS
  <2>2. SendMsgOffset([battery |-> Order[at], on |-> FALSE], next) BY <1>1
  <2> HIDE DEF next
  <2>3. PICK b \in Battery : b = Order[at] BY <1>2
  <2>4. /\ QueueInv' /\ Len(q') >= Len(q) /\ pc' \in {next, "aborted"}
        /\ pc' # "aborted" =>
             /\ Sure(b, FALSE)'
             /\ \A c \in Battery, v \in BOOLEAN : c # b /\ Sure(c, v) => Sure(c, v)'
    BY <2>1, <2>2, <2>3, SendFact
  <2> QED BY <2>3, <2>4
<1>5. CASE LastBattery
  <2>1. \A b \in Battery : Told(b) \/ b = Order[at]
    BY <1>2, <1>5 DEF LastBattery, Told
  <2>2. pc' # "aborted" => \A b \in Battery : Sure(b, FALSE)'
    BY <1>3, <1>4, <2>1
  <2>3. \A b \in Battery : Wanted(b)' = FALSE
    BY <1>1, <1>5 DEF Wanted
  <2>4. pc' # "aborted" => \A b \in Battery : Sure(b, Wanted(b))'
    BY <2>2, <2>3 DEF Sure, Said
  <2>5. at' = 1 /\ 1 \in 1..Len(Order) BY <1>1, <1>5, OrderFact
  <2>6. pc' \in {"set", "aborted"} /\ ~force' BY <1>1, <1>3, <1>4, <1>5
  <2> QED BY <1>4, <2>4, <2>5, <2>6 DEF RelayInv, Pc
<1>6. CASE ~LastBattery
  <2>1. at' = at + 1 /\ at' \in 1..Len(Order)
    BY <1>1, <1>2, <1>6 DEF LastBattery
  <2>2. \A b \in Battery : Told(b)' => Told(b) \/ b = Order[at]
    BY <1>2, <2>1 DEF Told
  <2>3. pc' # "aborted" => \A b \in Battery : Told(b)' => Sure(b, FALSE)'
    BY <1>3, <1>4, <2>2
  <2>4. pc' \in {"off", "aborted"} /\ ~force' /\ permitted' = TRUE
    BY <1>1, <1>3, <1>4, <1>6
  <2> QED BY <1>4, <2>1, <2>3, <2>4 DEF RelayInv, Pc
<1> QED BY <1>5, <1>6

LEMMA SetStep ==
  ASSUME IInv, SetChargers
  PROVE  /\ QueueInv' /\ Len(q') >= Len(q) /\ RelayInv'
         /\ pc' \in Pc /\ at' \in 1..Len(Order)
<1> USE DEF IInv
<1> DEFINE next == IF LastBattery THEN "signal" ELSE "set"
<1>1. /\ pc = "set" /\ SetChargerOf(Order[at], data[Order[at]], force, next)
      /\ at' = (IF LastBattery THEN 1 ELSE at + 1)
      /\ permitted' = permitted /\ force' = force
  BY DEF SetChargers
<1>2. /\ Order[at] \in Battery /\ at \in 1..Len(Order) /\ Len(Order) \in Nat
      /\ \A b \in Battery : \E i \in 1..Len(Order) : Order[i] = b
      /\ data[Order[at]] \in Data /\ force \in BOOLEAN /\ permitted \in BOOLEAN
  BY OrderFact DEF LoopInv, StatusInv
<1>3. /\ force => permitted
      /\ \A b \in Battery : (force => Told(b)) => Sure(b, Wanted(b))
  BY <1>1 DEF RelayInv
<1>4. /\ QueueInv' /\ Len(q') >= Len(q) /\ pc' \in {next, "aborted"}
      /\ pc' # "aborted" =>
           \A c \in Battery : c = Order[at] \/ Sure(c, Wanted(c)) => Sure(c, Wanted(c))'
  <2>1. PICK b \in Battery : b = Order[at] BY <1>2
  <2>2. PICK d \in Data : d = data[Order[at]] BY <1>2
  <2>3. PICK f \in BOOLEAN : f = force BY <1>2
  <2>4. next \in {"set", "signal"} /\ SetChargerOf(b, d, f, next)
    BY <1>1, <2>1, <2>2, <2>3
  <2> HIDE DEF next
  <2>5. ~f => Sure(b, Wanted(b)) BY <1>3, <2>3
  <2>6. /\ QueueInv' /\ Len(q') >= Len(q) /\ pc' \in {next, "aborted"}
        /\ pc' # "aborted" =>
             /\ Sure(b, Wanted(b))'
             /\ \A c \in Battery : c # b /\ Sure(c, Wanted(c)) => Sure(c, Wanted(c))'
    BY <1>1, <1>2, <1>3, <2>3, <2>4, <2>5, SetChargerOfFact
  <2> QED BY <2>1, <2>6
<1>5. CASE LastBattery
  <2>1. \A b \in Battery : Told(b) \/ b = Order[at]
    BY <1>2, <1>5 DEF LastBattery, Told
  <2>2. pc' # "aborted" => \A b \in Battery : Sure(b, Wanted(b))'
    BY <1>3, <1>4, <2>1
  <2>3. at' = 1 /\ 1 \in 1..Len(Order) BY <1>1, <1>5, OrderFact
  <2>4. pc' \in {"signal", "aborted"} BY <1>4, <1>5
  <2> QED BY <1>4, <2>2, <2>3, <2>4 DEF RelayInv, Pc
<1>6. CASE ~LastBattery
  <2>1. at' = at + 1 /\ at' \in 1..Len(Order)
    BY <1>1, <1>2, <1>6 DEF LastBattery
  <2>2. \A b \in Battery : Told(b)' => Told(b) \/ b = Order[at]
    BY <1>2, <2>1 DEF Told
  <2>3. pc' # "aborted" =>
          \A b \in Battery : (force => Told(b)') => Sure(b, Wanted(b))'
    BY <1>3, <1>4, <2>2
  <2> QED BY <1>1, <1>3, <1>4, <1>6, <2>1, <2>3 DEF RelayInv, Pc
<1> QED BY <1>5, <1>6

LEMMA PermissionStep ==
  ASSUME IInv, NEW isPermitted \in BOOLEAN,
         ActionBatteryManagerChargingPermitted(isPermitted)
  PROVE  LoopInv' /\ QueueInv' /\ q' = q /\ RelayInv'
<1> USE DEF IInv
<1>0. force' = (~permitted /\ isPermitted) BY DEF ActionBatteryManagerChargingPermitted
<1>1. /\ pc = "accept" /\ at' = 1
      /\ (force' <=> ~permitted /\ isPermitted) /\ force' \in BOOLEAN
      /\ threshold' \in {1800, 2000} /\ event' = <<>>
      /\ UNCHANGED <<allFull, allLow, data, status, relayVars>>
      /\ IF permitted /\ ~isPermitted THEN pc' = "off" /\ permitted' = permitted
         ELSE pc' = "set" /\ permitted' = isPermitted
  <2>1. (~permitted /\ isPermitted) \in BOOLEAN OBVIOUS
  <2>2. force' \in BOOLEAN /\ (force' <=> ~permitted /\ isPermitted)
    BY <1>0, <2>1, Zenon
  <2> QED BY <2>2 DEF ActionBatteryManagerChargingPermitted
<1>2. /\ \A c \in Battery : Sure(c, Wanted(c))
      /\ permitted \in BOOLEAN
  BY <1>1 DEF RelayInv, LoopInv
<1>3. LoopInv'
  <2>1. <<>> \in Seq(Event) /\ 1 \in 1..Len(Order) BY EmptySeq, OrderFact
  <2>2. force' \in BOOLEAN /\ permitted' \in BOOLEAN /\ pc' \in {"off", "set"}
    BY <1>1, <1>2
  <2> QED BY <1>1, <2>1, <2>2 DEF LoopInv, Pc
<1>4. QueueInv' /\ q' = q
  BY <1>1 DEF relayVars, QueueInv, QueueHasTimer
<1>5. RelayInv'
  <2>1. \A c \in Battery : ~Told(c)' BY <1>1 DEF Told
  <2>2. CASE permitted /\ ~isPermitted
    <3>1. pc' = "off" /\ permitted' /\ ~force' BY <1>1, <2>2
    <3> QED BY <2>1, <3>1 DEF RelayInv
  <2>3. CASE ~permitted /\ isPermitted
    <3>1. force' /\ permitted' /\ pc' = "set" BY <1>1, <1>2, <2>3
    <3> QED BY <2>1, <3>1 DEF RelayInv
  <2>4. CASE permitted = isPermitted
    <3>1. pc' = "set" /\ permitted' = permitted /\ ~force' BY <1>1, <1>2, <2>4
    <3>2. \A c \in Battery : Sure(c, Wanted(c))'
      BY <1>1, <1>2, <3>1 DEF Sure, Said, Wanted, relayVars
    <3> QED BY <3>1, <3>2 DEF RelayInv
  <2> QED BY <1>2, <2>2, <2>3, <2>4
<1> QED BY <1>3, <1>4, <1>5

LEMMA StartStep ==
  ASSUME IInv, ActionBatteryManagerServerStart
  PROVE  LoopInv' /\ QueueInv' /\ q = <<>> /\ q' = <<>> /\ RelayInv'
<1> USE DEF IInv
<1>1. /\ pc = "launched" /\ pc' = "accept" /\ permitted' = FALSE
      /\ allFull' = FALSE /\ allLow' = FALSE
      /\ q' = <<>> /\ running' = FALSE /\ event' = <<>>
      /\ status' = [b \in Battery |-> ZeroStatus]
      /\ UNCHANGED <<at, force, threshold, timer, charger, settled, crossed>>
  BY DEF ActionBatteryManagerServerStart
<1>2. /\ q = <<>> /\ timer = "none" /\ \A b \in Battery : ~charger[b]
  BY <1>1 DEF QueueInv, QueueHasTimer, RelayInv
<1>3. LoopInv'
  <2>1. event' \in Seq(Event) BY <1>1, EmptySeq
  <2>2. pc' \in Pc /\ permitted' \in BOOLEAN /\ allFull' \in BOOLEAN /\ allLow' \in BOOLEAN
    BY <1>1 DEF Pc
  <2> QED BY <1>1, <2>1, <2>2 DEF LoopInv
<1>4. <<>> \in Seq(Message) /\ Len(<<>>) = 0 /\ 0 <= MaxQ BY EmptySeq, OrderFact
<1>5. QueueInv'
  BY <1>1, <1>2, <1>4 DEF QueueInv, QueueHasTimer
<1>6. RelayInv'
  <2>1. \A b \in Battery : charger[b] = FALSE
    BY <1>2 DEF QueueInv
  <2>2. \A b \in Battery : Wanted(b)' = FALSE BY <1>1 DEF Wanted
  <2>3. \A b \in Battery : Sure(b, Wanted(b))'
    <3>1. \A b \in Battery : Sure(b, FALSE)'
      BY <1>1, <1>4, <2>1 DEF Sure, Said
    <3> QED BY <2>2, <3>1 DEF Sure, Said
  <2> QED BY <1>1, <2>3 DEF RelayInv
<1> QED BY <1>1, <1>2, <1>3, <1>5, <1>6

LEMMA SignalStep ==
  ASSUME IInv, SignalChargeStateAll
  PROVE  LoopInv' /\ QueueInv' /\ q' = q /\ RelayInv'
<1> USE DEF IInv
<1>1. /\ pc = "signal" /\ pc' = "accept"
      /\ UNCHANGED <<at, force, permitted, threshold, data, status, relayVars>>
  BY DEF SignalChargeStateAll
<1>2. allLow' \in BOOLEAN /\ allFull' \in BOOLEAN
  <2>1. /\ allLow' = IF allLow THEN ~SomeAbove ELSE SomeLow
        /\ allFull' = IF allFull THEN ~SomeBelow ELSE AllFull
    BY DEF SignalChargeStateAll
  <2>2. /\ (~SomeAbove) \in BOOLEAN /\ (~SomeBelow) \in BOOLEAN
        /\ SomeLow \in BOOLEAN /\ AllFull \in BOOLEAN
    BY DEF SomeLow, AllFull
  <2> QED BY <2>1, <2>2
<1>3. event' \in Seq(Event)
  <2> DEFINE low == IF ~allLow /\ allLow' THEN <<"insufficientCharge">> ELSE <<>>
             full == IF ~allFull /\ allFull' THEN <<"fullyCharged">> ELSE <<>>
  <2>1. /\ <<"insufficientCharge">> \in Seq(Event) /\ <<"fullyCharged">> \in Seq(Event)
        /\ <<>> \in Seq(Event)
    BY EmptySeq DEF Event
  <2>2. low \in Seq(Event) /\ full \in Seq(Event) BY <2>1
  <2>3. event' = low \o full BY DEF SignalChargeStateAll
  <2> HIDE DEF low, full
  <2> QED BY <2>2, <2>3
<1>4. QueueInv' /\ q' = q
  BY <1>1 DEF relayVars, QueueInv, QueueHasTimer
<1>5. RelayInv'
  BY <1>1 DEF RelayInv, Sure, Said, Wanted, relayVars
<1> QED BY <1>1, <1>2, <1>3, <1>4, <1>5 DEF LoopInv, Pc

LEMMA StepInv ==
  ASSUME IInv, [Next]_vars
  PROVE  IInv' /\ (Len(q') < Len(q) => settled /\ Len(q') = Len(q) - 1)
<1>1. StatusInv' BY StatusStep
<1>2. \A n \in Nat : ~(n < n)  OBVIOUS
<1>3. Len(q) \in Nat BY DEF IInv, QueueInv
<1> SUFFICES /\ LoopInv' /\ QueueInv' /\ RelayInv'
             /\ Len(q') < Len(q) => settled /\ Len(q') = Len(q) - 1
  BY <1>1 DEF IInv
<1>4. <<>> \in Seq(Event) BY EmptySeq
<1>5. CASE ActionBatteryManagerServerStart
  BY <1>2, <1>3, <1>5, StartStep
<1>6. CASE ActionBatteryManagerServerStop
  <2>1. pc' = "exited" /\ event' = <<>> /\ UNCHANGED <<at, force, chargeVars, relayVars>>
    BY <1>6 DEF ActionBatteryManagerServerStop
  <2> QED BY <1>2, <1>3, <1>4, <2>1
    DEF IInv, LoopInv, Pc, chargeVars, relayVars, QueueInv, QueueHasTimer, RelayInv
<1>7. ASSUME NEW b \in Battery, NEW d \in Data, ActionBatteryManagerData(b, d)
      PROVE  /\ LoopInv' /\ QueueInv' /\ RelayInv'
             /\ Len(q') < Len(q) => settled /\ Len(q') = Len(q) - 1
  <2>1. QueueInv' /\ Len(q') >= Len(q) /\ RelayInv' /\ pc' \in Pc
    BY <1>7, DataStep
  <2>2. LoopInv'
    BY <1>4, <1>7, <2>1 DEF IInv, LoopInv, ActionBatteryManagerData
  <2>3. Len(q') \in Nat BY <2>1 DEF QueueInv
  <2> QED BY <1>3, <2>1, <2>2, <2>3
<1>8. ASSUME NEW isPermitted \in BOOLEAN, ActionBatteryManagerChargingPermitted(isPermitted)
      PROVE  /\ LoopInv' /\ QueueInv' /\ RelayInv'
             /\ Len(q') < Len(q) => settled /\ Len(q') = Len(q) - 1
  BY <1>2, <1>3, <1>8, PermissionStep
<1>9. CASE SwitchChargersOff
  <2>1. /\ QueueInv' /\ Len(q') >= Len(q) /\ RelayInv'
        /\ pc' \in Pc /\ at' \in 1..Len(Order)
    BY <1>9, OffStep
  <2>2. (~LastBattery) \in BOOLEAN OBVIOUS
  <2>3. LoopInv'
    BY <1>4, <1>9, <2>1, <2>2 DEF IInv, LoopInv, SwitchChargersOff
  <2>4. Len(q') \in Nat BY <2>1 DEF QueueInv
  <2> QED BY <1>3, <2>1, <2>3, <2>4
<1>10. CASE SetChargers
  <2>1. /\ QueueInv' /\ Len(q') >= Len(q) /\ RelayInv'
        /\ pc' \in Pc /\ at' \in 1..Len(Order)
    BY <1>10, SetStep
  <2>2. LoopInv'
    BY <1>4, <1>10, <2>1 DEF IInv, LoopInv, SetChargers
  <2>3. Len(q') \in Nat BY <2>1 DEF QueueInv
  <2> QED BY <1>3, <2>1, <2>2, <2>3
<1>11. CASE SignalChargeStateAll
  BY <1>2, <1>3, <1>11, SignalStep
<1>12. CASE ActionBatteryManagerTimerExpiry
  <2>1. /\ QueueInv'
        /\ Len(q') < Len(q) => settled /\ Len(q') = Len(q) - 1
        /\ \A c \in Battery, v \in BOOLEAN : Sure(c, v) => Sure(c, v)'
    BY <1>12, ExpiryFact DEF IInv
  <2>2. /\ pc = "accept" /\ event' = <<>> /\ UNCHANGED <<loopVars, chargeVars>>
    BY <1>12 DEF ActionBatteryManagerTimerExpiry
  <2>3. LoopInv'
    BY <1>4, <2>2 DEF IInv, LoopInv, loopVars, chargeVars
  <2>4. ASSUME NEW c \in Battery PROVE Sure(c, Wanted(c))'
    <3>1. PICK v \in BOOLEAN : v = Wanted(c) BY DEF Wanted
    <3>2. Sure(c, v) BY <2>2, <3>1 DEF IInv, RelayInv
    <3>3. Wanted(c)' = v BY <2>2, <3>1 DEF Wanted, chargeVars
    <3>4. Sure(c, v)' BY <2>1, <3>2
    <3> QED BY <3>3, <3>4 DEF Sure, Said
  <2>5. RelayInv'
    BY <2>2, <2>4 DEF RelayInv, loopVars
  <2> QED BY <2>1, <2>3, <2>5
<1>13. CASE OffsetPasses
  <2>1. /\ settled' = TRUE /\ timer' = (IF timer = "running" THEN "elapsed" ELSE timer)
        /\ event' = <<>>
        /\ UNCHANGED <<loopVars, chargeVars, q, running, charger, crossed>>
    BY <1>13 DEF OffsetPasses
  <2> QED BY <1>2, <1>3, <1>4, <2>1
    DEF IInv, LoopInv, loopVars, chargeVars, QueueInv, QueueHasTimer, RelayInv, Sure, Said,
        Wanted, Told
<1>14. CASE UNCHANGED vars
  BY <1>2, <1>3, <1>14
    DEF vars, IInv, LoopInv, QueueInv, QueueHasTimer, RelayInv, Sure, Said, Wanted, Told
<1> QED BY <1>5, <1>6, <1>7, <1>8, <1>9, <1>10, <1>11, <1>12, <1>13, <1>14
      DEF Next, HandlerStep

LEMMA Invariant == Spec => []IInv
<1>1. IInv /\ [Next]_vars => IInv' BY StepInv
<1> QED BY InitInv, <1>1, PTL DEF Spec

\* The values of all the variables are what the module says.
THEOREM TypeCorrect == Spec => []TypeOK
<1>1. IInv => TypeOK BY DEF IInv, LoopInv, StatusInv, QueueInv, TypeOK
<1> QED BY Invariant, <1>1, PTL

\* setChargerStatus never has the charger of a battery on that is outside
\* its temperature range.
THEOREM HotNeverCharged == Spec => []NeverChargeHot
<1>1. IInv => NeverChargeHot BY DEF IInv, StatusInv
<1> QED BY Invariant, <1>1, PTL

\* The charger of the Pi and the RIO is off above FULL_CHARGE, whatever the
\* other batteries do to its flag.
THEOREM RioStopsWhenFull == Spec => []RioOffWhenFull
<1>1. IInv => RioOffWhenFull BY DEF IInv, StatusInv
<1> QED BY Invariant, <1>1, PTL

\* gTimerRunning is right, and nothing is queued without an expiry to come.
THEOREM QueueNeverStuck == Spec => []QueueHasTimer
<1>1. IInv => QueueHasTimer BY DEF IInv, QueueInv
<1> QED BY Invariant, <1>1, PTL

\* The relays end up as decided, but for batteries with opposite orders in
\* the queue (actionBatteryManagerTimerExpiry).
THEOREM RelaysFollow == Spec => []RelayFollowsUnlessCrossed
<1>1. IInv => RelayFollowsUnlessCrossed
  <2> SUFFICES ASSUME IInv, pc = "accept", q = <<>>, NEW b \in Battery, b \notin crossed
               PROVE  charger[b] = Wanted(b)
    BY DEF RelayFollowsUnlessCrossed
  <2>1. Said(b, Wanted(b)) BY DEF IInv, RelayInv, Sure
  <2>2. Len(q) = 0 OBVIOUS
  <2> QED BY <2>1, <2>2 DEF Said
<1> QED BY Invariant, <1>1, PTL

\* Messages leave the queue one at a time, each two seconds or more after the
\* last message to a relay.
THEOREM QueuePacedAlways == Spec => QueuePaced
<1>1. IInv /\ [Next]_vars => [Len(q') < Len(q) => settled /\ Len(q') = Len(q) - 1]_vars
  BY StepInv
<1> QED BY Invariant, <1>1, PTL DEF Spec, QueuePaced

\* A charger goes off under a battery that stays low only for its
\* temperature (setChargerStatus).
THEOREM LowStaysOn == Spec => LowKeepsCharging
<1> DEFINE Kept(b) == /\ status[b].insufficientCharge /\ status[b].chargerOn
                      /\ status'[b].insufficientCharge /\ ~status'[b].chargerOn
                      => status'[b].overTemperature \/ status'[b].temperatureBroken
<1>1. ASSUME StatusInv, threshold \in {1800, 2000}, NEW c \in Battery, NEW d \in Data,
             SetStatus(c, d)
      PROVE  \A b \in Battery : Kept(b)
  <2>1. /\ status \in [Battery -> Status]
        /\ Alike(status'[c], ChargerStatus(status[c], d))
        /\ \A b \in Battery : b # c => Alike(status'[b], status[b])
    <3>1. status \in [Battery -> Status] /\ Rio \in Battery
      BY <1>1, OrderFact DEF StatusInv
    <3> HIDE DEF Kept
    <3> QED BY <1>1, <3>1, SetStatusFact
  <2>2. /\ status[c].insufficientCharge /\ status[c].chargerOn
        /\ ChargerStatus(status[c], d).insufficientCharge
        /\ ~ChargerStatus(status[c], d).chargerOn
        => Hot(ChargerStatus(status[c], d))
    BY <1>1, <2>1, LowFact
  <2> QED BY <2>1, <2>2 DEF Alike, Hot
<1>2. IInv /\ [Next]_vars => \A b \in Battery : Kept(b)
  <2> SUFFICES ASSUME IInv, [Next]_vars PROVE \A b \in Battery : Kept(b) OBVIOUS
  <2> USE DEF IInv
  <2>1. CASE ActionBatteryManagerServerStart
    BY <2>1 DEF ActionBatteryManagerServerStart, ZeroStatus
  <2>2. CASE \E c \in Battery, d \in Data : ActionBatteryManagerData(c, d)
    <3>1. PICK c \in Battery, d \in Data : ActionBatteryManagerData(c, d) BY <2>2
    <3>2. SetStatus(c, d) BY <3>1 DEF ActionBatteryManagerData, SetChargerOf
    <3> HIDE DEF Kept
    <3> QED BY <1>1, <3>2 DEF LoopInv
  <2>3. CASE SetChargers
    <3>1. Order[at] \in Battery /\ data[Order[at]] \in Data
      BY OrderFact DEF LoopInv, StatusInv
    <3>2. SetStatus(Order[at], data[Order[at]]) BY <2>3 DEF SetChargers, SetChargerOf
    <3>3. PICK c \in Battery, d \in Data : c = Order[at] /\ d = data[Order[at]] BY <3>1
    <3>4. SetStatus(c, d) BY <3>2, <3>3
    <3> HIDE DEF Kept
    <3> QED BY <1>1, <3>4 DEF LoopInv
  <2>4. CASE UNCHANGED status
    BY <2>4
  <2> QED BY <2>1, <2>2, <2>3, <2>4
    DEF Next, vars, HandlerStep, chargeVars, ActionBatteryManagerServerStop,
        ActionBatteryManagerChargingPermitted, SwitchChargersOff, SignalChargeStateAll,
        ActionBatteryManagerTimerExpiry, OffsetPasses
<1>3. IInv /\ [Next]_vars => [\A b \in Battery : Kept(b)]_vars
  BY <1>2
<1> QED BY Invariant, <1>3, PTL DEF Spec, LowKeepsCharging
=============================================================================
