--------------------------- MODULE BatteryManager ---------------------------
(***************************************************************************)
(* The battery manager process (RoboOneBatteryManager/src/                 *)
(* battery_manager_server.c).                                              *)
(*                                                                         *)
(* It decides from the data of each battery whether that battery's charger *)
(* should be on, and tells the hardware server, two seconds (an offset     *)
(* timer of the timer server) between one relay and the next: messages     *)
(* that come too early wait in gHardwareMsgQ.  It also tells the state     *)
(* machine when the robot as a whole becomes low or fully charged.         *)
(*                                                                         *)
(* The process is a single loop that handles one message at a time.  A     *)
(* handler that goes through all the batteries is a step for each of them, *)
(* since it blocks in every message it sends.                              *)
(***************************************************************************)
EXTENDS Integers, Sequences, FiniteSets, SequencesExt

CONSTANTS
  Order,        \* the batteries in the order the code goes through them
  Rio,          \* the first of them, of the Pi and the RIO
  Capacity,     \* remaining capacities the monitor reports, in mAh
  Temperature,  \* temperatures it reports, in C
  MaxQ          \* MAX_LEN_HARDWARE_MSG_Q

Battery == ToSet(Order)

ASSUME BatteryManagerAssumption ==
  /\ Order \in Seq(Battery) /\ Order # <<>> /\ Rio = Order[1]
  /\ Capacity \subseteq Nat /\ Temperature \subseteq Int
  /\ MaxQ \in Nat

\* battery_manager_server.c, the manifest constants.
MINIMUM_CHARGE_CHARGING_PERMITTED == 2000
MINIMUM_CHARGE_CHARGING_NOT_PERMITTED == 1800
FULL_CHARGE == 2150
CHARGE_HYSTERESIS == 100
MAXIMUM_TEMPERATURE_C == 60
TEMPERATURE_BROKEN_C == -20
TEMPERATURE_HYSTERESIS_C == 10

VARIABLES
  pc,         \* what the process is doing
  at,         \* the battery a handler is at, a position in Order
  force,      \* forceSendMsg of the handler
  permitted,  \* gChargingPermitted
  threshold,  \* gInsufficientChargeThreshold
  allFull,    \* gAllFullyCharged
  allLow,     \* gAllInsufficientCharge
  data,       \* batteryData of each battery
  status,     \* batteryStatus of each battery
  q,          \* gHardwareMsgQ, gHardwareMsgQLen
  running,    \* gTimerRunning
  timer,      \* the offset timer at the timer server
  charger,    \* what the hardware server was last told for each battery
  settled,    \* two seconds have passed since it was told anything
  event,      \* the events sent to the state machine by the last step
  crossed     \* history: batteries told to be on and off at the same time

loopVars   == <<pc, at, force>>
chargeVars == <<permitted, threshold, allFull, allLow, data, status>>
relayVars  == <<q, running, timer, charger, settled, crossed>>
vars == <<pc, at, force, permitted, threshold, allFull, allLow, data, status,
          q, running, timer, charger, settled, event, crossed>>

Data    == [capacity: Capacity \cup {0}, temperature: Temperature \cup {0}]
Status  == [fullyCharged: BOOLEAN, insufficientCharge: BOOLEAN, chargerOn: BOOLEAN,
            overTemperature: BOOLEAN, temperatureBroken: BOOLEAN]
Message == [battery: Battery, on: BOOLEAN]  \* HARDWARE_SET_x_BATTERY_CHARGER_y

ZeroData == [capacity |-> 0, temperature |-> 0]
ZeroStatus ==
  [fullyCharged |-> FALSE, insufficientCharge |-> FALSE, chargerOn |-> FALSE,
   overTemperature |-> FALSE, temperatureBroken |-> FALSE]

Init ==
  /\ pc = "launched" /\ at = 1 /\ force = FALSE
  /\ permitted = FALSE /\ threshold = MINIMUM_CHARGE_CHARGING_NOT_PERMITTED
  /\ allFull = FALSE /\ allLow = FALSE
  /\ data = [b \in Battery |-> ZeroData]
  /\ status = [b \in Battery |-> ZeroStatus]
  /\ q = <<>> /\ running = FALSE /\ timer = "none"
  /\ charger = [b \in Battery |-> FALSE]
  /\ settled = TRUE /\ event = <<>> /\ crossed = {}

(***************************************************************************)
(* setChargerStatus: what the data d says of a battery with status s.      *)
(***************************************************************************)
GetsHot(s, d) ==
  ~s.overTemperature /\ d.temperature > MAXIMUM_TEMPERATURE_C

GetsBroken(s, d) ==
  /\ ~s.overTemperature /\ ~GetsHot(s, d)
  /\ ~s.temperatureBroken /\ d.temperature < TEMPERATURE_BROKEN_C

\* Only then the charge is looked at.
Sound(s, d) ==
  /\ ~s.overTemperature /\ ~GetsHot(s, d)
  /\ ~s.temperatureBroken /\ ~GetsBroken(s, d)

GetsLow(s, d) ==
  Sound(s, d) /\ ~s.insufficientCharge /\ d.capacity < threshold

LeavesLow(s, d) ==
  /\ Sound(s, d) /\ s.insufficientCharge
  /\ d.capacity > threshold + CHARGE_HYSTERESIS

\* Mutant: the hysteresis is added to the level the charger is switched off at.
GetsFullLate(s, d) ==
  /\ Sound(s, d) /\ ~s.fullyCharged
  /\ d.capacity > FULL_CHARGE + CHARGE_HYSTERESIS

\* Mutant: the hysteresis is taken from it.
GetsFullEarly(s, d) ==
  /\ Sound(s, d) /\ ~s.fullyCharged
  /\ d.capacity > FULL_CHARGE - CHARGE_HYSTERESIS

GetsFull(s, d) ==
  Sound(s, d) /\ ~s.fullyCharged /\ d.capacity > FULL_CHARGE

LeavesFull(s, d) ==
  /\ Sound(s, d) /\ s.fullyCharged
  /\ d.capacity < FULL_CHARGE - CHARGE_HYSTERESIS

CoolsDown(s, d) ==
  /\ s.overTemperature
  /\ d.temperature < MAXIMUM_TEMPERATURE_C - TEMPERATURE_HYSTERESIS_C

Mends(s, d) ==
  /\ ~s.overTemperature /\ ~GetsHot(s, d) /\ s.temperatureBroken
  /\ d.temperature > TEMPERATURE_BROKEN_C + TEMPERATURE_HYSTERESIS_C

\* Mutant: a temperature that cannot be right does not switch the charger off.
ChargerStatusBroken(s, d) ==
  [fullyCharged       |-> s.fullyCharged \/ GetsFull(s, d),
   insufficientCharge |-> ~LeavesLow(s, d) /\ (s.insufficientCharge \/ GetsLow(s, d)),
   chargerOn          |-> /\ ~GetsHot(s, d) /\ ~GetsFull(s, d)
                          /\ s.chargerOn \/ GetsLow(s, d),
   overTemperature    |-> ~CoolsDown(s, d) /\ (s.overTemperature \/ GetsHot(s, d)),
   temperatureBroken  |-> ~Mends(s, d) /\ (s.temperatureBroken \/ GetsBroken(s, d))]

\* fullyCharged is never reset here: see SetStatus.
ChargerStatus(s, d) ==
  [fullyCharged       |-> s.fullyCharged \/ GetsFull(s, d),
   insufficientCharge |-> ~LeavesLow(s, d) /\ (s.insufficientCharge \/ GetsLow(s, d)),
   chargerOn          |-> /\ ~GetsHot(s, d) /\ ~GetsBroken(s, d) /\ ~GetsFull(s, d)
                          /\ s.chargerOn \/ GetsLow(s, d),
   overTemperature    |-> ~CoolsDown(s, d) /\ (s.overTemperature \/ GetsHot(s, d)),
   temperatureBroken  |-> ~Mends(s, d) /\ (s.temperatureBroken \/ GetsBroken(s, d))]

\* A battery that is no longer full resets the flag of Rio, not its own.
SetStatus(b, d) ==
  LET t == [status EXCEPT ![b] = ChargerStatus(status[b], d)]
  IN  status' = IF LeavesFull(status[b], d)
                THEN [t EXCEPT ![Rio].fullyCharged = FALSE] ELSE t

(***************************************************************************)
(* sendMsgOffset, and the handler's next step.  A full queue asserts.      *)
(***************************************************************************)
Opposite(m, n) == m.battery = n.battery /\ m.on # n.on

SendMsgOffset(m, next) ==
  \/ /\ ~running
     /\ charger' = [charger EXCEPT ![m.battery] = m.on] /\ settled' = FALSE
     /\ running' = TRUE /\ timer' = "running"
     /\ crossed' = crossed \ {m.battery}
     /\ pc' = next /\ UNCHANGED q
  \/ /\ running /\ Len(q) < MaxQ
     /\ q' = Append(q, m)
     /\ crossed' = IF \E n \in ToSet(q) : Opposite(m, n)
                   THEN crossed \cup {m.battery} ELSE crossed \ {m.battery}
     /\ pc' = next /\ UNCHANGED <<running, timer, charger, settled>>
  \/ /\ running /\ Len(q) >= MaxQ
     /\ pc' = "aborted" /\ UNCHANGED relayVars

\* setRioChargerStatus and its siblings: the relay of b has to be told.
MustTell(b, forceSendMsg) ==
  IF status'[b].chargerOn
  THEN permitted /\ (~status[b].chargerOn \/ forceSendMsg)
  ELSE status[b].chargerOn \/ forceSendMsg

SetChargerOf(b, d, forceSendMsg, next) ==
  /\ SetStatus(b, d)
  /\ \/ /\ MustTell(b, forceSendMsg)
        /\ SendMsgOffset([battery |-> b, on |-> status'[b].chargerOn], next)
     \/ /\ ~MustTell(b, forceSendMsg)
        /\ pc' = next /\ UNCHANGED relayVars

(***************************************************************************)
(* The handlers.                                                           *)
(***************************************************************************)
ActionBatteryManagerServerStart ==
  /\ pc = "launched" /\ pc' = "accept"
  /\ permitted' = FALSE /\ allFull' = FALSE /\ allLow' = FALSE
  /\ q' = <<>> /\ running' = FALSE
  /\ data' = [b \in Battery |-> ZeroData]
  /\ status' = [b \in Battery |-> ZeroStatus]
  /\ event' = <<>>
  /\ UNCHANGED <<at, force, threshold, timer, charger, settled, crossed>>

\* What is queued for the hardware server goes with the process.
ActionBatteryManagerServerStop ==
  /\ pc = "accept" /\ pc' = "exited"
  /\ event' = <<>>
  /\ UNCHANGED <<at, force, chargeVars, relayVars>>

ActionBatteryManagerData(b, d) ==
  /\ pc = "accept"
  /\ data' = [data EXCEPT ![b] = d]
  /\ SetChargerOf(b, d, FALSE, "signal")
  /\ event' = <<>>
  /\ UNCHANGED <<at, force, permitted, threshold, allFull, allLow>>

\* Mutant: the chargers are not told again once charging is permitted.
ChargingPermittedUnforced(isPermitted) ==
  /\ pc = "accept"
  /\ threshold' = IF isPermitted THEN MINIMUM_CHARGE_CHARGING_PERMITTED
                  ELSE MINIMUM_CHARGE_CHARGING_NOT_PERMITTED
  /\ force' = FALSE
  /\ at' = 1
  /\ IF permitted /\ ~isPermitted
     THEN pc' = "off" /\ UNCHANGED permitted
     ELSE pc' = "set" /\ permitted' = isPermitted
  /\ event' = <<>>
  /\ UNCHANGED <<allFull, allLow, data, status, relayVars>>

\* The first part of actionBatteryManagerChargingPermitted.
ActionBatteryManagerChargingPermitted(isPermitted) ==
  /\ pc = "accept"
  /\ threshold' = IF isPermitted THEN MINIMUM_CHARGE_CHARGING_PERMITTED
                  ELSE MINIMUM_CHARGE_CHARGING_NOT_PERMITTED
  /\ force' = (~permitted /\ isPermitted)        \* justSwitchedToPermitted
  /\ at' = 1
  /\ IF permitted /\ ~isPermitted
     THEN pc' = "off" /\ UNCHANGED permitted
     ELSE pc' = "set" /\ permitted' = isPermitted
  /\ event' = <<>>
  /\ UNCHANGED <<allFull, allLow, data, status, relayVars>>

LastBattery == at = Len(Order)

\* Every charger is told to be off ...
SwitchChargersOff ==
  /\ pc = "off"
  /\ SendMsgOffset([battery |-> Order[at], on |-> FALSE],
                   IF LastBattery THEN "set" ELSE "off")
  /\ at' = IF LastBattery THEN 1 ELSE at + 1
  /\ permitted' = ~LastBattery
  /\ event' = <<>>
  /\ UNCHANGED <<force, threshold, allFull, allLow, data, status>>

\* ... and then each is decided on again.
SetChargers ==
  /\ pc = "set"
  /\ SetChargerOf(Order[at], data[Order[at]], force,
                  IF LastBattery THEN "signal" ELSE "set")
  /\ at' = IF LastBattery THEN 1 ELSE at + 1
  /\ event' = <<>>
  /\ UNCHANGED <<force, permitted, threshold, allFull, allLow, data>>

SomeLow   == \E b \in Battery : status[b].insufficientCharge
SomeAbove == \E b \in Battery : data[b].capacity > threshold + CHARGE_HYSTERESIS
AllFull   == \A b \in Battery : data[b].capacity > FULL_CHARGE
SomeBelow == \E b \in Battery : data[b].capacity < FULL_CHARGE - CHARGE_HYSTERESIS

SignalChargeStateAll ==
  /\ pc = "signal" /\ pc' = "accept"
  /\ allLow' = IF allLow THEN ~SomeAbove ELSE SomeLow
  /\ allFull' = IF allFull THEN ~SomeBelow ELSE AllFull
  /\ event' = (IF ~allLow /\ allLow' THEN <<"insufficientCharge">> ELSE <<>>) \o
              (IF ~allFull /\ allFull' THEN <<"fullyCharged">> ELSE <<>>)
  /\ UNCHANGED <<at, force, permitted, threshold, data, status, relayVars>>

\* Mutant: the timer is not started again for what is still queued.
TimerExpiryNoRestart ==
  /\ pc = "accept" /\ timer = "elapsed"
  /\ running' = FALSE /\ timer' = "none"
  /\ \/ q = <<>> /\ UNCHANGED <<q, charger, settled>>
     \/ /\ q # <<>>
        /\ charger' = [charger EXCEPT ![Last(q).battery] = Last(q).on]
        /\ settled' = FALSE /\ q' = Front(q)
  /\ event' = <<>>
  /\ UNCHANGED <<loopVars, chargeVars, crossed>>

\* Mutant: the timer is started and gTimerRunning is left alone.
TimerExpiryForgets ==
  /\ pc = "accept" /\ timer = "elapsed"
  /\ running' = FALSE
  /\ timer' = IF Len(q) > 1 THEN "running" ELSE "none"
  /\ \/ q = <<>> /\ UNCHANGED <<q, charger, settled>>
     \/ /\ q # <<>>
        /\ charger' = [charger EXCEPT ![Last(q).battery] = Last(q).on]
        /\ settled' = FALSE /\ q' = Front(q)
  /\ event' = <<>>
  /\ UNCHANGED <<loopVars, chargeVars, crossed>>

\* Mutant: everything that is queued goes out at once.
TimerExpiryFlushes ==
  /\ pc = "accept" /\ timer = "elapsed"
  /\ running' = FALSE /\ timer' = "none"
  /\ \/ q = <<>> /\ UNCHANGED <<q, charger, settled>>
     \/ /\ q # <<>>
        /\ charger' = [b \in Battery |->
             IF \E m \in ToSet(q) : m.battery = b
             THEN Head(SelectSeq(q, LAMBDA m : m.battery = b)).on ELSE charger[b]]
        /\ settled' = FALSE /\ q' = <<>>
  /\ event' = <<>>
  /\ UNCHANGED <<loopVars, chargeVars, crossed>>

\* The message that was queued last goes out; the timer is started again
\* only for what is still queued then.
ActionBatteryManagerTimerExpiry ==
  /\ pc = "accept" /\ timer = "elapsed"
  /\ \/ Len(q) > 1 /\ running' = TRUE /\ timer' = "running"
     \/ Len(q) <= 1 /\ running' = FALSE /\ timer' = "none"
  /\ \/ q = <<>> /\ UNCHANGED <<q, charger, settled>>
     \/ /\ q # <<>>
        /\ charger' = [charger EXCEPT ![Last(q).battery] = Last(q).on]
        /\ settled' = FALSE /\ q' = Front(q)
  /\ event' = <<>>
  /\ UNCHANGED <<loopVars, chargeVars, crossed>>

(***************************************************************************)
(* Two seconds pass since the last message to the hardware server: the     *)
(* offset timer, started together with it, sends its expiry message.       *)
(***************************************************************************)
OffsetPasses ==
  /\ ~settled /\ settled' = TRUE
  /\ timer' = IF timer = "running" THEN "elapsed" ELSE timer
  /\ event' = <<>>
  /\ UNCHANGED <<loopVars, chargeVars, q, running, charger, crossed>>

HandlerStep == SwitchChargersOff \/ SetChargers \/ SignalChargeStateAll

Next ==
  \/ ActionBatteryManagerServerStart \/ ActionBatteryManagerServerStop
  \/ \E b \in Battery, d \in Data : ActionBatteryManagerData(b, d)
  \/ \E isPermitted \in BOOLEAN : ActionBatteryManagerChargingPermitted(isPermitted)
  \/ HandlerStep
  \/ ActionBatteryManagerTimerExpiry
  \/ OffsetPasses

Spec == Init /\ [][Next]_vars

(***************************************************************************)
(* The loop runs, and the timer server delivers the expiry of a timer that *)
(* was started; nothing is assumed of the monitor and the state machine.   *)
(***************************************************************************)
FairSpec ==
  /\ Spec
  /\ WF_vars(OffsetPasses) /\ WF_vars(HandlerStep)
  /\ WF_vars(ActionBatteryManagerTimerExpiry)

(***************************************************************************)
(* Type invariant of the module.                                           *)
(***************************************************************************)
Pc == {"launched", "accept", "off", "set", "signal", "exited", "aborted"}
Event == {"insufficientCharge", "fullyCharged"}

TypeOK ==
  /\ pc \in Pc
  /\ at \in 1..Len(Order)
  /\ force \in BOOLEAN /\ permitted \in BOOLEAN
  /\ threshold \in {MINIMUM_CHARGE_CHARGING_PERMITTED,
                    MINIMUM_CHARGE_CHARGING_NOT_PERMITTED}
  /\ allFull \in BOOLEAN /\ allLow \in BOOLEAN
  /\ data \in [Battery -> Data] /\ status \in [Battery -> Status]
  /\ q \in Seq(Message) /\ Len(q) <= MaxQ
  /\ running \in BOOLEAN /\ timer \in {"none", "running", "elapsed"}
  /\ charger \in [Battery -> BOOLEAN]
  /\ settled \in BOOLEAN
  /\ event \in Seq(Event)
  /\ crossed \in SUBSET Battery

(***************************************************************************)
(* Safety.                                                                 *)
(***************************************************************************)
\* A battery that is too hot, or whose temperature cannot be right, is not
\* being charged, in whatever order the faults, a low charge and a full one
\* come, go and cover each other up (setChargerStatus).
NeverChargeHot ==
  \A b \in Battery :
     status[b].overTemperature \/ status[b].temperatureBroken => ~status[b].chargerOn

\* The charger of the Pi and the RIO is off while its last reading is above
\* FULL_CHARGE, although two flags with different hystereses and two
\* thresholds drive it.
RioOffWhenFull ==
  status[Rio].chargerOn => data[Rio].capacity <= FULL_CHARGE

\* gTimerRunning is true exactly while one timer is at the timer server or
\* its expiry is on its way, and nothing is queued without it: no message to
\* a relay is left behind for good, and no second timer is ever started.
QueueHasTimer ==
  /\ running <=> timer # "none"
  /\ q # <<>> => running

\* The relay the code wants for b: setRioChargerStatus and its siblings.
Wanted(b) == permitted /\ status[b].chargerOn

\* Once nothing is queued the hardware server has been told, last, what the
\* battery manager decided last, through every change of mind and of
\* permission, unless an "on" and an "off" for that battery were waiting at
\* the same time.
RelayFollowsUnlessCrossed ==
  pc = "accept" /\ q = <<>> =>
     \A b \in Battery : b \in crossed \/ charger[b] = Wanted(b)

\* Messages leave the queue one by one, two seconds or more after any other
\* message to a relay.
QueuePaced ==
  [][Len(q') < Len(q) => settled /\ Len(q') = Len(q) - 1]_vars

\* The charger of a low battery is not switched off before the battery has
\* recovered, except for a fault of its temperature.
LowKeepsCharging ==
  [][\A b \in Battery :
       /\ status[b].insufficientCharge /\ status[b].chargerOn
       /\ status'[b].insufficientCharge /\ ~status'[b].chargerOn
       => status'[b].overTemperature \/ status'[b].temperatureBroken]_vars

(***************************************************************************)
(* Liveness.                                                               *)
(***************************************************************************)
\* Once no more data and permissions come, the queue drains: every message
\* in it reaches the hardware server.
QuietQueueDrains ==
  <>[](pc = "accept") => <>[](q = <<>>)
=============================================================================
