---------------------------- MODULE StateMachine ----------------------------
(***************************************************************************)
(* The state machine process (RoboOneStateMachine/src): what RoboOne is    *)
(* doing, and so how the Pi, the RIO and the Hindbrain are powered.        *)
(*                                                                         *)
(* A single loop takes one message at a time from the backlog of its       *)
(* socket.  An event calls the handler that the current state has hooked   *)
(* in, usually the entry of another state, which sends message after       *)
(* message to the hardware server and the battery manager and waits for    *)
(* each answer.  Any of the former may fail.  A state that cannot be       *)
(* entered sends INIT_FAILURE to the state machine itself, behind whatever *)
(* came in meanwhile.                                                      *)
(***************************************************************************)
EXTENDS Integers, Sequences, FiniteSets, SequencesExt, Outcomes

CONSTANTS
  Backlog,    \* connections a listening socket keeps waiting (MAXPENDING)
  MaxFaults   \* bound: failures of the hardware

ASSUME StateMachineAssumption == Backlog \in Nat \ {0} /\ MaxFaults \in Nat

VARIABLES
  pc,         \* what the process is doing
  state,      \* pgRoboOneContext->state, "none" while that is PNULL
  backlog,    \* messages waiting in the backlog of the socket
  world,      \* relays and Hindbrain at the hardware server, failures so far
  permitted,  \* what the battery manager was last told about charging
  forward,    \* the last step gave a task to the task handler
  lost        \* the INIT_FAILURE of this state could not be sent

vars == <<pc, state, backlog, world, permitted, forward, lost>>

State == {"Init", "Mobile", "BatteryIdle", "Docked", "Docked_Charging",
          "Docked_MainsIdle", "Shutdown"}
Event == {"init", "initFailure", "timerExpiry", "tasksAvailable",
          "noTasksAvailable", "mainsPowerAvailable", "insufficientPower",
          "fullyCharged", "insufficientCharge", "shutdown"}
Message == Event \cup {"start", "stop", "getContext"}

\* Relays that are powered, supplies that are selected, as logic states of
\* the pins: on-PCB relays select the supply of the Pi and the RIO and toggle
\* the Hindbrain, external relays select its supply.
Relay == {"onPCB", "external", "rio12V", "rioBatt", "o12V", "oBatt"}
Pins == Relay \cup {"hindbrain"}
World == [pins : [Pins -> BOOLEAN], faults : 0..MaxFaults]

Init ==
  /\ pc = "accept" /\ state = "none"
  /\ backlog = <<"start">>                       \* RoboOne's first message
  /\ \E pins \in [Pins -> BOOLEAN] :
       /\ \A x \in Relay : pins[x] <=> x \in {"rioBatt", "oBatt"}
       /\ world = [pins |-> pins, faults |-> 0]
  /\ permitted = FALSE /\ forward = FALSE /\ lost = FALSE

(***************************************************************************)
(* What messages to the hardware server can lead to: sets of results, each *)
(* a return value and a world.                                             *)
(***************************************************************************)
Done(w, pin, v) ==
  [ok |-> TRUE, w |-> [pins |-> [w.pins EXCEPT ![pin] = v], faults |-> w.faults]]
Failed(w, pin, v) ==
  [ok |-> FALSE, w |-> [pins |-> [w.pins EXCEPT ![pin] = v], faults |-> w.faults + 1]]

\* HARDWARE_SET_..., HARDWARE_ENABLE_..., HARDWARE_DISABLE_...
SetRelay(w, relay, on) ==
  {Done(w, relay, on)} \cup
  {r \in {Failed(w, relay, w.pins[relay])} : w.faults < MaxFaults}

\* HARDWARE_TOGGLE_O_PWR needs the on-PCB relays powered; one that fails
\* half way may have toggled or not.
Toggle(w) ==
  LET was == w.pins["hindbrain"]
      is  == IF w.pins["onPCB"] THEN ~was ELSE was
  IN  {Done(w, "hindbrain", is)} \cup
      {r \in {Failed(w, "hindbrain", was), Failed(w, "hindbrain", is)} :
         w.faults < MaxFaults}

\* HARDWARE_SEND_O_STRING: a Hindbrain that is on may still not answer.
Ping(w) ==
  IF w.pins["hindbrain"]
  THEN {[ok |-> TRUE, w |-> w]} \cup
       {r \in {Failed(w, "hindbrain", TRUE)} : w.faults < MaxFaults}
  ELSE {[ok |-> FALSE, w |-> w]}

(***************************************************************************)
(* actions.c.                                                              *)
(***************************************************************************)
ActionEnableExternalRelays(w)  == SetRelay(w, "external", TRUE)
ActionDisableExternalRelays(w) == SetRelay(w, "external", FALSE)
ActionEnableOnPCBRelays(w)     == SetRelay(w, "onPCB", TRUE)
ActionDisableOnPCBRelays(w)    == SetRelay(w, "onPCB", FALSE)

\* Mutant: the old supply is switched off before the new one is on.
SwitchSupplyOffFirst(w, new, old) ==
  AndThen(SetRelay(w, old, FALSE), LAMBDA v : SetRelay(v, new, TRUE))

SwitchSupply(w, new, old) ==
  AndThen(SetRelay(w, new, TRUE), LAMBDA v : SetRelay(v, old, FALSE))

ActionSwitchPiRioTo12VMainsPower(w)      == SwitchSupply(w, "rio12V", "rioBatt")
ActionSwitchPiRioToBatteryPower(w)       == SwitchSupply(w, "rioBatt", "rio12V")
ActionSwitchHindbrainTo12VMainsPower(w)  == SwitchSupply(w, "o12V", "oBatt")
ActionSwitchHindbrainToBatteryPower(w)   == SwitchSupply(w, "oBatt", "o12V")

ToggleAndPing(w) == AndThen(Toggle(w), Ping)

\* Mutant: the Hindbrain is not toggled a second time.
SwitchOnHindbrainOnce(w) == ToggleAndPing(w)

\* Mutant: nobody looks at the answer to the second ping.
SwitchOnHindbrainBlindly(w) ==
  OrElse(ToggleAndPing(w), LAMBDA v :
    {[ok |-> TRUE, w |-> r.w] : r \in ToggleAndPing(v)})

\* The first toggle switches a Hindbrain that is on already off.
ActionSwitchOnHindbrain(w) == OrElse(ToggleAndPing(w), ToggleAndPing)

\* Here the result of the toggle is ignored, and the ping should fail.
ActionSwitchOffHindbrain(w) ==
  LET ToggleThenPing(v) == Anyway(Toggle(v), Ping)
  IN  AndThen(ToggleThenPing(w), ToggleThenPing)

(***************************************************************************)
(* The entry actions of the states, as far as the hardware is concerned.   *)
(***************************************************************************)
InitEntry(w) ==
  Anyway(Anyway(ActionSwitchPiRioToBatteryPower(w), ActionSwitchHindbrainToBatteryPower),
         LAMBDA v : AndThen(ActionEnableOnPCBRelays(v), ActionSwitchOnHindbrain))

MobileEntry(w) ==
  AndThen(AndThen(ActionSwitchPiRioToBatteryPower(w), ActionSwitchHindbrainToBatteryPower),
          ActionSwitchOnHindbrain)

DockedEntry(w) ==
  AndThen(ActionEnableExternalRelays(w), LAMBDA v :
    Anyway(Anyway(ActionSwitchPiRioTo12VMainsPower(v), ActionSwitchHindbrainTo12VMainsPower),
           ActionSwitchOffHindbrain))

ShutdownEntry(w) ==
  Anyway(Anyway(ActionSwitchOffHindbrain(w), ActionDisableExternalRelays),
         ActionDisableOnPCBRelays)

(***************************************************************************)
(* The handlers the states hook in: the state that an event leads to.      *)
(* Whatever is not hooked in is ignored (defaultImplementation).           *)
(***************************************************************************)
InitHooks ==
  [initFailure |-> "Shutdown", timerExpiry |-> "BatteryIdle",
   tasksAvailable |-> "Mobile", mainsPowerAvailable |-> "Docked",
   insufficientPower |-> "Shutdown", shutdown |-> "Shutdown"]

\* Another task for a robot that is mobile goes to the task handler.
MobileHooks ==
  [initFailure |-> "Init", tasksAvailable |-> "forward",
   noTasksAvailable |-> "BatteryIdle", mainsPowerAvailable |-> "Docked",
   shutdown |-> "Shutdown"]

BatteryIdleHooks ==
  [tasksAvailable |-> "Mobile", mainsPowerAvailable |-> "Docked",
   insufficientPower |-> "Shutdown", shutdown |-> "Shutdown"]

DockedHooks ==
  [tasksAvailable |-> "Mobile", insufficientPower |-> "Shutdown",
   shutdown |-> "Shutdown", fullyCharged |-> "Docked_MainsIdle",
   insufficientCharge |-> "Docked_Charging"]

Docked_ChargingHooks ==
  [insufficientPower |-> "Shutdown", shutdown |-> "Shutdown",
   fullyCharged |-> "Docked_MainsIdle"]

\* Mutant: the handler of the shutdown event is forgotten.
Docked_MainsIdleHooksFewer ==
  [tasksAvailable |-> "Mobile", insufficientPower |-> "Shutdown",
   insufficientCharge |-> "Docked_Charging"]

Docked_MainsIdleHooks ==
  [tasksAvailable |-> "Mobile", insufficientPower |-> "Shutdown",
   shutdown |-> "Shutdown", insufficientCharge |-> "Docked_Charging"]

Hooks ==
  [Init |-> InitHooks, Mobile |-> MobileHooks, BatteryIdle |-> BatteryIdleHooks,
   Docked |-> DockedHooks, Docked_Charging |-> Docked_ChargingHooks,
   Docked_MainsIdle |-> Docked_MainsIdleHooks, Shutdown |-> <<>>]

\* state_machine_events.c: eventInsufficientPowerRoboOne calls the handler
\* of another event.
HookFor(e) == IF e = "insufficientPower" THEN "mainsPowerAvailable" ELSE e

(***************************************************************************)
(* The transitions.                                                        *)
(***************************************************************************)
TransitionToInit ==
  /\ state' = "Init"
  /\ \E r \in InitEntry(world) :
       world' = r.w /\ pc' = IF r.ok THEN "accept" ELSE "failed"
  /\ forward' = FALSE /\ UNCHANGED permitted

\* Mutant: the battery manager is told only once the robot is on batteries.
TransitionToMobileTellsLate ==
  /\ state' = "Mobile"
  /\ \E r \in MobileEntry(world) :
       /\ world' = r.w /\ pc' = IF r.ok THEN "accept" ELSE "failed"
       /\ forward' = r.ok
       /\ permitted' = (permitted /\ ~r.ok)

\* The task is given to the task handler only if the entry succeeds.
TransitionToMobile ==
  /\ state' = "Mobile"
  /\ permitted' = FALSE
  /\ \E r \in MobileEntry(world) :
       /\ world' = r.w /\ pc' = IF r.ok THEN "accept" ELSE "failed"
       /\ forward' = r.ok

TransitionToBatteryIdle ==
  /\ state' = "BatteryIdle"
  /\ \E r \in ActionSwitchOffHindbrain(world) : world' = r.w
  /\ forward' = FALSE /\ UNCHANGED <<pc, permitted>>

TransitionToDocked ==
  /\ state' = "Docked"
  /\ \E r \in DockedEntry(world) : world' = r.w
  /\ permitted' = TRUE
  /\ forward' = FALSE /\ UNCHANGED pc

\* Docked_Charging and Docked_MainsIdle have no entry actions.
TransitionToSubstate(s) ==
  /\ state' = s
  /\ forward' = FALSE /\ UNCHANGED <<pc, world, permitted>>

TransitionToShutdown ==
  /\ state' = "Shutdown"
  /\ permitted' = FALSE
  /\ \E r \in ShutdownEntry(world) : world' = r.w
  /\ forward' = FALSE /\ UNCHANGED pc

TransitionTo(s) ==
  \/ s = "Init" /\ TransitionToInit
  \/ s = "Mobile" /\ TransitionToMobile
  \/ s = "BatteryIdle" /\ TransitionToBatteryIdle
  \/ s = "Docked" /\ TransitionToDocked
  \/ s \in {"Docked_Charging", "Docked_MainsIdle"} /\ TransitionToSubstate(s)
  \/ s = "Shutdown" /\ TransitionToShutdown

(***************************************************************************)
(* The message loop.                                                       *)
(***************************************************************************)
Receive(m) ==
  /\ pc = "accept" /\ backlog # <<>> /\ Head(backlog) = m
  /\ backlog' = Tail(backlog)

ActionStateMachineServerStart ==
  /\ Receive("start")
  /\ TransitionToInit /\ lost' = FALSE

ActionStateMachineServerStop ==
  /\ Receive("stop")
  /\ pc' = "exited" /\ state' = "none"
  /\ forward' = FALSE /\ UNCHANGED <<world, permitted, lost>>

ActionStateMachineServerGetContext ==
  /\ Receive("getContext")
  /\ forward' = FALSE /\ UNCHANGED <<pc, state, world, permitted, lost>>

HandleTransition(e) ==
  /\ Receive(e)
  /\ HookFor(e) \in DOMAIN Hooks[state]
  /\ TransitionTo(Hooks[state][HookFor(e)])
  /\ lost' = FALSE

\* eventTasksAvailable of Mobile; the result is only logged.
HandleTask(e) ==
  /\ Receive(e)
  /\ HookFor(e) \in DOMAIN Hooks[state] /\ Hooks[state][HookFor(e)] = "forward"
  /\ forward' = TRUE /\ UNCHANGED <<pc, state, world, permitted, lost>>

IgnoreEvent(e) ==
  /\ Receive(e)
  /\ HookFor(e) \notin DOMAIN Hooks[state]
  /\ forward' = FALSE /\ UNCHANGED <<pc, state, world, permitted, lost>>

\* Mutant: no account is taken of a full backlog.
SendInitFailureAlways ==
  /\ pc = "failed" /\ pc' = "accept"
  /\ backlog' = Append(backlog, "initFailure") /\ UNCHANGED lost
  /\ forward' = FALSE /\ UNCHANGED <<state, world, permitted>>

\* The process connects to its own socket; if the backlog is full nobody is
\* there to make room, connect() times out and the result is ignored.
SendInitFailure ==
  /\ pc = "failed" /\ pc' = "accept"
  /\ \/ /\ Len(backlog) < Backlog
        /\ backlog' = Append(backlog, "initFailure") /\ UNCHANGED lost
     \/ /\ Len(backlog) = Backlog
        /\ lost' = TRUE /\ UNCHANGED backlog
  /\ forward' = FALSE /\ UNCHANGED <<state, world, permitted>>

ServerStep ==
  \/ ActionStateMachineServerStart \/ ActionStateMachineServerStop
  \/ ActionStateMachineServerGetContext
  \/ \E e \in Event : HandleTransition(e) \/ HandleTask(e) \/ IgnoreEvent(e)
  \/ SendInitFailure

(***************************************************************************)
(* RoboOne waits for the answer to "start" before it lets anybody send     *)
(* anything else, sends the other events from its menus and windows, and   *)
(* the battery manager sends fullyCharged and insufficientCharge.  Nobody  *)
(* waits for an answer to an event.  Only the state machine itself sends   *)
(* initFailure.                                                            *)
(***************************************************************************)
FromBatteryManager == {"fullyCharged", "insufficientCharge"}
FromRoboOne == Message \ (FromBatteryManager \cup {"start", "initFailure"})

Send(m) ==
  /\ state # "none" /\ Len(backlog) < Backlog
  /\ backlog' = Append(backlog, m)
  /\ forward' = FALSE
  /\ UNCHANGED <<pc, state, world, permitted, lost>>

RoboOneWaits == ToSet(backlog) \cap {"getContext", "stop"} # {}

Clients ==
  \/ \E m \in FromRoboOne : ~RoboOneWaits /\ Send(m)
  \/ \E m \in FromBatteryManager : Send(m)

Next == ServerStep \/ Clients

Spec == Init /\ [][Next]_vars

\* The loop runs; nothing is assumed of the clients.
FairSpec == Spec /\ WF_vars(ServerStep)

(***************************************************************************)
(* Type invariant of the module.                                           *)
(***************************************************************************)
TypeOK ==
  /\ pc \in {"accept", "failed", "exited"}
  /\ state \in State \cup {"none"}
  /\ backlog \in Seq(Message) /\ Len(backlog) <= Backlog
  /\ world \in World
  /\ permitted \in BOOLEAN /\ forward \in BOOLEAN /\ lost \in BOOLEAN

(***************************************************************************)
(* Safety.                                                                 *)
(***************************************************************************)
On(pin) == world.pins[pin]

\* The Pi with its RIO (this very program) and the Hindbrain always have a
\* supply selected, whichever message to the hardware server fails in the
\* middle of which transition (actions.c).
NeverUnpowered ==
  /\ On("rio12V") \/ On("rioBatt")
  /\ On("o12V") \/ On("oBatt")

\* The battery manager has charging permitted in exactly the docked states,
\* through every path between them and every failed entry.
Docked == {"Docked", "Docked_Charging", "Docked_MainsIdle"}
ChargingIffDocked == pc # "exited" => (permitted <=> state \in Docked)

\* What Mobile promises to the tasks.
OnBatteries == On("rioBatt") /\ ~On("rio12V") /\ On("oBatt") /\ ~On("o12V")
Ready == OnBatteries /\ On("hindbrain")

\* A robot in Mobile that is not ready for a task has the failure of its
\* entry on the way to itself, whatever events arrived before it and
\* whatever failures of earlier entries are still queued; but for a backlog
\* that was full.
FailureReported ==
  state = "Mobile" /\ ~Ready => pc = "failed" \/ "initFailure" \in ToSet(backlog) \/ lost

\* While the hardware does as it is told, each state has the supplies and
\* the Hindbrain as it should, although the Hindbrain can only be toggled
\* and nobody knows whether it was on (actionSwitchOnHindbrain,
\* actionSwitchOffHindbrain).
PowerMatchesState ==
  world.faults = 0 =>
    /\ state \in {"Init", "Mobile"} => Ready
    /\ state = "BatteryIdle" => OnBatteries /\ ~On("hindbrain")
    /\ state \in Docked => /\ On("external") /\ On("rio12V") /\ ~On("rioBatt")
                          /\ On("o12V") /\ ~On("oBatt") /\ ~On("hindbrain")
    /\ state = "Shutdown" => ~On("hindbrain") /\ ~On("external") /\ ~On("onPCB")

\* A task reaches the task handler only in Mobile, on batteries and, unless
\* the hardware failed, with the Hindbrain on.
TasksReachHindbrain ==
  [][forward' => /\ state' = "Mobile"
                 /\ world'.faults = 0 => Ready']_vars

\* INSUFFICIENT_POWER shuts the robot down in each state that hooks
\* transitionToShutdown in for it.
InsufficientPowerShutsDown ==
  [][\A s \in {"Init", "BatteryIdle"} \cup Docked :
       state = s /\ Receive("insufficientPower") => state' = "Shutdown"]_vars

(***************************************************************************)
(* Liveness.                                                               *)
(***************************************************************************)
\* A SHUTDOWN event that is accepted ends in Shutdown for good, from every
\* state and past every event and INIT_FAILURE that is still to come.
ShutdownHeeded ==
  []("shutdown" \in ToSet(backlog) =>
       <>[](state = "Shutdown" \/ pc = "exited"))
=============================================================================
