------------------------------ MODULE Hardware ------------------------------
(***************************************************************************)
(* The pins of the one-wire bus as the hardware server drives them         *)
(* (RoboOneHardware/src/ow_bus.c, hardware_server.c).                      *)
(*                                                                         *)
(* Each PIO device latches eight pins and is always written as a whole, so *)
(* a message about one pin reads the device, changes that pin and writes   *)
(* all of them back.  Some pins cannot be read: for those the server keeps *)
(* a shadow of what it wrote.  The server handles one message at a time;   *)
(* every read and every write of a device may fail, and a write that fails *)
(* may have reached the device or not.  A message that takes several       *)
(* writes takes a step for each, and the process may end between any two.  *)
(***************************************************************************)
EXTENDS Integers, Sequences, FiniteSets, SequencesExt

CONSTANTS
  Charger,    \* the battery chargers, in the order they are switched
  Light,      \* indicators on the charger state pins
  Wired,      \* bound: the pins that are considered
  TickRange,  \* bound: values of the clock in seconds, 2^32 in the code
  MaxFaults   \* bound: failures of the bus

PIO == {"CHARGER_STATE_PIO", "DARLINGTON_PIO", "RELAY_PIO", "GENERAL_PURPOSE_PIO"}

\* hw_config.h.  Pin x_CHARGER_OFF is named after its charger.
PinTable ==
  [CHARGER_STATE_PIO   |-> {},               \* inputs only: the lights
   DARLINGTON_PIO      |-> {"RIO_PWR_12V_ON", "RIO_PWR_BATT_OFF", "O_PWR_TOGGLE",
                            "O_RESET_TOGGLE", "DARLINGTON_ENABLE_BAR"},
   RELAY_PIO           |-> {"O_PWR_12V_ON", "O_PWR_BATT_OFF", "RELAY_ENABLE_BAR",
                            "RELAY_12V_DETECT"} \cup ToSet(Charger),
   GENERAL_PURPOSE_PIO |-> {"MUX_A0", "MUX_A1", "MUX_ENABLE_BAR"}]

ToggleMask == {"O_PWR_TOGGLE", "O_RESET_TOGGLE"} \cap Wired
MuxMask    == {"MUX_A0", "MUX_A1", "MUX_ENABLE_BAR"}
InputMask  == {"RELAY_12V_DETECT"} \cap Wired
ShadowMask ==
  (ToggleMask \cup {"O_PWR_12V_ON", "O_PWR_BATT_OFF"} \cup ToSet(Charger)) \cap Wired
InitialState ==
  {"DARLINGTON_ENABLE_BAR", "RELAY_ENABLE_BAR", "RELAY_12V_DETECT"} \cap Wired

Pins    == [d \in PIO |-> PinTable[d] \cap Wired]
AllPins == UNION {Pins[d] : d \in PIO}

ASSUME HardwareAssumption ==
  /\ Charger \in Seq(Wired) /\ Charger # <<>>
  /\ ToSet(Charger) \cap (PinTable["DARLINGTON_PIO"] \cup MuxMask
                           \cup {"RELAY_ENABLE_BAR", "RELAY_12V_DETECT"}) = {}
  /\ MuxMask \subseteq Wired
  /\ TickRange \in Nat /\ TickRange > 3 /\ MaxFaults \in Nat

VARIABLES
  pc,         \* what the process is doing
  latch,      \* what each device drives: the pins that are at 5 V
  shadow,     \* specifics.ds2408.pinsState of each device
  todo,       \* writes a message has still to do
  rest,       \* chargers a message has still to switch
  ok,         \* the success in the last answer
  asked,      \* the temperature sensor that is asked for
  reading,    \* the sensor asked for and the one measured, in the last answer
  faults,     \* failures of the bus so far
  job,        \* history: what the message is about
  unsure      \* history: devices that were not written, or not for certain

pinVars == <<pc, latch, shadow, todo, rest, ok, asked, reading, faults, job, unsure>>

VARIABLES
  moving,     \* lights that changed since the latch was reset (activity latch)
  lastEdges,  \* lastPinsEdgeState
  elapsed,    \* seconds since ticksAtLastRead, Never while that is zero
  flashing,   \* lights the last answer calls flashing
  movedNow,   \* history: lights that changed since the latch was last reset,
  movedBefore \*   and between that and the time before

lightVars == <<moving, lastEdges, elapsed, flashing, movedNow, movedBefore>>
vars == <<pc, latch, shadow, todo, rest, ok, asked, reading, faults, job, unsure,
          moving, lastEdges, elapsed, flashing, movedNow, movedBefore>>

\* One write: to which device, which pins to 5 V, and what the shadow
\* becomes when it succeeds.
Write == [pio : PIO, pins : SUBSET AllPins, shadow : SUBSET AllPins]
\* What the message in hand names, how it wants that, and whether it acts on
\* a reading that failed.
Job == [pio : PIO, pins : SUBSET AllPins, want : SUBSET AllPins, blind : BOOLEAN]
NoJob == [pio |-> "CHARGER_STATE_PIO", pins |-> {}, want |-> {}, blind |-> FALSE]

Sensor(pins) == (IF "MUX_A0" \in pins THEN 1 ELSE 0) + (IF "MUX_A1" \in pins THEN 2 ELSE 0)
SensorPins(input) ==
  (IF input % 2 = 1 THEN {"MUX_A0"} ELSE {}) \cup (IF input \div 2 = 1 THEN {"MUX_A1"} ELSE {})
Battery == 0..(Len(Charger) - 1)   \* TEMPERATURE_SENSOR_x_BATT
NoSensor == 8                      \* inputs of the mux are 0 to 7
NoReading == [asked |-> NoSensor, measured |-> NoSensor]
Never == -1                        \* ticksAtLastRead is zero

\* The devices come up with every pin at 5 V, whatever the process thinks.
Init ==
  /\ pc = "down"
  /\ latch = Pins /\ shadow = [d \in PIO |-> InitialState \cap Pins[d]]
  /\ todo = <<>> /\ rest = <<>> /\ ok = FALSE /\ asked = NoSensor
  /\ reading = NoReading /\ faults = 0 /\ job = NoJob /\ unsure = PIO
  /\ moving = {} /\ lastEdges = {} /\ elapsed = Never /\ flashing = {}
  /\ movedNow = {} /\ movedBefore = {}

Fault == faults < MaxFaults /\ faults' = faults + 1

(***************************************************************************)
(* Reading.                                                                *)
(***************************************************************************)
\* Mutant: the level read back is taken for every pin.
ReadingsUnshadowed(d) ==
  {(latch[d] \ (ShadowMask \cup InputMask)) \cup level :
     level \in SUBSET ((ShadowMask \cup InputMask) \cap Pins[d])}

\* readPinsWithShadow, accountForShadow: the shadow stands in for the pins
\* that cannot be read; an input may be at any level.
Readings(d) ==
  {((latch[d] \ (ShadowMask \cup InputMask)) \cup (shadow[d] \cap ShadowMask)) \cup level :
     level \in SUBSET (InputMask \cap Pins[d])}

(***************************************************************************)
(* Server start, stop and end of the process.                              *)
(***************************************************************************)
\* setupDevices: the state kept for each device is written to it.  Devices
\* may be missing, or fail in some command; of the latter some take the pins
\* nevertheless.  The result of each device overwrites the one before.
Setup(missing, failing, taken) ==
  /\ faults + Cardinality(missing \cup failing) <= MaxFaults
  /\ faults' = faults + Cardinality(missing \cup failing)
  /\ latch' = [d \in PIO |->
       IF d \in missing \cup (failing \ taken) THEN latch[d]
       ELSE shadow[d] \cup (InputMask \cap Pins[d])]
  /\ unsure' = missing \cup failing
  /\ ok' = (missing = {} /\ "GENERAL_PURPOSE_PIO" \notin failing)

\* After a bad answer nobody uses the server.
ActionHardwareServerStart ==
  /\ pc = "down"
  /\ \/ \E missing \in SUBSET PIO : \E failing \in SUBSET (PIO \ missing) :
          \E taken \in SUBSET failing : Setup(missing, failing, taken)
     \/ Fault /\ ok' = FALSE /\ UNCHANGED <<latch, unsure>>     \* the bus itself
  /\ pc' = IF ok' THEN "accept" ELSE "useless"
  /\ reading' = NoReading
  /\ UNCHANGED <<shadow, todo, rest, asked, job>>
  /\ UNCHANGED lightVars

\* The pins stay as they are; what is kept in memory starts afresh with the
\* next process.
EndOfProcess ==
  /\ pc' = "down"
  /\ shadow' = [d \in PIO |-> InitialState \cap Pins[d]]
  /\ todo' = <<>> /\ rest' = <<>> /\ ok' = FALSE
  /\ asked' = NoSensor /\ reading' = NoReading /\ job' = NoJob /\ unsure' = PIO
  /\ lastEdges' = {} /\ elapsed' = Never /\ flashing' = {}
  /\ UNCHANGED <<latch, faults, moving, movedNow, movedBefore>>

ActionHardwareServerStop == pc \in {"accept", "useless"} /\ EndOfProcess

\* A signal, or a failed assertion, between any two writes.
Crash == pc \notin {"down", "useless"} /\ EndOfProcess

(***************************************************************************)
(* Messages that change pins.                                              *)
(***************************************************************************)
Serve(d, mask, want, blind) ==
  job' = [pio |-> d, pins |-> mask, want |-> want, blind |-> blind]

\* The read that goes before fails: the handler gives up.
GiveUp ==
  /\ pc = "accept" /\ Fault
  /\ ok' = FALSE /\ reading' = NoReading /\ asked' = NoSensor
  /\ UNCHANGED <<pc, latch, shadow, todo, rest, job, unsure>>
  /\ UNCHANGED lightVars

\* Mutant: inputs are written back as they are read.
ReadForSetAsRead(d, mask, high, pins) ==
  LET state == IF high THEN pins \cup mask ELSE pins \ mask
  IN  todo' = <<[pio |-> d, pins |-> state, shadow |-> state]>>

\* setPinsWithShadow up to its write.  The result of the read is not looked
\* at: if it fails, pinsState is whatever was on the stack.
ReadForSet(d, mask, high, pins) ==
  LET state == (IF high THEN pins \cup mask ELSE pins \ mask) \cup (InputMask \cap Pins[d])
  IN  todo' = <<[pio |-> d, pins |-> state, shadow |-> state]>>

SetPinsWithShadow(d, mask, high) ==
  /\ pc = "accept" /\ pc' = "write"
  /\ LET want == IF high THEN mask ELSE {}
     IN  \/ /\ \E pins \in Readings(d) : ReadForSet(d, mask, high, pins)
            /\ Serve(d, mask, want, FALSE) /\ UNCHANGED faults
         \/ /\ Fault
            /\ \E pins \in SUBSET Pins[d] : ReadForSet(d, mask, high, pins)
            /\ Serve(d, mask, want, TRUE)
  /\ rest' = <<>> /\ asked' = NoSensor /\ reading' = NoReading
  /\ UNCHANGED <<latch, shadow, ok, unsure>>
  /\ UNCHANGED lightVars

\* setRioPwr12VOn and its siblings.
SetOne ==
  \E d \in PIO : \E p \in Pins[d] \ (ToggleMask \cup InputMask \cup MuxMask) :
     \E high \in BOOLEAN : SetPinsWithShadow(d, {p}, high)

\* setAllBatteryChargersOn, -Off: one after the other, the first here.
SetAllBatteryChargers(high) ==
  /\ pc = "accept" /\ pc' = "write"
  /\ LET mask == ToSet(Charger)
         want == IF high THEN mask ELSE {}
     IN  \/ /\ \E pins \in Readings("RELAY_PIO") :
                 ReadForSet("RELAY_PIO", {Head(Charger)}, high, pins)
            /\ Serve("RELAY_PIO", mask, want, FALSE) /\ UNCHANGED faults
         \/ /\ Fault
            /\ \E pins \in SUBSET Pins["RELAY_PIO"] :
                 ReadForSet("RELAY_PIO", {Head(Charger)}, high, pins)
            /\ Serve("RELAY_PIO", mask, want, TRUE)
  /\ rest' = Tail(Charger) /\ asked' = NoSensor /\ reading' = NoReading
  /\ UNCHANGED <<latch, shadow, ok, unsure>>
  /\ UNCHANGED lightVars

NextCharger ==
  /\ pc = "charger" /\ pc' = "write"
  /\ LET high == job.want # {}
     IN  \/ /\ \E pins \in Readings("RELAY_PIO") :
                 ReadForSet("RELAY_PIO", {Head(rest)}, high, pins)
            /\ UNCHANGED <<faults, job>>
         \/ /\ Fault
            /\ \E pins \in SUBSET Pins["RELAY_PIO"] :
                 ReadForSet("RELAY_PIO", {Head(rest)}, high, pins)
            /\ job' = [job EXCEPT !.blind = TRUE]
  /\ rest' = Tail(rest)
  /\ UNCHANGED <<latch, shadow, ok, asked, reading, unsure>>
  /\ UNCHANGED lightVars

\* togglePinsWithShadow: to the opposite and back.
TogglePinsWithShadow(p) ==
  LET Flip(pins) == IF p \in pins THEN pins \ {p} ELSE pins \cup {p}
      To(pins)   == [pio |-> "DARLINGTON_PIO", pins |-> pins, shadow |-> pins]
  IN  /\ pc = "accept" /\ pc' = "write"
      /\ \E pins \in Readings("DARLINGTON_PIO") :
           /\ todo' = <<To(Flip(pins)), To(Flip(Flip(pins)))>>
           /\ Serve("DARLINGTON_PIO", {p}, pins \cap {p}, FALSE)
      /\ rest' = <<>> /\ asked' = NoSensor /\ reading' = NoReading
      /\ UNCHANGED <<latch, shadow, ok, faults, unsure>>
      /\ UNCHANGED lightVars

\* Mutant: the mux stays enabled while the input is selected.
SetAnalogueMuxInputLive(input, sensor) ==
  LET gp == "GENERAL_PURPOSE_PIO" IN
  /\ pc = "accept" /\ pc' = "write"
  /\ \E pins \in Readings(gp) :
       LET selected == (pins \ MuxMask) \cup SensorPins(input)
       IN  todo' = <<[pio |-> gp, pins |-> selected, shadow |-> selected]>>
  /\ Serve(gp, MuxMask, {}, FALSE)
  /\ asked' = sensor
  /\ rest' = <<>> /\ reading' = NoReading
  /\ UNCHANGED <<latch, shadow, ok, faults, unsure>>
  /\ UNCHANGED lightVars

\* setAnalogueMuxInput, on its own or on the way to a temperature: disable,
\* select, enable.  The last write is made from the pins as they were read.
SetAnalogueMuxInput(input, sensor) ==
  LET gp == "GENERAL_PURPOSE_PIO"
      To(pins, s) == [pio |-> gp, pins |-> pins, shadow |-> s]
  IN  /\ pc = "accept" /\ pc' = "write"
      /\ \E pins \in Readings(gp) :
           LET disabled == pins \cup {"MUX_ENABLE_BAR"}
               enabled  == disabled \ {"MUX_ENABLE_BAR"}
               selected == (disabled \ {"MUX_A0", "MUX_A1"}) \cup SensorPins(input)
           IN  todo' = <<To(disabled, disabled), To(selected, disabled),
                         To(enabled, enabled)>>
      /\ Serve(gp, MuxMask, {}, FALSE)
      /\ asked' = sensor
      /\ rest' = <<>> /\ reading' = NoReading
      /\ UNCHANGED <<latch, shadow, ok, faults, unsure>>
      /\ UNCHANGED lightVars

\* Mutant: the shadow is not brought up to date.
WriteDoneUnnoted ==
  LET w == Head(todo) IN
  /\ latch' = [latch EXCEPT ![w.pio] = w.pins]
  /\ todo' = Tail(todo) /\ unsure' = unsure \ {w.pio}
  /\ IF Len(todo) > 1 THEN UNCHANGED <<pc, ok>>
     ELSE IF rest # <<>> THEN pc' = "charger" /\ UNCHANGED ok
     ELSE IF asked # NoSensor THEN pc' = "measure" /\ UNCHANGED ok
     ELSE pc' = "accept" /\ ok' = TRUE
  /\ UNCHANGED <<shadow, rest, faults>>

\* channelAccessWriteDS2408 and what is made of its result.
WriteDone ==
  LET w == Head(todo) IN
  /\ latch' = [latch EXCEPT ![w.pio] = w.pins]
  /\ shadow' = [shadow EXCEPT ![w.pio] = w.shadow]
  /\ todo' = Tail(todo) /\ unsure' = unsure \ {w.pio}
  /\ \/ Len(todo) > 1 /\ UNCHANGED <<pc, ok>>
     \/ Len(todo) = 1 /\ rest # <<>> /\ pc' = "charger" /\ UNCHANGED ok
     \/ Len(todo) = 1 /\ asked # NoSensor /\ pc' = "measure" /\ UNCHANGED ok
     \/ Len(todo) = 1 /\ rest = <<>> /\ asked = NoSensor /\ pc' = "accept" /\ ok' = TRUE
  /\ UNCHANGED <<rest, faults>>

\* Mutant: a charger that cannot be switched does not stop the others.
WriteFailsOnward ==
  /\ Fault
  /\ unsure' = unsure \cup {Head(todo).pio}
  /\ todo' = <<>> /\ ok' = FALSE
  /\ pc' = IF rest # <<>> THEN "charger" ELSE "accept"
  /\ UNCHANGED <<latch, shadow, rest>>

WriteFails ==
  LET w == Head(todo) IN
  /\ Fault
  /\ latch' = latch \/ latch' = [latch EXCEPT ![w.pio] = w.pins]
  /\ unsure' = unsure \cup {w.pio}
  /\ todo' = <<>> /\ rest' = <<>>
  /\ pc' = "accept" /\ ok' = FALSE /\ UNCHANGED shadow

WritePins ==
  /\ pc = "write"
  /\ WriteDone \/ WriteFails
  /\ UNCHANGED <<asked, reading, job>>
  /\ UNCHANGED lightVars

\* readAnalogueMux: the battery monitor of the RIO measures what the mux
\* lets through.
ReadAnalogueMux ==
  /\ pc = "measure" /\ pc' = "accept"
  /\ LET pins == latch["GENERAL_PURPOSE_PIO"] IN
     \/ /\ ok' = TRUE
        /\ reading' = [asked |-> asked,
                       measured |-> IF "MUX_ENABLE_BAR" \in pins THEN NoSensor ELSE Sensor(pins)]
        /\ UNCHANGED faults
     \/ Fault /\ ok' = FALSE /\ UNCHANGED reading
  /\ asked' = NoSensor
  /\ UNCHANGED <<latch, shadow, todo, rest, job, unsure>>
  /\ UNCHANGED lightVars

(***************************************************************************)
(* The state of the chargers (readChargerState).                           *)
(***************************************************************************)
\* (ticksAtLastRead - ticksNow) > 1 on unsigned numbers: any later second.
LongEnough(seconds) == (TickRange - seconds) % TickRange > 1

\* The first reading only remembers what the latch holds, and resets it.
\* Time counts from here on even when that fails.
FirstReading ==
  /\ pc = "accept" /\ elapsed = Never
  /\ elapsed' = 0 /\ flashing' = {}
  /\ \/ /\ lastEdges' = moving /\ moving' = {}
        /\ movedBefore' = movedNow /\ movedNow' = {}
        /\ ok' = TRUE /\ UNCHANGED faults
     \/ /\ Fault /\ ok' = FALSE       \* the latch cannot be read
        /\ UNCHANGED <<lastEdges, moving, movedNow, movedBefore>>
     \/ /\ Fault /\ ok' = FALSE       \* it cannot be reset, or seemingly not
        /\ lastEdges' = moving
        /\ moving' \in {moving, {}}
        /\ movedBefore' = movedNow /\ movedNow' = moving'
  /\ reading' = NoReading
  /\ UNCHANGED <<pc, latch, shadow, todo, rest, asked, job, unsure>>

\* Mutant: the edges of the first reading are compared with for ever.
NextReadingFirstEdges ==
  /\ pc = "accept" /\ elapsed # Never /\ LongEnough(elapsed)
  /\ flashing' = moving \cap lastEdges
  /\ moving' = {} /\ elapsed' = 0
  /\ movedBefore' = movedNow /\ movedNow' = {}
  /\ ok' = TRUE /\ reading' = NoReading
  /\ UNCHANGED <<pc, latch, shadow, todo, rest, asked, faults, job, unsure, lastEdges>>

\* Later: a light that changed in this interval and in the one before is
\* flashing.
NextReading ==
  /\ pc = "accept" /\ elapsed # Never /\ LongEnough(elapsed)
  /\ \/ /\ flashing' = moving \cap lastEdges
        /\ lastEdges' = moving /\ moving' = {} /\ elapsed' = 0
        /\ movedBefore' = movedNow /\ movedNow' = {}
        /\ ok' = TRUE /\ UNCHANGED faults
     \/ /\ Fault /\ ok' = FALSE /\ flashing' = {}
        /\ moving' \in {moving, {}}
        /\ UNCHANGED <<lastEdges, elapsed, movedNow, movedBefore>>
  /\ reading' = NoReading
  /\ UNCHANGED <<pc, latch, shadow, todo, rest, asked, job, unsure>>

\* Too soon, or nothing but failures before the latch is read.
PlainReading ==
  /\ pc = "accept" /\ elapsed # Never
  /\ \/ ~LongEnough(elapsed) /\ ok' = TRUE /\ UNCHANGED faults
     \/ Fault /\ ok' = FALSE
  /\ flashing' = {} /\ reading' = NoReading
  /\ UNCHANGED <<pc, latch, shadow, todo, rest, asked, job, unsure>>
  /\ UNCHANGED <<moving, lastEdges, elapsed, movedNow, movedBefore>>

ReadChargerState == FirstReading \/ NextReading \/ PlainReading

(***************************************************************************)
(* The world: lights change, time passes.  Nothing that happens during a   *)
(* message about pins could tell when, so it happens before or after.      *)
(***************************************************************************)
LightChanges(l) ==
  /\ pc \in {"accept", "down"}
  /\ moving' = moving \cup {l} /\ movedNow' = movedNow \cup {l}
  /\ flashing' = {}
  /\ UNCHANGED pinVars
  /\ UNCHANGED <<lastEdges, elapsed, movedBefore>>

SecondPasses ==
  /\ pc = "accept" /\ elapsed \in {0, 1} /\ elapsed' = elapsed + 1
  /\ flashing' = {}
  /\ UNCHANGED pinVars
  /\ UNCHANGED <<moving, lastEdges, movedNow, movedBefore>>

Next ==
  \/ ActionHardwareServerStart \/ ActionHardwareServerStop \/ Crash
  \/ GiveUp \/ SetOne
  \/ \E high \in BOOLEAN : SetAllBatteryChargers(high)
  \/ NextCharger
  \/ \E p \in ToggleMask : TogglePinsWithShadow(p)
  \/ \E input \in Battery : \E sensor \in {NoSensor, input} :
       SetAnalogueMuxInput(input, sensor)
  \/ WritePins \/ ReadAnalogueMux
  \/ ReadChargerState
  \/ \E l \in Light : LightChanges(l)
  \/ SecondPasses

Spec == Init /\ [][Next]_vars

(***************************************************************************)
(* Properties.                                                             *)
(***************************************************************************)
PinsTypeOK ==
  /\ pc \in {"down", "useless", "accept", "write", "charger", "measure"}
  /\ latch \in [PIO -> SUBSET AllPins] /\ shadow \in [PIO -> SUBSET AllPins]
  /\ \A d \in PIO : latch[d] \subseteq Pins[d] /\ shadow[d] \subseteq Pins[d]
  /\ todo \in Seq(Write)
  /\ \A i \in 1..Len(todo) : /\ todo[i].pio = job.pio
                             /\ todo[i].pins \subseteq Pins[job.pio]
                             /\ todo[i].shadow \subseteq Pins[job.pio]
  /\ rest \in Seq(ToSet(Charger))
  /\ ok \in BOOLEAN
  /\ asked \in Battery \cup {NoSensor}
  /\ reading \in [asked : Battery \cup {NoSensor}, measured : 0..3 \cup {NoSensor}]
  /\ faults \in 0..MaxFaults /\ job \in Job /\ unsure \subseteq PIO

LightsTypeOK ==
  /\ moving \subseteq Light /\ lastEdges \subseteq Light /\ flashing \subseteq Light
  /\ elapsed \in {Never, 0, 1, 2}
  /\ movedNow \subseteq Light /\ movedBefore \subseteq Light

TypeOK == PinsTypeOK /\ LightsTypeOK

\* What the server reads of a device, with the shadow standing in for the
\* pins that cannot be read, is what the device drives: through every
\* partial write, failure and restart, except for a device whose last write
\* failed (setPinsWithShadow leaves the shadow then).
ReadingsTrue ==
  pc # "down" =>
    \A d \in PIO \ unsure : \A pins \in Readings(d) :
      pins \ InputMask = latch[d] \ InputMask

\* The pin that detects the mains is never pulled down, though every write
\* about another relay writes back a level read from it (inputMask).
InputsUndriven == InputMask \subseteq latch["RELAY_PIO"]

\* A message changes the pins it names and no other, though it writes whole
\* devices, unless it acts on a reading that failed or the last write of the
\* device did.
OnlyNamedPins ==
  [][ pc = "write" /\ ~job.blind =>
        \A d \in PIO \ unsure : \A p \in AllPins :
          (p \in latch[d]) # (p \in latch'[d]) => d = job.pio /\ p \in job.pins ]_vars

\* A message about relays answers success only if every pin it names is as
\* it wants, all four chargers for setAllBatteryChargersOff, and a toggled
\* pin is back where it was.
SuccessMeansDone ==
  [][ pc = "write" /\ pc' = "accept" /\ ok' /\ ~job.blind /\ job.pio # "GENERAL_PURPOSE_PIO" =>
        latch'[job.pio] \cap job.pins = job.want ]_vars

\* The mux is never switched from one sensor to another while it is enabled
\* (setAnalogueMuxInput: "disable the device while we change things").
MuxNeverSwitchesLive ==
  [][ LET before == latch["GENERAL_PURPOSE_PIO"]
          after  == latch'["GENERAL_PURPOSE_PIO"]
      IN  pc # "down" /\ "MUX_ENABLE_BAR" \notin before \cup after =>
            Sensor(before) = Sensor(after) ]_vars

\* A light that is called flashing changed in the interval that just ended
\* and in the one before, whatever readings failed in between.  (What a
\* failed reset leaves in the latch at the first reading counts again.)
FlashingMovedTwice ==
  [][ elapsed # 0 /\ elapsed' = 0 => flashing' \subseteq movedNow \cap movedBefore ]_vars

\* A temperature is that of the battery it was asked for (ow_bus.c:1795, "Set
\* the input port used on the analogue mux", and the comments of
\* read..BattTemperature).
TemperatureIsOwn == reading.measured \in {reading.asked, NoSensor}
=============================================================================
