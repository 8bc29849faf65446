--------------------------- MODULE BatteryMonitor ---------------------------
(***************************************************************************)
(* The remaining capacity in the battery monitors of the one-wire bus      *)
(* (OneWire/src/ds2438.c, the batteries in RoboOneHardware/src/ow_bus.c    *)
(* and remaining_capacity_sync.c).                                         *)
(*                                                                         *)
(* A DS2438 integrates the current into a capacity and counts seconds, but *)
(* both are gone when it loses power.  The hardware server therefore saves *)
(* them in a page of user memory with every reading, and restores them     *)
(* when it starts if the saved time is the later one.  Every page is       *)
(* written through a scratchpad; a write that fails may have taken effect, *)
(* and a process that ends half way leaves what a failing write leaves.    *)
(***************************************************************************)
EXTENDS Integers, Sequences, FiniteSets, Outcomes

CONSTANTS
  NumBatteries,  \* MAX_NUM_BATTERY_DEVICES
  Level,         \* bound: what the integrated current accumulator may come to
  Epoch,         \* the clock at first
  MaxTime,       \* bound: seconds that pass
  MaxFaults      \* bound: failures of the bus

\* The clock is ahead of the seconds any monitor has been up for.
ASSUME BatteryMonitorAssumption ==
  /\ NumBatteries \in Nat \ {0} /\ Level \subseteq 0..255
  /\ MaxTime \in Nat /\ MaxFaults \in Nat
  /\ Epoch \in Nat /\ Epoch > MaxTime

Battery == 1..NumBatteries

\* ICA_TO_MAHOURS, MAHOURS_TO_ICA with RSENS 0.05, truncated.
Mah(ica) == (ica * 10000) \div 1024
Ica(mah) == (mah * 1024) \div 10000

MAX_REMAINING_CAPACITY_MAHOURS == 2200
MAX_REMAINING_CAPACITY_ICA == Ica(MAX_REMAINING_CAPACITY_MAHOURS)
Clamp(ica) ==
  IF Mah(ica) > MAX_REMAINING_CAPACITY_MAHOURS THEN MAX_REMAINING_CAPACITY_ICA ELSE ica

VARIABLES
  pc,         \* what the hardware server is doing
  device,     \* the device it has come to
  result,     \* of setting up the devices: success, or a device not found
  monitor,    \* the memory of each battery monitor
  now,        \* the system clock
  faults,     \* failures of the bus so far
  answered,   \* history: the capacity of the battery last answered or set
  troubled,   \* history: monitors with a failure since they were last set up
  calibrated  \* history: monitors that were calibrated

vars == <<pc, device, result, monitor, now, faults, answered, troubled, calibrated>>

\* A capacity and when it was so; lost: it is not that of the battery, but
\* what power-up or a calibration left (no field of the device).
Count == [time : 0..(Epoch + MaxTime), ica : 0..255, lost : BOOLEAN]
Zero  == [time |-> 0, ica |-> 0, lost |-> TRUE]

\* The status and configuration register: current measurement, and the rest
\* of what the server wants (charge accumulation and its shadowing).
Config == SUBSET {"IAD", "CA_EE"}
DEFAULT_DS2438_CONFIG == {"IAD", "CA_EE"}

Monitor == [volatile : Count, saved : Count, config : Config]
NoAnswer == -1

\* Monitors come with a capacity saved earlier and any configuration.
Init ==
  /\ pc = "down" /\ device = 1 /\ result = "failed"
  /\ monitor \in [Battery -> [volatile : {Zero}, config : Config,
                              saved : [time : {Epoch}, ica : Level, lost : {FALSE}]]]
  /\ now = Epoch /\ faults = 0
  /\ answered = [b \in Battery |-> NoAnswer] /\ troubled = {} /\ calibrated = {}

(***************************************************************************)
(* ds2438.c: what a call can lead to, as sets of results; w is the memory  *)
(* of a monitor and the failures so far.                                   *)
(***************************************************************************)
\* readNVPageDS2438, readSPPageDS2438 and other accesses.
Access(w) ==
  {[ok |-> TRUE, w |-> w]} \cup
  {[ok |-> FALSE, w |-> [w EXCEPT !.faults = @ + 1]] : x \in {y \in {w} : y.faults < MaxFaults}}

\* writeNVPageDS2438.
WritePage(w, page, value) ==
  LET new == [w.m EXCEPT ![page] = value] IN
  {[ok |-> TRUE, w |-> [w EXCEPT !.m = new]]} \cup
  {[ok |-> FALSE, w |-> [m |-> m, faults |-> w.faults + 1]] :
     m \in {x \in {new, w.m} : w.faults < MaxFaults}}

\* Mutant: measurement stays off once the configuration is written.
WriteNVConfigThresholdOff(w, config) ==
  LET Write(v) == WritePage(v, "config", config \ (w.m.config \cap {"IAD"}))
  IN  UNION {Write(r.w) : r \in Access(w)}

\* writeNVConfigThresholdDS2438.  If measurement was on, the configuration
\* found in the device is put back over the one just written.
WriteNVConfigThreshold(w, config) ==
  LET Write(v) == WritePage(v, "config", config)
      Suspended(v) ==
        IF "IAD" \in w.m.config
        THEN Anyway(WritePage(v, "config", w.m.config \ {"IAD"}), LAMBDA u :
               UNION {{[r2 EXCEPT !.ok = @ /\ r.ok] : r2 \in WritePage(r.w, "config", w.m.config)} :
                        r \in Write(u)})
        ELSE Write(v)
  IN  UNION {IF r.ok THEN Suspended(r.w) ELSE Write(r.w) : r \in Access(w)}

\* Mutant: the saved capacity is restored whichever time is the later.
InitTimeCapacityAlways(w) ==
  AndThen(AndThen(Access(w), Access), LAMBDA v :
    WritePage(v, "volatile", [w.m.saved EXCEPT !.ica = Clamp(@)]))

\* initTimeCapacityDS2438.
InitTimeCapacity(w) ==
  LET saved == [w.m.saved EXCEPT !.ica = Clamp(@)]
  IN  AndThen(AndThen(Access(w), Access), LAMBDA v :
        IF w.m.saved.time > w.m.volatile.time THEN WritePage(v, "volatile", saved)
        ELSE {[ok |-> TRUE, w |-> v]})

\* writeTimeCapacityDS2438 without a capacity, and with.
WriteTime(w, time) ==
  AndThen(WritePage(w, "volatile", [w.m.volatile EXCEPT !.time = time]), LAMBDA v :
    WritePage(v, "saved", [v.m.saved EXCEPT !.time = time]))

WriteTimeCapacity(w, time, mah) ==
  LET count == [time |-> time, ica |-> Ica(mah), lost |-> FALSE]
  IN  AndThen(WritePage(w, "volatile", count), LAMBDA v : WritePage(v, "saved", count))

\* readTimeCapacityCalDS2438 with writeShadow.
ReadTimeCapacity(w) ==
  AndThen(Access(w), LAMBDA v :
    WritePage(v, "saved", [v.m.volatile EXCEPT !.ica = Clamp(@)]))

\* performCalDS2438.
PerformCal(w) ==
  LET WriteCal(v) == WritePage(v, "volatile", Zero)     \* writeNVCalDS2438
      Measured == AndThen(AndThen(WriteCal(w), Access), Access)
      Suspended(v) ==
        AndThen(WritePage(v, "config", w.m.config \ {"IAD"}), LAMBDA u :
          Anyway(WriteCal(u), LAMBDA t : WritePage(t, "config", w.m.config)))
  IN  AndThen(Measured, LAMBDA v : IF "IAD" \in w.m.config THEN Suspended(v) ELSE WriteCal(v))

\* Mutant: the time is set before the capacity is restored.
SetupMonitorTimeFirst(w, time) ==
  AndThen(AndThen(WriteNVConfigThreshold(w, DEFAULT_DS2438_CONFIG), LAMBDA v : WriteTime(v, time)),
          InitTimeCapacity)

\* setupDevices, the case of a battery monitor.
SetupMonitor(w, time) ==
  AndThen(AndThen(WriteNVConfigThreshold(w, DEFAULT_DS2438_CONFIG), InitTimeCapacity),
          LAMBDA v : WriteTime(v, time))

\* swapRioBattery and its siblings; the lifetime counts have no part here.
SwapBattery(w, time, mah) == AndThen(WriteTimeCapacity(w, time, mah), Access)

(***************************************************************************)
(* The hardware server.                                                    *)
(***************************************************************************)
World(b) == [m |-> monitor[b], faults |-> faults]
Becomes(b, w) == monitor' = [monitor EXCEPT ![b] = w.m] /\ faults' = w.faults

\* For RoboOne, or for remaining_capacity_sync (batteriesOnly).
ActionHardwareServerStart ==
  /\ pc = "down" /\ pc' \in {"setup", "setupBatteries"}
  /\ device' = 1 /\ result' = "success"
  /\ UNCHANGED <<monitor, now, faults, answered, troubled, calibrated>>

\* setupDevices goes on whatever a device does; the start fails if the last
\* one did, or if one was not there.
Found(success) ==
  result' = IF result = "notFound" THEN result ELSE IF success THEN "success" ELSE "failed"
NotFound == faults < MaxFaults /\ faults' = faults + 1 /\ result' = "notFound"

Finish ==
  pc' = IF result' # "success" THEN "down" ELSE IF pc = "setup" THEN "accept" ELSE "sync"

SetupBattery ==
  /\ pc \in {"setup", "setupBatteries"} /\ device \in Battery
  /\ \/ \E r \in SetupMonitor(World(device), now) :
          /\ Becomes(device, r.w) /\ Found(r.ok)
          /\ troubled' = IF r.ok THEN troubled \ {device} ELSE troubled \cup {device}
     \/ NotFound /\ UNCHANGED <<monitor, troubled>>
  /\ IF pc = "setupBatteries" /\ device = NumBatteries
     THEN Finish /\ device' = 1
     ELSE device' = device + 1 /\ UNCHANGED pc
  /\ UNCHANGED <<now, answered, calibrated>>

\* The PIO devices after them, the last of which has the last word.
SetupPIOs ==
  /\ pc = "setup" /\ device > NumBatteries
  /\ \/ Found(TRUE) /\ UNCHANGED faults
     \/ faults < MaxFaults /\ faults' = faults + 1 /\ Found(FALSE)
     \/ NotFound
  /\ Finish /\ device' = 1
  /\ UNCHANGED <<monitor, now, answered, troubled, calibrated>>

\* HARDWARE_SERVER_STOP, a signal or a failed assertion.
ActionHardwareServerStop ==
  /\ pc # "down" /\ pc' = "down" /\ device' = 1 /\ result' = "failed"
  /\ UNCHANGED <<monitor, now, faults, answered, troubled, calibrated>>

Read(b) ==
  \E r \in ReadTimeCapacity(World(b)) :
    /\ Becomes(b, r.w)
    /\ answered' = [answered EXCEPT ![b] =
         IF r.ok /\ ~monitor[b].volatile.lost THEN Clamp(monitor[b].volatile.ica) ELSE NoAnswer]

ActionReadRemainingCapacity(b) ==
  /\ pc = "accept" /\ Read(b)
  /\ UNCHANGED <<pc, device, result, now, troubled, calibrated>>

\* remaining_capacity_sync asks for each battery in turn, whatever the
\* answers, and stops the server.
SyncReads ==
  /\ pc = "sync" /\ Read(device)
  /\ IF device = NumBatteries THEN pc' = "down" /\ device' = 1 /\ result' = "failed"
     ELSE device' = device + 1 /\ UNCHANGED <<pc, result>>
  /\ UNCHANGED <<now, troubled, calibrated>>

\* The menu calls a new battery full or discharged.
ActionSwapBattery(b) ==
  /\ pc = "accept"
  /\ \E mah \in {0, MAX_REMAINING_CAPACITY_MAHOURS} :
       \E r \in SwapBattery(World(b), now, mah) :
         /\ Becomes(b, r.w)
         /\ answered' = [answered EXCEPT ![b] = IF r.ok THEN Ica(mah) ELSE NoAnswer]
  /\ UNCHANGED <<pc, device, result, now, troubled, calibrated>>

\* performCalRioBatteryMonitor and its siblings; performCalAllBatteryMonitors
\* is the four of them until one fails.
ActionPerformCal(b) ==
  /\ pc = "accept"
  /\ \E r \in PerformCal(World(b)) :
       /\ Becomes(b, r.w)
       /\ troubled' = IF r.ok THEN troubled ELSE troubled \cup {b}
  /\ calibrated' = calibrated \cup {b}
  /\ UNCHANGED <<pc, device, result, now, answered>>

(***************************************************************************)
(* The world.                                                              *)
(***************************************************************************)
\* The monitor adds up the current while it measures.
Accumulate(b) ==
  /\ "IAD" \in monitor[b].config
  /\ \E ica \in Level : monitor' = [monitor EXCEPT ![b].volatile.ica = ica]
  /\ UNCHANGED <<pc, device, result, now, faults, answered, troubled, calibrated>>

\* The clock and the monitors go forward together.
SecondPasses ==
  /\ now < Epoch + MaxTime /\ now' = now + 1
  /\ monitor' = [b \in Battery |-> [monitor[b] EXCEPT !.volatile.time = @ + 1]]
  /\ UNCHANGED <<pc, device, result, faults, answered, troubled, calibrated>>

\* While the robot is switched off some of the monitors lose their power.
PowerLost(off) ==
  /\ pc = "down"
  /\ monitor' = [b \in Battery |->
       IF b \in off THEN [monitor[b] EXCEPT !.volatile = Zero] ELSE monitor[b]]
  /\ UNCHANGED <<pc, device, result, now, faults, answered, troubled, calibrated>>

Next ==
  \/ ActionHardwareServerStart \/ SetupBattery \/ SetupPIOs \/ ActionHardwareServerStop
  \/ SyncReads
  \/ \E b \in Battery : \/ ActionReadRemainingCapacity(b) \/ ActionSwapBattery(b)
                        \/ ActionPerformCal(b) \/ Accumulate(b)
  \/ SecondPasses
  \/ \E off \in SUBSET Battery : PowerLost(off)

Spec == Init /\ [][Next]_vars

(***************************************************************************)
(* Properties.                                                             *)
(***************************************************************************)
TypeOK ==
  /\ pc \in {"down", "setup", "setupBatteries", "accept", "sync"}
  /\ result \in {"success", "failed", "notFound"}
  /\ device \in 1..(NumBatteries + 1)
  /\ pc # "setup" => device \in Battery
  /\ monitor \in [Battery -> Monitor]
  /\ now \in Epoch..(Epoch + MaxTime) /\ faults \in 0..MaxFaults
  /\ answered \in [Battery -> 0..255 \cup {NoAnswer}]
  /\ troubled \subseteq Battery /\ calibrated \subseteq Battery

\* A capacity lost with the power never replaces the saved one, except for a
\* monitor that could not be set up (a later device hides that from the
\* answer to the start) or was calibrated.
LostOnlyIfTroubled ==
  [][ \A b \in Battery : monitor'[b].saved.lost /\ ~monitor[b].saved.lost =>
        b \in troubled \cup calibrated ]_vars

SetUp(b) ==
  /\ pc \in {"setup", "setupBatteries"} /\ device = b
  /\ device' # device \/ pc' # pc

\* When a monitor is set up, one that kept its power keeps its count, even if
\* the last saved time could not be written; one that lost it gets back the
\* capacity that was last answered or set, as often as the power fails.
SetUpRestores ==
  [][ \A b \in Battery : SetUp(b) =>
        /\ ~monitor[b].volatile.lost => monitor'[b].volatile.ica = monitor[b].volatile.ica
        /\ result' = "success" /\ monitor[b].volatile.lost /\ answered[b] # NoAnswer
             => monitor'[b].volatile.ica = answered[b] ]_vars

\* The current is measured in every monitor that has had no failure, though
\* set-up and calibration both switch that off and on again.
MeasuresUnlessTroubled ==
  /\ TypeOK
  /\ pc = "accept" => \A b \in Battery \ troubled : "IAD" \in monitor[b].config
=============================================================================
