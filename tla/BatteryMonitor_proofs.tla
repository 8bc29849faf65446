----------------------- MODULE BatteryMonitor_proofs -----------------------
(***************************************************************************)
(* Proofs about BatteryMonitor, for any number of batteries, failures and  *)
(* seconds.                                                                *)
(***************************************************************************)
EXTENDS BatteryMonitor, TLAPS

\* The memory of a monitor with the failures so far, and what a call of
\* ds2438.c leads to.
Device == [m : Monitor, faults : 0..MaxFaults]
Result == [ok : BOOLEAN, w : Device]

(***************************************************************************)
(* ds2438.c.                                                               *)
(***************************************************************************)
\* An access to the bus changes nothing in the device.
LEMMA AccessKeeps ==
  ASSUME NEW w \in Device, NEW r \in Access(w)
  PROVE  r \in Result /\ r.w.m = w.m
<1>1. CASE r = [ok |-> TRUE, w |-> w]
  BY <1>1 DEF Result, Device
<1>2. CASE w.faults < MaxFaults /\ r = [ok |-> FALSE, w |-> [w EXCEPT !.faults = @ + 1]]
  <2>1. w.faults + 1 \in 0..MaxFaults
    BY <1>2, BatteryMonitorAssumption DEF Device
  <2>2. [w EXCEPT !.faults = @ + 1] \in Device /\ [w EXCEPT !.faults = @ + 1].m = w.m
    BY <2>1 DEF Device
  <2>3. QED
    BY <1>2, <2>2 DEF Result
<1>3. QED
  BY <1>1, <1>2 DEF Access

\* A write takes effect or not, and does if it succeeds.
LEMMA WriteKeeps ==
  ASSUME NEW w \in Device, NEW page, NEW value, NEW r \in WritePage(w, page, value),
         [w.m EXCEPT ![page] = value] \in Monitor
  PROVE  /\ r \in Result
         /\ r.w.m \in {w.m, [w.m EXCEPT ![page] = value]}
         /\ r.ok => r.w.m = [w.m EXCEPT ![page] = value]
<1>1. PICK new : new = [w.m EXCEPT ![page] = value]
  OBVIOUS
<1>2. new \in Monitor
  BY <1>1
<1>3. CASE r = [ok |-> TRUE, w |-> [w EXCEPT !.m = new]]
  <2>1. [w EXCEPT !.m = new] \in Device /\ [w EXCEPT !.m = new].m = new
    BY <1>2 DEF Device
  <2>2. QED
    BY <1>1, <1>3, <2>1 DEF Result
<1>4. CASE \E m \in {x \in {new, w.m} : w.faults < MaxFaults} :
             r = [ok |-> FALSE, w |-> [m |-> m, faults |-> w.faults + 1]]
  <2>1. PICK m \in {new, w.m} : /\ w.faults < MaxFaults
                                /\ r = [ok |-> FALSE, w |-> [m |-> m, faults |-> w.faults + 1]]
    BY <1>4
  <2>2. w.faults + 1 \in 0..MaxFaults /\ m \in Monitor
    BY <1>2, <2>1, BatteryMonitorAssumption DEF Device
  <2>3. [m |-> m, faults |-> w.faults + 1] \in Device
    BY <2>2 DEF Device
  <2>4. QED
    BY <1>1, <2>1, <2>3 DEF Result
<1>5. QED
  BY <1>1, <1>3, <1>4 DEF WritePage

\* A page of the right type leaves a memory of the right type.
LEMMA Pages ==
  ASSUME NEW m \in Monitor
  PROVE  /\ \A v \in Count : /\ [m EXCEPT !["volatile"] = v] \in Monitor
                             /\ [m EXCEPT !["volatile"] = v].volatile = v
                             /\ [m EXCEPT !["volatile"] = v].saved = m.saved
                             /\ [m EXCEPT !["volatile"] = v].config = m.config
         /\ \A v \in Count : /\ [m EXCEPT !["saved"] = v] \in Monitor
                             /\ [m EXCEPT !["saved"] = v].saved = v
                             /\ [m EXCEPT !["saved"] = v].volatile = m.volatile
                             /\ [m EXCEPT !["saved"] = v].config = m.config
         /\ \A v \in Config : /\ [m EXCEPT !["config"] = v] \in Monitor
                              /\ [m EXCEPT !["config"] = v].config = v
                              /\ [m EXCEPT !["config"] = v].volatile = m.volatile
                              /\ [m EXCEPT !["config"] = v].saved = m.saved
BY DEF Monitor

\* The three pages in the terms of the memory they leave.
LEMMA WriteVolatile ==
  ASSUME NEW w \in Device, NEW v \in Count, NEW r \in WritePage(w, "volatile", v)
  PROVE  /\ r \in Result /\ r.w.m.saved = w.m.saved /\ r.w.m.config = w.m.config
         /\ r.w.m.volatile \in {w.m.volatile, v} /\ (r.ok => r.w.m.volatile = v)
<1>1. w.m \in Monitor
  BY DEF Device
<1>2. PICK new : new = [w.m EXCEPT !["volatile"] = v]
  OBVIOUS
<1>3. new \in Monitor /\ new.volatile = v /\ new.saved = w.m.saved /\ new.config = w.m.config
  BY <1>1, <1>2, Pages
<1>4. r \in Result /\ r.w.m \in {w.m, new} /\ (r.ok => r.w.m = new)
  BY <1>2, <1>3, WriteKeeps
<1>5. QED
  BY <1>3, <1>4

LEMMA WriteSaved ==
  ASSUME NEW w \in Device, NEW v \in Count, NEW r \in WritePage(w, "saved", v)
  PROVE  /\ r \in Result /\ r.w.m.volatile = w.m.volatile /\ r.w.m.config = w.m.config
         /\ r.w.m.saved \in {w.m.saved, v} /\ (r.ok => r.w.m.saved = v)
<1>1. w.m \in Monitor
  BY DEF Device
<1>2. PICK new : new = [w.m EXCEPT !["saved"] = v]
  OBVIOUS
<1>3. new \in Monitor /\ new.saved = v /\ new.volatile = w.m.volatile /\ new.config = w.m.config
  BY <1>1, <1>2, Pages
<1>4. r \in Result /\ r.w.m \in {w.m, new} /\ (r.ok => r.w.m = new)
  BY <1>2, <1>3, WriteKeeps
<1>5. QED
  BY <1>3, <1>4

LEMMA WriteConfig ==
  ASSUME NEW w \in Device, NEW v \in Config, NEW r \in WritePage(w, "config", v)
  PROVE  /\ r \in Result /\ r.w.m.volatile = w.m.volatile /\ r.w.m.saved = w.m.saved
         /\ r.w.m.config \in {w.m.config, v} /\ (r.ok => r.w.m.config = v)
<1>1. w.m \in Monitor
  BY DEF Device
<1>2. PICK new : new = [w.m EXCEPT !["config"] = v]
  OBVIOUS
<1>3. new \in Monitor /\ new.config = v /\ new.volatile = w.m.volatile /\ new.saved = w.m.saved
  BY <1>1, <1>2, Pages
<1>4. r \in Result /\ r.w.m \in {w.m, new} /\ (r.ok => r.w.m = new)
  BY <1>2, <1>3, WriteKeeps
<1>5. QED
  BY <1>3, <1>4

\* Setting the configuration: the current is measured if that succeeds.
LEMMA ConfigSet ==
  ASSUME NEW w \in Device, NEW r \in WriteNVConfigThreshold(w, DEFAULT_DS2438_CONFIG)
  PROVE  /\ r \in Result /\ r.w.m.volatile = w.m.volatile /\ r.w.m.saved = w.m.saved
         /\ r.ok => "IAD" \in r.w.m.config
<1> DEFINE found == w.m.config
           off == w.m.config \ {"IAD"}
<1>1. /\ DEFAULT_DS2438_CONFIG \in Config /\ "IAD" \in DEFAULT_DS2438_CONFIG
      /\ found \in Config /\ off \in Config
  BY DEF DEFAULT_DS2438_CONFIG, Config, Device, Monitor
<1>2. PICK a \in Access(w) :
        r \in IF a.ok
              THEN IF "IAD" \in found
                   THEN Anyway(WritePage(a.w, "config", off), LAMBDA u :
                          UNION {{[r2 EXCEPT !.ok = @ /\ x.ok] : r2 \in WritePage(x.w, "config", found)} :
                                   x \in WritePage(u, "config", DEFAULT_DS2438_CONFIG)})
                   ELSE WritePage(a.w, "config", DEFAULT_DS2438_CONFIG)
              ELSE WritePage(a.w, "config", DEFAULT_DS2438_CONFIG)
  BY DEF WriteNVConfigThreshold
<1>3. a \in Result /\ a.w \in Device /\ a.w.m = w.m
  BY AccessKeeps DEF Result
<1>4. CASE r \in WritePage(a.w, "config", DEFAULT_DS2438_CONFIG)
  BY <1>1, <1>3, <1>4, WriteConfig
<1>5. CASE /\ "IAD" \in found
           /\ r \in Anyway(WritePage(a.w, "config", off), LAMBDA u :
                      UNION {{[r2 EXCEPT !.ok = @ /\ x.ok] : r2 \in WritePage(x.w, "config", found)} :
                               x \in WritePage(u, "config", DEFAULT_DS2438_CONFIG)})
  <2> HIDE DEF found, off
  <2>1. PICK b \in WritePage(a.w, "config", off) :
          \E x \in WritePage(b.w, "config", DEFAULT_DS2438_CONFIG) :
            \E r2 \in WritePage(x.w, "config", found) : r = [r2 EXCEPT !.ok = @ /\ x.ok]
    BY <1>5 DEF Anyway
  <2>2. /\ b \in Result /\ b.w \in Device
        /\ b.w.m.volatile = w.m.volatile /\ b.w.m.saved = w.m.saved
    BY <1>1, <1>3, <2>1, WriteConfig DEF Result
  <2>3. PICK x \in WritePage(b.w, "config", DEFAULT_DS2438_CONFIG) :
            \E r2 \in WritePage(x.w, "config", found) : r = [r2 EXCEPT !.ok = @ /\ x.ok]
    BY <2>1
  <2>4. /\ x \in Result /\ x.w \in Device /\ x.ok \in BOOLEAN
        /\ x.w.m.volatile = w.m.volatile /\ x.w.m.saved = w.m.saved
    BY <1>1, <2>2, <2>3, WriteConfig DEF Result
  <2>5. PICK r2 \in WritePage(x.w, "config", found) : r = [r2 EXCEPT !.ok = @ /\ x.ok]
    BY <2>3
  <2>6. /\ r2 \in Result /\ r2.w.m.volatile = w.m.volatile /\ r2.w.m.saved = w.m.saved
        /\ r2.ok => r2.w.m.config = found
    BY <1>1, <2>4, <2>5, WriteConfig
  <2>7. r.w = r2.w /\ (r.ok => r2.ok) /\ r \in Result
    <3>1. CASE x.ok
      <4>1. r = r2
        BY <2>5, <2>6, <3>1 DEF Result
      <4>2. QED
        BY <2>6, <4>1
    <3>2. CASE ~x.ok
      <4>1. r = [r2 EXCEPT !.ok = FALSE]
        BY <2>5, <2>6, <3>2 DEF Result
      <4>2. QED
        BY <2>6, <4>1 DEF Result
    <3>3. QED
      BY <3>1, <3>2, <2>4
  <2>8. QED
    BY <1>5, <2>6, <2>7
<1>6. QED
  BY <1>2, <1>4, <1>5

(***************************************************************************)
(* The counts.  A monitor has been up for less than the clock shows, so a  *)
(* count that was lost is older than any that was not; and a count that    *)
(* was not is no older than the one saved.                                 *)
(***************************************************************************)
Clock == Epoch..(Epoch + MaxTime)
Timely(m, time) == m.volatile.time <= time /\ m.saved.time <= time
Dated(m, time) ==
  /\ ~m.saved.lost => m.saved.time >= Epoch
  /\ ~m.volatile.lost => m.volatile.time >= Epoch /\ m.saved.time <= m.volatile.time
  /\ ~m.saved.lost /\ m.volatile.lost => m.volatile.time <= time - Epoch
Restored(m) == ~m.saved.lost => ~m.volatile.lost

\* What becomes of the capacity of a monitor from m to n: a count that was
\* not lost stays, and one that was is, if all went well, the saved one.
Continued(m, n, ok) ==
  /\ ~m.volatile.lost => n.volatile.ica = m.volatile.ica
  /\ ok /\ m.volatile.lost /\ ~m.saved.lost => n.volatile.ica = Clamp(m.saved.ica)

\* A capacity fits in its byte, clamped or converted.
LEMMA Bytes ==
  /\ MAX_REMAINING_CAPACITY_ICA \in 0..255
  /\ \A ica \in 0..255 : Clamp(ica) \in 0..255
  /\ \A mah \in {0, MAX_REMAINING_CAPACITY_MAHOURS} : Ica(mah) \in 0..255
<1>1. MAX_REMAINING_CAPACITY_ICA \in 0..255
  BY DEF MAX_REMAINING_CAPACITY_ICA, MAX_REMAINING_CAPACITY_MAHOURS, Ica
<1>2. \A ica \in 0..255 : Clamp(ica) \in 0..255
  BY <1>1 DEF Clamp
<1>3. \A mah \in {0, MAX_REMAINING_CAPACITY_MAHOURS} : Ica(mah) \in 0..255
  BY DEF MAX_REMAINING_CAPACITY_MAHOURS, Ica
<1>4. QED
  BY <1>1, <1>2, <1>3

\* What is clamped, or put in by hand, is not clamped again.
LEMMA ClampedOnce ==
  /\ \A ica \in 0..255 : Clamp(Clamp(ica)) = Clamp(ica)
  /\ \A mah \in {0, MAX_REMAINING_CAPACITY_MAHOURS} : Clamp(Ica(mah)) = Ica(mah)
<1>1. MAX_REMAINING_CAPACITY_ICA = 225 /\ MAX_REMAINING_CAPACITY_MAHOURS = 2200 /\ Ica(0) = 0
  BY DEF MAX_REMAINING_CAPACITY_ICA, MAX_REMAINING_CAPACITY_MAHOURS, Ica
<1>2. Mah(225) = 2197 /\ Mah(0) = 0
  BY DEF Mah
<1>3. Clamp(225) = 225 /\ Clamp(0) = 0
  BY <1>1, <1>2 DEF Clamp
<1>4. \A ica \in 0..255 : Clamp(ica) = 225 \/ Clamp(ica) = ica
  BY <1>1 DEF Clamp
<1>5. \A mah \in {0, MAX_REMAINING_CAPACITY_MAHOURS} : Ica(mah) \in {0, 225}
  BY <1>1 DEF MAX_REMAINING_CAPACITY_ICA
<1>6. QED
  BY <1>3, <1>4, <1>5

LEMMA Clamped ==
  ASSUME NEW count \in Count
  PROVE  \E new \in Count : /\ new = [count EXCEPT !.ica = Clamp(@)]
                            /\ new.time = count.time /\ new.lost = count.lost
                            /\ new.ica = Clamp(count.ica)
<1>1. Clamp(count.ica) \in 0..255
  BY Bytes DEF Count
<1>2. /\ [count EXCEPT !.ica = Clamp(@)] \in Count
      /\ [count EXCEPT !.ica = Clamp(@)].time = count.time /\ [count EXCEPT !.ica = Clamp(@)].lost = count.lost
      /\ [count EXCEPT !.ica = Clamp(@)].ica = Clamp(count.ica)
  BY <1>1 DEF Count
<1>3. QED
  BY <1>2

LEMMA Timed ==
  ASSUME NEW count \in Count, NEW time \in Clock
  PROVE  \E new \in Count : /\ new = [count EXCEPT !.time = time]
                            /\ new.time = time /\ new.lost = count.lost
                            /\ new.ica = count.ica
<1>1. time \in 0..(Epoch + MaxTime)
  BY BatteryMonitorAssumption DEF Clock
<1>2. /\ [count EXCEPT !.time = time] \in Count
      /\ [count EXCEPT !.time = time].time = time /\ [count EXCEPT !.time = time].lost = count.lost
      /\ [count EXCEPT !.time = time].ica = count.ica
  BY <1>1 DEF Count
<1>3. QED
  BY <1>2

\* The start restores a count that was lost, if it can be restored.
LEMMA InitRestores ==
  ASSUME NEW w \in Device, NEW time \in Clock, Timely(w.m, time), NEW r \in InitTimeCapacity(w)
  PROVE  /\ r \in Result /\ Timely(r.w.m, time)
         /\ r.w.m.saved = w.m.saved /\ r.w.m.config = w.m.config
         /\ Dated(w.m, time) => /\ Dated(r.w.m, time) /\ (r.ok => Restored(r.w.m))
                               /\ Continued(w.m, r.w.m, r.ok)
<1>1. w.m \in Monitor /\ w.m.saved \in Count /\ w.m.volatile \in Count
  BY DEF Device, Monitor
<1>2. PICK count \in Count : /\ count = [w.m.saved EXCEPT !.ica = Clamp(@)]
                             /\ count.time = w.m.saved.time /\ count.lost = w.m.saved.lost
                             /\ count.ica = Clamp(w.m.saved.ica)
  BY <1>1, Clamped
<1>3. PICK a \in AndThen(Access(w), Access) :
        IF a.ok
        THEN IF w.m.saved.time > w.m.volatile.time THEN r \in WritePage(a.w, "volatile", count)
             ELSE r = [ok |-> TRUE, w |-> a.w]
        ELSE r = a
  BY <1>2 DEF InitTimeCapacity, AndThen
<1>4. a \in Result /\ a.w \in Device /\ a.w.m = w.m
  <2>1. PICK b \in Access(w) : IF b.ok THEN a \in Access(b.w) ELSE a = b
    BY <1>3 DEF AndThen
  <2>2. b \in Result /\ b.w \in Device /\ b.w.m = w.m
    BY AccessKeeps DEF Result
  <2>3. a \in Result /\ a.w.m = w.m
    BY <2>1, <2>2, AccessKeeps
  <2>4. QED
    BY <2>3 DEF Result
<1>5. \A c \in Count : c.time \in Int /\ c.lost \in BOOLEAN
  BY BatteryMonitorAssumption DEF Count
<1>6. CASE a.ok /\ w.m.saved.time > w.m.volatile.time
  <2>1. /\ r \in Result /\ r.w.m.saved = w.m.saved /\ r.w.m.config = w.m.config
        /\ r.w.m.volatile \in {w.m.volatile, count} /\ (r.ok => r.w.m.volatile = count)
    BY <1>3, <1>4, <1>6, WriteVolatile
  <2>2. CASE r.w.m.volatile = w.m.volatile /\ ~r.ok
    BY <2>1, <2>2 DEF Timely, Dated, Continued
  <2>3. CASE r.w.m.volatile = count
    <3>1. Timely(r.w.m, time)
      BY <1>2, <2>1, <2>3 DEF Timely
    <3>2. Restored(r.w.m)
      BY <1>2, <2>1, <2>3 DEF Restored
    <3>3. ASSUME Dated(w.m, time)
          PROVE  Dated(r.w.m, time) /\ Continued(w.m, r.w.m, r.ok)
      <4>1. w.m.volatile.lost
        BY <1>1, <1>5, <1>6, <3>3 DEF Dated
      <4>2. r.w.m.volatile.time = r.w.m.saved.time /\ r.w.m.saved.time \in Int
        BY <1>1, <1>2, <1>5, <2>1, <2>3
      <4>3. Dated(r.w.m, time)
        BY <1>2, <2>1, <2>3, <3>2, <3>3, <4>2 DEF Dated, Restored
      <4>4. QED
        BY <1>2, <2>3, <4>1, <4>3 DEF Continued
    <3>4. QED
      BY <2>1, <3>1, <3>2, <3>3
  <2>4. QED
    BY <2>1, <2>2, <2>3
<1>7. CASE a.ok /\ ~(w.m.saved.time > w.m.volatile.time)
  <2>1. r \in Result /\ r.w.m = w.m
    BY <1>3, <1>4, <1>7 DEF Result
  <2>2. Dated(w.m, time) => Restored(w.m)
    <3> SUFFICES ASSUME Dated(w.m, time), ~w.m.saved.lost, w.m.volatile.lost PROVE FALSE
      BY DEF Restored
    <3>1. w.m.saved.time >= Epoch /\ w.m.volatile.time <= time - Epoch
      BY DEF Dated
    <3>2. time - Epoch < Epoch
      BY BatteryMonitorAssumption DEF Clock
    <3>3. time \in Int /\ Epoch \in Int
      BY BatteryMonitorAssumption DEF Clock
    <3>4. QED
      BY <1>1, <1>5, <1>7, <3>1, <3>2, <3>3
  <2>3. QED
    BY <2>1, <2>2 DEF Restored, Continued
<1>8. CASE ~a.ok
  BY <1>3, <1>4, <1>8 DEF Continued
<1>9. QED
  BY <1>6, <1>7, <1>8

\* A set-up that succeeds leaves the current measured and the count restored.
LEMMA SetupKeeps ==
  ASSUME NEW w \in Device, NEW time \in Clock, Timely(w.m, time), NEW r \in SetupMonitor(w, time)
  PROVE  /\ r \in Result /\ Timely(r.w.m, time)
         /\ r.w.m.saved.lost = w.m.saved.lost /\ r.w.m.saved.ica = w.m.saved.ica
         /\ r.ok => "IAD" \in r.w.m.config
         /\ Dated(w.m, time) => /\ Dated(r.w.m, time) /\ (r.ok => Restored(r.w.m))
                               /\ Continued(w.m, r.w.m, r.ok)
<1>1. PICK a \in AndThen(WriteNVConfigThreshold(w, DEFAULT_DS2438_CONFIG), InitTimeCapacity) :
        IF a.ok THEN r \in WriteTime(a.w, time) ELSE r = a
  BY DEF SetupMonitor, AndThen
<1>2. PICK b \in WriteNVConfigThreshold(w, DEFAULT_DS2438_CONFIG) :
        IF b.ok THEN a \in InitTimeCapacity(b.w) ELSE a = b
  BY <1>1 DEF AndThen
<1>3. /\ b \in Result /\ b.w \in Device
      /\ b.w.m.volatile = w.m.volatile /\ b.w.m.saved = w.m.saved
      /\ b.ok => "IAD" \in b.w.m.config
  BY ConfigSet DEF Result
<1>4. Timely(b.w.m, time) /\ (Dated(w.m, time) => Dated(b.w.m, time))
  BY <1>3 DEF Timely, Dated
<1>5. /\ a \in Result /\ a.w \in Device /\ Timely(a.w.m, time)
      /\ a.w.m.saved = w.m.saved
      /\ a.ok => "IAD" \in a.w.m.config
      /\ Dated(w.m, time) => /\ Dated(a.w.m, time) /\ (a.ok => Restored(a.w.m))
                            /\ Continued(w.m, a.w.m, a.ok)
  <2>1. CASE b.ok
    <3>1. /\ a \in Result /\ Timely(a.w.m, time)
          /\ a.w.m.saved = b.w.m.saved /\ a.w.m.config = b.w.m.config
          /\ Dated(b.w.m, time) => /\ Dated(a.w.m, time) /\ (a.ok => Restored(a.w.m))
                                  /\ Continued(b.w.m, a.w.m, a.ok)
      BY <1>2, <1>3, <1>4, <2>1, InitRestores
    <3>2. QED
      BY <1>3, <1>4, <2>1, <3>1 DEF Result, Continued
  <2>2. CASE ~b.ok
    BY <1>2, <1>3, <1>4, <2>2 DEF Continued
  <2>3. QED
    BY <2>1, <2>2
<1>6. CASE ~a.ok
  BY <1>1, <1>5, <1>6
<1>7. CASE a.ok
  <2>1. a.w.m.volatile \in Count /\ a.w.m.saved \in Count
    BY <1>5 DEF Device, Monitor
  <2>2. PICK count \in Count : /\ count = [a.w.m.volatile EXCEPT !.time = time]
                               /\ count.time = time /\ count.lost = a.w.m.volatile.lost
                               /\ count.ica = a.w.m.volatile.ica
    BY <2>1, Timed
  <2>3. PICK c \in WritePage(a.w, "volatile", count) :
          IF c.ok THEN r \in WritePage(c.w, "saved", [c.w.m.saved EXCEPT !.time = time]) ELSE r = c
    BY <1>1, <1>7, <2>2 DEF WriteTime, AndThen
  <2>4. /\ c \in Result /\ c.w \in Device
        /\ c.w.m.saved = a.w.m.saved /\ c.w.m.config = a.w.m.config
        /\ c.w.m.volatile \in {a.w.m.volatile, count} /\ (c.ok => c.w.m.volatile = count)
    BY <1>5, <2>3, WriteVolatile DEF Result
  <2>5. PICK saved \in Count : /\ saved = [c.w.m.saved EXCEPT !.time = time]
                               /\ saved.time = time /\ saved.lost = a.w.m.saved.lost
                               /\ saved.ica = a.w.m.saved.ica
    BY <2>1, <2>4, Timed
  <2>6. /\ r \in Result /\ r.w.m.config = a.w.m.config
        /\ r.w.m.volatile \in {a.w.m.volatile, count}
        /\ r.w.m.saved \in {a.w.m.saved, saved}
        /\ r.w.m.saved = a.w.m.saved \/ r.w.m.volatile = count
    <3>1. CASE c.ok
      <4>1. r \in WritePage(c.w, "saved", saved)
        BY <2>3, <2>5, <3>1
      <4>2. /\ r \in Result /\ r.w.m.volatile = c.w.m.volatile /\ r.w.m.config = c.w.m.config
            /\ r.w.m.saved \in {c.w.m.saved, saved}
        BY <2>4, <4>1, WriteSaved
      <4>3. QED
        BY <2>4, <3>1, <4>2
    <3>2. CASE ~c.ok
      BY <2>3, <2>4, <3>2
    <3>3. QED
      BY <3>1, <3>2
  <2>7. /\ r.w.m.volatile.lost = a.w.m.volatile.lost /\ r.w.m.saved.lost = a.w.m.saved.lost
        /\ r.w.m.volatile.ica = a.w.m.volatile.ica /\ r.w.m.saved.ica = a.w.m.saved.ica
    BY <2>2, <2>5, <2>6
  <2>8. /\ r.w.m.volatile.time \in {a.w.m.volatile.time, time}
        /\ \/ r.w.m.saved.time = a.w.m.saved.time
           \/ r.w.m.saved.time = time /\ r.w.m.volatile.time = time
    BY <2>2, <2>5, <2>6
  <2>9. time \in Int /\ Epoch \in Int /\ time >= Epoch
    BY BatteryMonitorAssumption DEF Clock
  <2>10. Timely(r.w.m, time)
    BY <1>5, <2>8, <2>9 DEF Timely
  <2>11. Dated(w.m, time) => Dated(r.w.m, time) /\ Restored(r.w.m) /\ Continued(w.m, r.w.m, TRUE)
    <3>1. 0..(Epoch + MaxTime) \subseteq Int
      BY BatteryMonitorAssumption
    <3>2. a.w.m.volatile.time \in Int /\ a.w.m.saved.time \in Int
      BY <2>1, <3>1 DEF Count
    <3>3. a.w.m.volatile.time <= time /\ a.w.m.saved.time <= time
      BY <1>5 DEF Timely
    <3>4. SUFFICES ASSUME Dated(w.m, time)
                   PROVE  Dated(r.w.m, time) /\ Restored(r.w.m) /\ Continued(w.m, r.w.m, TRUE)
      OBVIOUS
    <3>5. Dated(a.w.m, time) /\ Restored(a.w.m) /\ Continued(w.m, a.w.m, TRUE)
      BY <1>5, <1>7, <3>4
    <3>6. Restored(r.w.m) /\ Continued(w.m, r.w.m, TRUE)
      BY <2>7, <3>5 DEF Restored, Continued
    <3>7. Dated(r.w.m, time)
      <4>1. ~r.w.m.saved.lost => r.w.m.saved.time >= Epoch
        BY <2>7, <2>8, <2>9, <3>5 DEF Dated
      <4>2. ~r.w.m.volatile.lost => r.w.m.volatile.time >= Epoch
        BY <2>7, <2>8, <2>9, <3>5 DEF Dated
      <4>3. ~a.w.m.volatile.lost => r.w.m.saved.time <= r.w.m.volatile.time
        <5>1. CASE r.w.m.saved.time = a.w.m.saved.time
          BY <5>1, <2>8, <3>3, <3>5 DEF Dated
        <5>2. CASE r.w.m.saved.time = time /\ r.w.m.volatile.time = time
          BY <5>2, <2>9
        <5>3. QED
          BY <5>1, <5>2, <2>8
      <4>4. ~(~r.w.m.saved.lost /\ r.w.m.volatile.lost)
        BY <3>6 DEF Restored
      <4>5. QED
        BY <2>7, <4>1, <4>2, <4>3, <4>4 DEF Dated
    <3>8. QED
      BY <3>6, <3>7
  <2>12. QED
    BY <1>5, <1>7, <2>6, <2>7, <2>10, <2>11 DEF Continued
<1>8. QED
  BY <1>6, <1>7

\* A reading saves the count there is, so it loses one only if that is lost.
LEMMA ReadKeeps ==
  ASSUME NEW w \in Device, NEW time \in Clock, Timely(w.m, time), NEW r \in ReadTimeCapacity(w)
  PROVE  /\ r \in Result /\ Timely(r.w.m, time)
         /\ r.w.m.volatile = w.m.volatile /\ r.w.m.config = w.m.config
         /\ Dated(w.m, time) => Dated(r.w.m, time)
         /\ Restored(w.m) => Restored(r.w.m) /\ (r.w.m.saved.lost => w.m.saved.lost)
         /\ r.ok => /\ r.w.m.saved.lost = w.m.volatile.lost
                    /\ r.w.m.saved.ica = Clamp(w.m.volatile.ica)
<1>1. w.m.volatile \in Count
  BY DEF Device, Monitor
<1>2. PICK count \in Count : /\ count = [w.m.volatile EXCEPT !.ica = Clamp(@)]
                             /\ count.time = w.m.volatile.time /\ count.lost = w.m.volatile.lost
                             /\ count.ica = Clamp(w.m.volatile.ica)
  BY <1>1, Clamped
<1>3. PICK a \in Access(w) :
        IF a.ok THEN r \in WritePage(a.w, "saved", [a.w.m.volatile EXCEPT !.ica = Clamp(@)])
        ELSE r = a
  BY DEF ReadTimeCapacity, AndThen
<1>4. a \in Result /\ a.w \in Device /\ a.w.m = w.m
  BY AccessKeeps DEF Result
<1>5. CASE ~a.ok
  BY <1>3, <1>4, <1>5 DEF Restored
<1>6. CASE a.ok
  <2>1. r \in WritePage(a.w, "saved", count)
    BY <1>2, <1>3, <1>4, <1>6
  <2>2. /\ r \in Result /\ r.w.m.volatile = w.m.volatile /\ r.w.m.config = w.m.config
        /\ r.w.m.saved \in {w.m.saved, count} /\ (r.ok => r.w.m.saved = count)
    BY <1>4, <2>1, WriteSaved
  <2>3. w.m.volatile.time \in Int /\ time \in Int /\ Epoch \in Int
    BY <1>1, BatteryMonitorAssumption DEF Count, Clock
  <2>4. CASE r.w.m.saved = w.m.saved /\ ~r.ok
    BY <2>2, <2>4 DEF Timely, Dated, Restored
  <2>5. CASE r.w.m.saved = count
    <3>1. Timely(r.w.m, time) /\ (Dated(w.m, time) => Dated(r.w.m, time))
      BY <1>2, <2>2, <2>3, <2>5 DEF Timely, Dated
    <3>2. Restored(w.m) => Restored(r.w.m) /\ (r.w.m.saved.lost => w.m.saved.lost)
      BY <1>2, <2>2, <2>5 DEF Restored
    <3>3. QED
      BY <1>2, <2>2, <2>5, <3>1, <3>2
  <2>6. QED
    BY <2>2, <2>4, <2>5
<1>7. QED
  BY <1>5, <1>6

\* A battery that is swapped has a count of its own, in both pages.
LEMMA SwapKeeps ==
  ASSUME NEW w \in Device, NEW time \in Clock, Timely(w.m, time),
         NEW mah \in {0, MAX_REMAINING_CAPACITY_MAHOURS}, NEW r \in SwapBattery(w, time, mah)
  PROVE  /\ r \in Result /\ Timely(r.w.m, time)
         /\ r.w.m.config = w.m.config /\ (r.w.m.saved.lost => w.m.saved.lost)
         /\ Dated(w.m, time) => Dated(r.w.m, time)
         /\ Restored(w.m) => Restored(r.w.m)
         /\ r.ok => ~r.w.m.saved.lost /\ r.w.m.saved.ica = Ica(mah)
<1>1. time \in 0..(Epoch + MaxTime) /\ time >= Epoch /\ time \in Int
  BY BatteryMonitorAssumption DEF Clock
<1>2. PICK count : count = [time |-> time, ica |-> Ica(mah), lost |-> FALSE]
  OBVIOUS
<1>3. count \in Count /\ count.time = time /\ ~count.lost /\ count.ica = Ica(mah)
  BY <1>1, <1>2, Bytes DEF Count
<1>4. PICK a \in WriteTimeCapacity(w, time, mah) : IF a.ok THEN r \in Access(a.w) ELSE r = a
  BY DEF SwapBattery, AndThen
<1>5. PICK b \in WritePage(w, "volatile", count) :
        IF b.ok THEN a \in WritePage(b.w, "saved", count) ELSE a = b
  BY <1>2, <1>4 DEF WriteTimeCapacity, AndThen
<1>6. /\ b \in Result /\ b.w \in Device
      /\ b.w.m.saved = w.m.saved /\ b.w.m.config = w.m.config
      /\ b.w.m.volatile \in {w.m.volatile, count} /\ (b.ok => b.w.m.volatile = count)
  BY <1>3, <1>5, WriteVolatile DEF Result
<1>7. /\ a \in Result /\ a.w \in Device /\ a.w.m.config = w.m.config
      /\ \/ a.w.m.volatile \in {w.m.volatile, count} /\ a.w.m.saved = w.m.saved
         \/ a.w.m.volatile = count /\ a.w.m.saved = count
      /\ a.ok => a.w.m.saved = count
  <2>1. CASE b.ok
    <3>1. /\ a \in Result /\ a.w.m.volatile = b.w.m.volatile
          /\ a.w.m.config = b.w.m.config /\ a.w.m.saved \in {b.w.m.saved, count}
          /\ a.ok => a.w.m.saved = count
      BY <1>3, <1>5, <1>6, <2>1, WriteSaved
    <3>2. QED
      BY <1>6, <2>1, <3>1 DEF Result
  <2>2. CASE ~b.ok
    BY <1>5, <1>6, <2>2
  <2>3. QED
    BY <2>1, <2>2
<1>8. r \in Result /\ r.w.m = a.w.m /\ (r.ok => a.ok)
  <2>1. CASE a.ok
    BY <1>4, <1>7, <2>1, AccessKeeps
  <2>2. CASE ~a.ok
    BY <1>4, <1>7, <2>2
  <2>3. QED
    BY <2>1, <2>2
<1>9. w.m.saved.time \in Int /\ w.m.volatile.time \in Int
  BY BatteryMonitorAssumption DEF Device, Monitor, Count
<1>10. QED
  BY <1>1, <1>3, <1>7, <1>8, <1>9 DEF Timely, Dated, Restored

\* A calibration that succeeds leaves the configuration as it was.
LEMMA CalKeeps ==
  ASSUME NEW w \in Device, NEW time \in Clock, Timely(w.m, time), NEW r \in PerformCal(w)
  PROVE  /\ r \in Result /\ Timely(r.w.m, time)
         /\ r.w.m.saved = w.m.saved
         /\ r.ok => r.w.m.config = w.m.config
         /\ Dated(w.m, time) => Dated(r.w.m, time)
<1>1. Zero \in Count /\ Zero.time = 0 /\ Zero.lost
  BY BatteryMonitorAssumption DEF Zero, Count
<1>2. w.m.config \in Config /\ w.m.config \ {"IAD"} \in Config
  BY DEF Device, Monitor, Config
<1>3. PICK off : off = w.m.config \ {"IAD"}
  OBVIOUS
<1>4. \A v \in Device : \A x \in WritePage(v, "volatile", Zero) :
        /\ x \in Result /\ x.w \in Device
        /\ x.w.m.saved = v.m.saved /\ x.w.m.config = v.m.config
        /\ x.w.m.volatile \in {v.m.volatile, Zero}
  BY <1>1, WriteVolatile DEF Result
<1>5. PICK a \in AndThen(AndThen(WritePage(w, "volatile", Zero), Access), Access) :
        IF a.ok
        THEN IF "IAD" \in w.m.config
             THEN r \in AndThen(WritePage(a.w, "config", off), LAMBDA u :
                          Anyway(WritePage(u, "volatile", Zero), LAMBDA t :
                                   WritePage(t, "config", w.m.config)))
             ELSE r \in WritePage(a.w, "volatile", Zero)
        ELSE r = a
  BY <1>3 DEF PerformCal, AndThen
<1>6. /\ a \in Result /\ a.w \in Device
      /\ a.w.m.saved = w.m.saved /\ a.w.m.config = w.m.config
      /\ a.w.m.volatile \in {w.m.volatile, Zero}
  <2>1. PICK b \in AndThen(WritePage(w, "volatile", Zero), Access) :
          IF b.ok THEN a \in Access(b.w) ELSE a = b
    BY <1>5 DEF AndThen
  <2>2. PICK c \in WritePage(w, "volatile", Zero) : IF c.ok THEN b \in Access(c.w) ELSE b = c
    BY <2>1 DEF AndThen
  <2>3. /\ c \in Result /\ c.w \in Device
        /\ c.w.m.saved = w.m.saved /\ c.w.m.config = w.m.config
        /\ c.w.m.volatile \in {w.m.volatile, Zero}
    BY <1>4, <2>2
  <2>4. b \in Result /\ b.w \in Device /\ b.w.m = c.w.m
    <3>1. CASE c.ok
      BY <2>2, <2>3, <3>1, AccessKeeps DEF Result
    <3>2. CASE ~c.ok
      BY <2>2, <2>3, <3>2
    <3>3. QED
      BY <3>1, <3>2
  <2>5. a \in Result /\ a.w \in Device /\ a.w.m = c.w.m
    <3>1. CASE b.ok
      BY <2>1, <2>4, <3>1, AccessKeeps DEF Result
    <3>2. CASE ~b.ok
      BY <2>1, <2>4, <3>2
    <3>3. QED
      BY <3>1, <3>2
  <2>6. QED
    BY <2>3, <2>5
<1>7. /\ r \in Result /\ r.w.m.saved = w.m.saved
      /\ r.w.m.volatile \in {w.m.volatile, Zero}
      /\ r.ok => r.w.m.config = w.m.config
  <2>1. CASE ~a.ok
    BY <1>5, <1>6, <2>1
  <2>2. CASE a.ok /\ "IAD" \notin w.m.config
    <3>1. r \in WritePage(a.w, "volatile", Zero)
      BY <1>5, <2>2
    <3>2. QED
      BY <1>4, <1>6, <3>1
  <2>3. CASE a.ok /\ "IAD" \in w.m.config
    <3>1. PICK b \in WritePage(a.w, "config", off) :
            IF b.ok THEN r \in Anyway(WritePage(b.w, "volatile", Zero), LAMBDA t :
                                        WritePage(t, "config", w.m.config))
            ELSE r = b
      BY <1>5, <2>3 DEF AndThen
    <3>2. /\ b \in Result /\ b.w \in Device
          /\ b.w.m.saved = w.m.saved /\ b.w.m.volatile \in {w.m.volatile, Zero}
      BY <1>2, <1>3, <1>6, <3>1, WriteConfig DEF Result
    <3>3. CASE ~b.ok
      BY <3>1, <3>2, <3>3
    <3>4. CASE b.ok
      <4>1. PICK c \in WritePage(b.w, "volatile", Zero) : r \in WritePage(c.w, "config", w.m.config)
        BY <3>1, <3>4 DEF Anyway
      <4>2. /\ c.w \in Device /\ c.w.m.saved = w.m.saved
            /\ c.w.m.volatile \in {w.m.volatile, Zero}
        BY <1>4, <3>2, <4>1
      <4>3. QED
        BY <1>2, <4>1, <4>2, WriteConfig
    <3>5. QED
      BY <3>3, <3>4
  <2>4. QED
    BY <2>1, <2>2, <2>3
<1>8. time \in Nat /\ Epoch \in Nat /\ time >= Epoch
  BY BatteryMonitorAssumption DEF Clock
<1>9. QED
  BY <1>1, <1>7, <1>8 DEF Timely, Dated

(***************************************************************************)
(* The inductive invariant.                                                *)
(***************************************************************************)
\* Monitors whose set-up is behind the server: a device that was not there
\* ends the start, whatever follows.
SetUpDone(b) ==
  \/ pc \in {"accept", "sync"}
  \/ pc \in {"setup", "setupBatteries"} /\ result # "notFound" /\ b < device

CountInv ==
  \A b \in Battery : Timely(monitor[b], now) /\ Dated(monitor[b], now)

\* Those of them that had no failure measure, and count on from what they saved.
SetUpInv ==
  \A b \in Battery \ troubled : SetUpDone(b) =>
    "IAD" \in monitor[b].config /\ (b \notin calibrated => Restored(monitor[b]))

\* A capacity that was answered or set is saved, and fits.
Holds(m, ica) == ~m.saved.lost /\ m.saved.ica = ica /\ Clamp(ica) = ica
AnsweredInv ==
  \A b \in Battery : answered[b] # NoAnswer => Holds(monitor[b], answered[b])

IInv == TypeOK /\ CountInv /\ SetUpInv /\ AnsweredInv

\* The step in which a saved capacity gives way to a lost one.
Loses(b) == monitor'[b].saved.lost /\ ~monitor[b].saved.lost
OnlyTroubledLose == \A b \in Battery : Loses(b) => b \in troubled \cup calibrated

LEMMA InitKeeps == Init => IInv
<1> SUFFICES ASSUME Init PROVE IInv
  OBVIOUS
<1>1. Epoch \in 0..(Epoch + MaxTime) /\ 0 \in 0..(Epoch + MaxTime) /\ Level \subseteq 0..255
      /\ Epoch \in Nat /\ Epoch \in Epoch..(Epoch + MaxTime) /\ 0 \in 0..MaxFaults
  BY BatteryMonitorAssumption
<1>2. 1 \in Battery /\ 1 \in 1..(NumBatteries + 1)
  BY BatteryMonitorAssumption DEF Battery
<1>3. Zero \in Count /\ Zero.time = 0 /\ Zero.lost
  BY <1>1 DEF Zero, Count
<1>4. [time : {Epoch}, ica : Level, lost : {FALSE}] \subseteq Count
  BY <1>1 DEF Count
<1>5. \A b \in Battery : /\ monitor[b] \in Monitor
                         /\ monitor[b].volatile = Zero
                         /\ monitor[b].saved.time = Epoch /\ ~monitor[b].saved.lost
  BY <1>3, <1>4 DEF Init, Monitor
<1>6. monitor \in [Battery -> Monitor]
  BY <1>3, <1>4 DEF Init, Monitor
<1>7. answered \in [Battery -> 0..255 \cup {NoAnswer}]
  BY DEF Init
<1>8. TypeOK
  BY <1>1, <1>2, <1>6, <1>7 DEF Init, TypeOK
<1>9. now = Epoch /\ pc = "down"
  BY DEF Init
<1>10. CountInv
  BY <1>1, <1>3, <1>5, <1>9 DEF CountInv, Timely, Dated
<1>11. SetUpInv
  BY <1>9 DEF SetUpInv, SetUpDone
<1>12. AnsweredInv
  BY DEF Init, AnsweredInv
<1>13. QED
  BY <1>8, <1>10, <1>11, <1>12 DEF IInv

(***************************************************************************)
(* The server's steps.                                                     *)
(***************************************************************************)
\* What the steps work on.
LEMMA Worlds ==
  ASSUME IInv, NEW b \in Battery
  PROVE  /\ World(b) \in Device /\ World(b).m = monitor[b]
         /\ now \in Clock /\ Timely(monitor[b], now)
BY DEF IInv, TypeOK, World, Device, Clock, CountInv

\* A step that neither saves nor answers.
LEMMA AnswersKept ==
  ASSUME IInv, answered' = answered,
         \A b \in Battery : /\ monitor'[b].saved.lost = monitor[b].saved.lost
                            /\ monitor'[b].saved.ica = monitor[b].saved.ica
  PROVE  AnsweredInv'
BY DEF IInv, AnsweredInv, Holds

LEMMA StartKeeps == ASSUME IInv, ActionHardwareServerStart PROVE IInv' /\ OnlyTroubledLose
<1>1. /\ pc' \in {"setup", "setupBatteries"} /\ device' = 1
      /\ monitor' = monitor /\ now' = now /\ faults' = faults /\ answered' = answered
      /\ troubled' = troubled /\ calibrated' = calibrated /\ result' = "success"
  BY DEF ActionHardwareServerStart
<1>2. 1 \in Battery /\ 1 \in 1..(NumBatteries + 1) /\ \A b \in Battery : ~(b < 1)
  BY BatteryMonitorAssumption DEF Battery
<1>3. TypeOK'
  BY <1>1, <1>2 DEF IInv, TypeOK
<1>4. CountInv'
  BY <1>1 DEF IInv, CountInv
<1>5. SetUpInv'
  BY <1>1, <1>2 DEF SetUpInv, SetUpDone
<1>6. AnsweredInv'
  BY <1>1, AnswersKept
<1>7. QED
  BY <1>1, <1>3, <1>4, <1>5, <1>6 DEF IInv, OnlyTroubledLose, Loses

LEMMA StopKeeps == ASSUME IInv, ActionHardwareServerStop PROVE IInv' /\ OnlyTroubledLose
<1>1. /\ pc' = "down" /\ device' = 1 /\ result' = "failed"
      /\ monitor' = monitor /\ now' = now /\ faults' = faults /\ answered' = answered
      /\ troubled' = troubled /\ calibrated' = calibrated
  BY DEF ActionHardwareServerStop
<1>2. 1 \in Battery /\ 1 \in 1..(NumBatteries + 1)
  BY BatteryMonitorAssumption DEF Battery
<1>3. TypeOK'
  BY <1>1, <1>2 DEF IInv, TypeOK
<1>4. CountInv' /\ SetUpInv'
  BY <1>1 DEF IInv, CountInv, SetUpInv, SetUpDone
<1>5. AnsweredInv'
  BY <1>1, AnswersKept
<1>6. QED
  BY <1>1, <1>3, <1>4, <1>5 DEF IInv, OnlyTroubledLose, Loses

\* Where the devices end.
LEMMA FinishTypes ==
  ASSUME pc \in {"setup", "setupBatteries"}, Finish
  PROVE  /\ pc' \in {"down", "accept", "sync"}
         /\ pc' # "down" => result' = "success"
BY DEF Finish

LEMMA PIOsKeep == ASSUME IInv, SetupPIOs PROVE IInv' /\ OnlyTroubledLose
<1>1. /\ pc = "setup" /\ device > NumBatteries /\ device' = 1 /\ Finish
      /\ monitor' = monitor /\ now' = now /\ answered' = answered
      /\ troubled' = troubled /\ calibrated' = calibrated
  BY DEF SetupPIOs
<1>2. /\ result' \in {"success", "failed", "notFound"}
      /\ result' = "success" => result # "notFound"
      /\ faults' \in 0..MaxFaults
  BY BatteryMonitorAssumption DEF SetupPIOs, Found, NotFound, IInv, TypeOK
<1>3. pc' \in {"down", "accept", "sync"} /\ (pc' # "down" => result' = "success")
  BY <1>1, FinishTypes
<1>4. 1 \in Battery /\ 1 \in 1..(NumBatteries + 1)
  BY BatteryMonitorAssumption DEF Battery
<1>5. TypeOK'
  BY <1>1, <1>2, <1>3, <1>4 DEF IInv, TypeOK
<1>6. CountInv'
  BY <1>1 DEF IInv, CountInv
<1>7. SetUpInv'
  <2>1. \A b \in Battery : b < device
    BY <1>1, BatteryMonitorAssumption DEF Battery, IInv, TypeOK
  <2>2. \A b \in Battery : SetUpDone(b)' => SetUpDone(b)
    BY <1>1, <1>2, <1>3, <2>1 DEF SetUpDone
  <2>3. QED
    BY <1>1, <2>2 DEF IInv, SetUpInv
<1>8. AnsweredInv'
  BY <1>1, AnswersKept
<1>9. QED
  BY <1>1, <1>5, <1>6, <1>7, <1>8 DEF IInv, OnlyTroubledLose, Loses

LEMMA SetupKeepsAll == ASSUME IInv, SetupBattery PROVE IInv' /\ OnlyTroubledLose
<1>1. /\ pc \in {"setup", "setupBatteries"} /\ device \in Battery
      /\ now' = now /\ answered' = answered /\ calibrated' = calibrated
  BY DEF SetupBattery
<1>2. PICK d : d = device
  OBVIOUS
<1>3. d \in Battery
  BY <1>1, <1>2
<1>4. /\ pc' \in {"down", "setup", "setupBatteries", "accept", "sync"}
      /\ device' \in 1..(NumBatteries + 1) /\ (pc' # "setup" => device' \in Battery)
      /\ pc' \in {"accept", "sync"} => d = NumBatteries /\ result' # "notFound"
      /\ pc' \in {"setup", "setupBatteries"} => device' = d + 1
  <2>1. CASE pc = "setupBatteries" /\ device = NumBatteries
    <3>1. Finish /\ device' = 1
      BY <2>1 DEF SetupBattery
    <3>2. pc' \in {"down", "accept", "sync"} /\ (pc' # "down" => result' = "success")
      BY <2>1, <3>1, FinishTypes
    <3>3. 1 \in Battery /\ 1 \in 1..(NumBatteries + 1)
      BY BatteryMonitorAssumption DEF Battery
    <3>4. QED
      BY <1>2, <2>1, <3>1, <3>2, <3>3
  <2>2. CASE ~(pc = "setupBatteries" /\ device = NumBatteries)
    <3>1. device' = device + 1 /\ pc' = pc
      BY <2>2 DEF SetupBattery
    <3>2. device + 1 \in 1..(NumBatteries + 1)
      BY <1>1, BatteryMonitorAssumption DEF Battery
    <3>3. pc = "setupBatteries" => device + 1 \in Battery
      BY <1>1, <2>2, BatteryMonitorAssumption DEF Battery
    <3>4. QED
      BY <1>1, <1>2, <3>1, <3>2, <3>3
  <2>3. QED
    BY <2>1, <2>2
<1>5. \A b \in Battery \ {d} : SetUpDone(b)' /\ result # "notFound" => SetUpDone(b)
  BY <1>1, <1>2, <1>3, <1>4, BatteryMonitorAssumption DEF SetUpDone, Battery
<1>6. CASE \E r \in SetupMonitor(World(device), now) :
             /\ Becomes(device, r.w) /\ Found(r.ok)
             /\ troubled' = IF r.ok THEN troubled \ {device} ELSE troubled \cup {device}
  <2>1. PICK r \in SetupMonitor(World(d), now) :
             /\ Becomes(d, r.w) /\ Found(r.ok)
             /\ troubled' = IF r.ok THEN troubled \ {d} ELSE troubled \cup {d}
    BY <1>2, <1>6
  <2>2. PICK w : w = World(d)
    OBVIOUS
  <2>3. w \in Device /\ w.m = monitor[d] /\ now \in Clock /\ Timely(w.m, now)
    BY <1>3, <2>2, Worlds
  <2>4. /\ r \in Result /\ Timely(r.w.m, now)
        /\ r.w.m.saved.lost = w.m.saved.lost /\ r.w.m.saved.ica = w.m.saved.ica
        /\ r.ok => "IAD" \in r.w.m.config
        /\ Dated(w.m, now) => Dated(r.w.m, now) /\ (r.ok => Restored(r.w.m))
    BY <2>1, <2>2, <2>3, SetupKeeps
  <2>5. r.w.m \in Monitor /\ r.w.faults \in 0..MaxFaults /\ r.ok \in BOOLEAN
    BY <2>4 DEF Result, Device
  <2>6. /\ monitor' = [monitor EXCEPT ![d] = r.w.m] /\ faults' = r.w.faults
        /\ result' \in {"success", "failed", "notFound"}
        /\ result' # "notFound" => result # "notFound"
    BY <2>1 DEF Becomes, Found, IInv, TypeOK
  <2>7. monitor'[d] = r.w.m /\ \A b \in Battery \ {d} : monitor'[b] = monitor[b]
    BY <1>3, <2>6 DEF IInv, TypeOK
  <2>8. TypeOK'
    <3>1. monitor' \in [Battery -> Monitor]
      BY <2>5, <2>6 DEF IInv, TypeOK
    <3>2. troubled' \subseteq Battery
      BY <1>3, <2>1 DEF IInv, TypeOK
    <3>3. QED
      BY <1>1, <1>4, <2>5, <2>6, <3>1, <3>2 DEF IInv, TypeOK
  <2>9. CountInv'
    BY <1>1, <1>3, <2>3, <2>4, <2>7 DEF IInv, CountInv
  <2>10. SetUpInv'
    <3> SUFFICES ASSUME NEW b \in Battery, b \notin troubled', SetUpDone(b)'
                 PROVE  /\ "IAD" \in monitor'[b].config
                        /\ b \notin calibrated' => Restored(monitor'[b])
      BY DEF SetUpInv
    <3>1. CASE b = d
      <4>1. r.ok
        BY <2>1, <2>5, <3>1
      <4>2. Dated(w.m, now)
        BY <2>3, <3>1 DEF IInv, CountInv
      <4>3. QED
        BY <1>1, <2>4, <2>7, <3>1, <4>1, <4>2
    <3>2. CASE b # d
      <4>1. result # "notFound"
        BY <1>1, <1>4, <2>6 DEF SetUpDone
      <4>2. b \notin troubled
        BY <2>1, <3>2
      <4>3. QED
        BY <1>1, <1>5, <2>7, <3>2, <4>1, <4>2 DEF IInv, SetUpInv
    <3>3. QED
      BY <3>1, <3>2
  <2>11. OnlyTroubledLose
    BY <1>3, <2>3, <2>4, <2>7 DEF OnlyTroubledLose, Loses
  <2>12. AnsweredInv'
    BY <1>1, <1>3, <2>3, <2>4, <2>7, AnswersKept
  <2>13. QED
    BY <2>8, <2>9, <2>10, <2>11, <2>12 DEF IInv
<1>7. CASE NotFound /\ UNCHANGED <<monitor, troubled>>
  <2>1. /\ faults' \in 0..MaxFaults /\ result' = "notFound"
        /\ monitor' = monitor /\ troubled' = troubled
    BY <1>7, BatteryMonitorAssumption DEF NotFound, IInv, TypeOK
  <2>2. TypeOK'
    BY <1>1, <1>4, <2>1 DEF IInv, TypeOK
  <2>3. CountInv'
    BY <1>1, <2>1 DEF IInv, CountInv
  <2>4. \A b \in Battery : ~SetUpDone(b)'
    BY <1>4, <2>1 DEF SetUpDone
  <2>5. SetUpInv'
    BY <2>4 DEF SetUpInv
  <2>6. AnsweredInv'
    BY <1>1, <2>1, AnswersKept
  <2>7. QED
    BY <2>1, <2>2, <2>3, <2>5, <2>6 DEF IInv, OnlyTroubledLose, Loses
<1>8. QED
  BY <1>6, <1>7 DEF SetupBattery

\* A reading, for the robot or for remaining_capacity_sync: the rest of the
\* step says where the server goes on.
LEMMA ReadKeepsAll ==
  ASSUME IInv, NEW b \in Battery, Read(b), pc \in {"accept", "sync"},
         pc' \in {"down", "accept", "sync"}, device' \in Battery,
         result' \in {"success", "failed", "notFound"},
         now' = now, troubled' = troubled, calibrated' = calibrated
  PROVE  IInv' /\ OnlyTroubledLose
<1>1. PICK r \in ReadTimeCapacity(World(b)) :
        /\ Becomes(b, r.w)
        /\ answered' = [answered EXCEPT ![b] =
             IF r.ok /\ ~monitor[b].volatile.lost THEN Clamp(monitor[b].volatile.ica) ELSE NoAnswer]
  BY DEF Read
<1>2. PICK w : w = World(b)
  OBVIOUS
<1>3. w \in Device /\ w.m = monitor[b] /\ now \in Clock /\ Timely(w.m, now)
  BY <1>2, Worlds
<1>4. /\ r \in Result /\ Timely(r.w.m, now)
      /\ r.w.m.volatile = w.m.volatile /\ r.w.m.config = w.m.config
      /\ Dated(w.m, now) => Dated(r.w.m, now)
      /\ Restored(w.m) => Restored(r.w.m) /\ (r.w.m.saved.lost => w.m.saved.lost)
      /\ r.ok => /\ r.w.m.saved.lost = w.m.volatile.lost
                 /\ r.w.m.saved.ica = Clamp(w.m.volatile.ica)
  BY <1>1, <1>2, <1>3, ReadKeeps
<1>5. r.w.m \in Monitor /\ r.w.faults \in 0..MaxFaults
  BY <1>4 DEF Result, Device
<1>6. monitor' = [monitor EXCEPT ![b] = r.w.m] /\ faults' = r.w.faults
  BY <1>1 DEF Becomes
<1>7. monitor'[b] = r.w.m /\ \A d \in Battery \ {b} : monitor'[d] = monitor[d]
  BY <1>6 DEF IInv, TypeOK
<1>8. TypeOK'
  <2>1. Clamp(monitor[b].volatile.ica) \in 0..255
    <3>1. monitor[b] \in Monitor
      BY DEF IInv, TypeOK
    <3>2. monitor[b].volatile.ica \in 0..255
      BY <3>1 DEF Monitor, Count
    <3>3. QED
      BY <3>2, Bytes
  <2>2. answered' \in [Battery -> 0..255 \cup {NoAnswer}]
    BY <1>1, <2>1 DEF IInv, TypeOK
  <2>3. monitor' \in [Battery -> Monitor]
    BY <1>5, <1>6 DEF IInv, TypeOK
  <2>4. device' \in 1..(NumBatteries + 1)
    BY BatteryMonitorAssumption DEF Battery
  <2>5. QED
    BY <1>5, <1>6, <2>2, <2>3, <2>4 DEF IInv, TypeOK
<1>9. CountInv'
  BY <1>3, <1>4, <1>7 DEF IInv, CountInv
<1>10. \A d \in Battery \ troubled :
         "IAD" \in monitor[d].config /\ (d \notin calibrated => Restored(monitor[d]))
  BY DEF IInv, SetUpInv, SetUpDone
<1>11. SetUpInv'
  BY <1>3, <1>4, <1>7, <1>10 DEF SetUpInv
<1>12. OnlyTroubledLose
  BY <1>3, <1>4, <1>7, <1>10 DEF OnlyTroubledLose, Loses
<1>13. AnsweredInv'
  <2> SUFFICES ASSUME NEW d \in Battery, answered'[d] # NoAnswer
               PROVE  Holds(monitor'[d], answered'[d])
    BY DEF AnsweredInv
  <2>1. CASE d = b
    <3>1. answered'[b] = IF r.ok /\ ~w.m.volatile.lost THEN Clamp(w.m.volatile.ica) ELSE NoAnswer
      BY <1>1, <1>3 DEF IInv, TypeOK
    <3>2. r.ok /\ ~w.m.volatile.lost /\ answered'[b] = Clamp(w.m.volatile.ica)
      BY <2>1, <3>1
    <3>3. w.m.volatile.ica \in 0..255
      BY <1>3 DEF Device, Monitor, Count
    <3>4. Clamp(Clamp(w.m.volatile.ica)) = Clamp(w.m.volatile.ica)
      BY <3>3, ClampedOnce
    <3>5. QED
      BY <1>4, <1>7, <2>1, <3>2, <3>4 DEF Holds
  <2>2. CASE d # b
    <3>1. answered'[d] = answered[d]
      BY <1>1, <2>2 DEF IInv, TypeOK
    <3>2. QED
      BY <1>7, <2>2, <3>1 DEF IInv, AnsweredInv
  <2>3. QED
    BY <2>1, <2>2
<1>14. QED
  BY <1>8, <1>9, <1>11, <1>12, <1>13 DEF IInv

LEMMA ReadingKeeps ==
  ASSUME IInv, NEW b \in Battery, ActionReadRemainingCapacity(b) PROVE IInv' /\ OnlyTroubledLose
<1>1. /\ Read(b) /\ pc = "accept" /\ pc' = "accept" /\ device' = device /\ result' = result
      /\ now' = now /\ troubled' = troubled /\ calibrated' = calibrated
  BY DEF ActionReadRemainingCapacity
<1>2. device \in Battery /\ result \in {"success", "failed", "notFound"}
  BY <1>1 DEF IInv, TypeOK
<1>3. QED
  BY <1>1, <1>2, ReadKeepsAll

LEMMA SyncKeeps == ASSUME IInv, SyncReads PROVE IInv' /\ OnlyTroubledLose
<1>1. pc = "sync" /\ device \in Battery /\ result \in {"success", "failed", "notFound"}
  BY DEF SyncReads, IInv, TypeOK
<1>2. PICK b : b = device
  OBVIOUS
<1>3. b \in Battery /\ Read(b)
  BY <1>1, <1>2 DEF SyncReads
<1>4. now' = now /\ troubled' = troubled /\ calibrated' = calibrated
  BY DEF SyncReads
<1>5. /\ pc' \in {"down", "accept", "sync"} /\ device' \in Battery
      /\ result' \in {"success", "failed", "notFound"}
  <2>1. CASE device = NumBatteries
    BY <2>1, BatteryMonitorAssumption DEF SyncReads, Battery
  <2>2. CASE device # NumBatteries
    <3>1. device + 1 \in Battery
      BY <1>1, <2>2, BatteryMonitorAssumption DEF Battery
    <3>2. QED
      BY <1>1, <2>2, <3>1 DEF SyncReads
  <2>3. QED
    BY <2>1, <2>2
<1>6. QED
  BY <1>1, <1>3, <1>4, <1>5, ReadKeepsAll

LEMMA SwapKeepsAll ==
  ASSUME IInv, NEW b \in Battery, ActionSwapBattery(b) PROVE IInv' /\ OnlyTroubledLose
<1>1. /\ pc = "accept" /\ pc' = pc /\ device' = device /\ result' = result
      /\ now' = now /\ troubled' = troubled /\ calibrated' = calibrated
  BY DEF ActionSwapBattery
<1>2. PICK mah \in {0, MAX_REMAINING_CAPACITY_MAHOURS} :
        \E r \in SwapBattery(World(b), now, mah) :
          /\ Becomes(b, r.w)
          /\ answered' = [answered EXCEPT ![b] = IF r.ok THEN Ica(mah) ELSE NoAnswer]
  BY DEF ActionSwapBattery
<1>3. PICK r \in SwapBattery(World(b), now, mah) :
          /\ Becomes(b, r.w)
          /\ answered' = [answered EXCEPT ![b] = IF r.ok THEN Ica(mah) ELSE NoAnswer]
  BY <1>2
<1>4. PICK w : w = World(b)
  OBVIOUS
<1>5. w \in Device /\ w.m = monitor[b] /\ now \in Clock /\ Timely(w.m, now)
  BY <1>4, Worlds
<1>6. /\ r \in Result /\ Timely(r.w.m, now)
      /\ r.w.m.config = w.m.config /\ (r.w.m.saved.lost => w.m.saved.lost)
      /\ Dated(w.m, now) => Dated(r.w.m, now)
      /\ Restored(w.m) => Restored(r.w.m)
      /\ r.ok => ~r.w.m.saved.lost /\ r.w.m.saved.ica = Ica(mah)
  BY <1>2, <1>3, <1>4, <1>5, SwapKeeps
<1>7. r.w.m \in Monitor /\ r.w.faults \in 0..MaxFaults
  BY <1>6 DEF Result, Device
<1>8. monitor' = [monitor EXCEPT ![b] = r.w.m] /\ faults' = r.w.faults
  BY <1>3 DEF Becomes
<1>9. monitor'[b] = r.w.m /\ \A d \in Battery \ {b} : monitor'[d] = monitor[d]
  BY <1>8 DEF IInv, TypeOK
<1>10. TypeOK'
  <2>1. answered' \in [Battery -> 0..255 \cup {NoAnswer}]
    BY <1>2, <1>3, Bytes DEF IInv, TypeOK
  <2>2. monitor' \in [Battery -> Monitor]
    BY <1>7, <1>8 DEF IInv, TypeOK
  <2>3. QED
    BY <1>1, <1>7, <1>8, <2>1, <2>2 DEF IInv, TypeOK
<1>11. CountInv'
  BY <1>1, <1>5, <1>6, <1>9 DEF IInv, CountInv
<1>12. SetUpInv'
  BY <1>1, <1>5, <1>6, <1>9 DEF IInv, SetUpInv, SetUpDone
<1>13. OnlyTroubledLose
  BY <1>5, <1>6, <1>9 DEF OnlyTroubledLose, Loses
<1>14. AnsweredInv'
  <2> SUFFICES ASSUME NEW d \in Battery, answered'[d] # NoAnswer
               PROVE  Holds(monitor'[d], answered'[d])
    BY DEF AnsweredInv
  <2>1. CASE d = b
    <3>1. answered'[b] = IF r.ok THEN Ica(mah) ELSE NoAnswer
      BY <1>3 DEF IInv, TypeOK
    <3>2. r.ok /\ answered'[b] = Ica(mah) /\ Clamp(Ica(mah)) = Ica(mah)
      BY <1>2, <2>1, <3>1, ClampedOnce
    <3>3. QED
      BY <1>6, <1>9, <2>1, <3>2 DEF Holds
  <2>2. CASE d # b
    <3>1. answered'[d] = answered[d]
      BY <1>3, <2>2 DEF IInv, TypeOK
    <3>2. QED
      BY <1>9, <2>2, <3>1 DEF IInv, AnsweredInv
  <2>3. QED
    BY <2>1, <2>2
<1>15. QED
  BY <1>10, <1>11, <1>12, <1>13, <1>14 DEF IInv

LEMMA CalKeepsAll ==
  ASSUME IInv, NEW b \in Battery, ActionPerformCal(b) PROVE IInv' /\ OnlyTroubledLose
<1>1. /\ pc = "accept" /\ pc' = pc /\ device' = device /\ result' = result
      /\ now' = now /\ answered' = answered /\ calibrated' = calibrated \cup {b}
  BY DEF ActionPerformCal
<1>2. PICK r \in PerformCal(World(b)) :
          /\ Becomes(b, r.w)
          /\ troubled' = IF r.ok THEN troubled ELSE troubled \cup {b}
  BY DEF ActionPerformCal
<1>3. PICK w : w = World(b)
  OBVIOUS
<1>4. w \in Device /\ w.m = monitor[b] /\ now \in Clock /\ Timely(w.m, now)
  BY <1>3, Worlds
<1>5. /\ r \in Result /\ Timely(r.w.m, now)
      /\ r.w.m.saved = w.m.saved
      /\ r.ok => r.w.m.config = w.m.config
      /\ Dated(w.m, now) => Dated(r.w.m, now)
  BY <1>2, <1>3, <1>4, CalKeeps
<1>6. r.w.m \in Monitor /\ r.w.faults \in 0..MaxFaults
  BY <1>5 DEF Result, Device
<1>7. monitor' = [monitor EXCEPT ![b] = r.w.m] /\ faults' = r.w.faults
  BY <1>2 DEF Becomes
<1>8. monitor'[b] = r.w.m /\ \A d \in Battery \ {b} : monitor'[d] = monitor[d]
  BY <1>7 DEF IInv, TypeOK
<1>9. TypeOK'
  <2>1. monitor' \in [Battery -> Monitor]
    BY <1>6, <1>7 DEF IInv, TypeOK
  <2>2. troubled' \subseteq Battery /\ calibrated' \subseteq Battery
    BY <1>1, <1>2 DEF IInv, TypeOK
  <2>3. QED
    BY <1>1, <1>6, <1>7, <2>1, <2>2 DEF IInv, TypeOK
<1>10. CountInv'
  BY <1>1, <1>4, <1>5, <1>8 DEF IInv, CountInv
<1>11. SetUpInv'
  BY <1>1, <1>2, <1>4, <1>5, <1>8 DEF IInv, SetUpInv, SetUpDone
<1>12. OnlyTroubledLose
  BY <1>4, <1>5, <1>8 DEF OnlyTroubledLose, Loses
<1>13. AnsweredInv'
  BY <1>1, <1>4, <1>5, <1>8, AnswersKept
<1>14. QED
  BY <1>9, <1>10, <1>11, <1>12, <1>13 DEF IInv

(***************************************************************************)
(* The world's steps.                                                      *)
(***************************************************************************)
LEMMA AccumulateKeeps ==
  ASSUME IInv, NEW b \in Battery, Accumulate(b) PROVE IInv' /\ OnlyTroubledLose
<1>1. /\ pc' = pc /\ device' = device /\ result' = result /\ faults' = faults
      /\ now' = now /\ answered' = answered /\ calibrated' = calibrated /\ troubled' = troubled
  BY DEF Accumulate
<1>2. PICK ica \in Level : monitor' = [monitor EXCEPT ![b].volatile.ica = ica]
  BY DEF Accumulate
<1>3. monitor[b] \in Monitor /\ monitor[b].volatile \in Count /\ ica \in 0..255
  BY BatteryMonitorAssumption DEF IInv, TypeOK, Monitor
<1>4. PICK count : count = [monitor[b].volatile EXCEPT !.ica = ica]
  OBVIOUS
<1>5. /\ count \in Count
      /\ count.time = monitor[b].volatile.time /\ count.lost = monitor[b].volatile.lost
  BY <1>3, <1>4 DEF Count
<1>6. PICK m : m = [monitor[b] EXCEPT !.volatile = count]
  OBVIOUS
<1>7. /\ m \in Monitor /\ m.volatile = count
      /\ m.saved = monitor[b].saved /\ m.config = monitor[b].config
  BY <1>3, <1>5, <1>6 DEF Monitor
<1>8. monitor' = [monitor EXCEPT ![b] = m]
  BY <1>2, <1>3, <1>4, <1>6 DEF IInv, TypeOK
<1>9. monitor'[b] = m /\ \A d \in Battery \ {b} : monitor'[d] = monitor[d]
  BY <1>8 DEF IInv, TypeOK
<1>10. TypeOK'
  BY <1>1, <1>7, <1>8 DEF IInv, TypeOK
<1>11. CountInv'
  BY <1>1, <1>5, <1>7, <1>9 DEF IInv, CountInv, Timely, Dated
<1>12. SetUpInv'
  BY <1>1, <1>5, <1>7, <1>9 DEF IInv, SetUpInv, SetUpDone, Restored
<1>13. OnlyTroubledLose
  BY <1>7, <1>9 DEF OnlyTroubledLose, Loses
<1>14. AnsweredInv'
  BY <1>1, <1>7, <1>9, AnswersKept
<1>15. QED
  BY <1>10, <1>11, <1>12, <1>13, <1>14 DEF IInv

LEMMA SecondKeeps == ASSUME IInv, SecondPasses PROVE IInv' /\ OnlyTroubledLose
<1>1. /\ pc' = pc /\ device' = device /\ result' = result /\ faults' = faults
      /\ answered' = answered /\ calibrated' = calibrated /\ troubled' = troubled
      /\ now < Epoch + MaxTime /\ now' = now + 1
      /\ monitor' = [b \in Battery |-> [monitor[b] EXCEPT !.volatile.time = @ + 1]]
  BY DEF SecondPasses
<1>2. now \in Nat /\ now' \in Epoch..(Epoch + MaxTime) /\ Epoch \in Nat
  BY <1>1, BatteryMonitorAssumption DEF IInv, TypeOK
<1>3. ASSUME NEW b \in Battery
      PROVE  /\ monitor'[b] \in Monitor
             /\ monitor'[b].volatile.time = monitor[b].volatile.time + 1
             /\ monitor'[b].volatile.lost = monitor[b].volatile.lost
             /\ monitor'[b].saved = monitor[b].saved
             /\ monitor'[b].config = monitor[b].config
             /\ monitor[b].volatile.time \in Nat /\ monitor[b].saved.time \in Nat
  <2>1. monitor[b] \in Monitor /\ monitor[b].volatile \in Count /\ monitor[b].saved \in Count
    BY DEF IInv, TypeOK, Monitor
  <2>2. monitor[b].volatile.time \in Nat /\ monitor[b].saved.time \in Nat
    BY <2>1, BatteryMonitorAssumption DEF Count
  <2>3. monitor[b].volatile.time <= now
    BY DEF IInv, CountInv, Timely
  <2>4. monitor[b].volatile.time + 1 \in 0..(Epoch + MaxTime)
    BY <1>1, <1>2, <2>2, <2>3, BatteryMonitorAssumption
  <2>5. PICK count : count = [monitor[b].volatile EXCEPT !.time = monitor[b].volatile.time + 1]
    OBVIOUS
  <2>6. /\ count \in Count /\ count.time = monitor[b].volatile.time + 1
        /\ count.lost = monitor[b].volatile.lost
    BY <2>1, <2>4, <2>5 DEF Count
  <2>7. monitor'[b] = [monitor[b] EXCEPT !.volatile = count]
    BY <1>1, <2>1, <2>5 DEF Monitor, Count
  <2>8. QED
    BY <2>1, <2>2, <2>6, <2>7 DEF Monitor
<1>4. monitor' \in [Battery -> Monitor]
  BY <1>1, <1>3
<1>5. TypeOK'
  BY <1>1, <1>2, <1>4 DEF IInv, TypeOK
<1>6. CountInv'
  <2> SUFFICES ASSUME NEW b \in Battery
               PROVE  (Timely(monitor[b], now) /\ Dated(monitor[b], now))'
    BY DEF CountInv
  <2>1. Timely(monitor[b], now) /\ Dated(monitor[b], now)
    BY DEF IInv, CountInv
  <2>2. PICK m, n : m = monitor[b] /\ n = monitor'[b]
    OBVIOUS
  <2>3. /\ n.volatile.time = m.volatile.time + 1
        /\ n.volatile.lost = m.volatile.lost /\ n.saved = m.saved
        /\ m.volatile.time \in Nat /\ m.saved.time \in Nat
    BY <1>3, <2>2
  <2>4. Timely(n, now')
    BY <1>1, <1>2, <2>1, <2>2, <2>3 DEF Timely
  <2>5. ~n.saved.lost => n.saved.time >= Epoch
    BY <2>1, <2>2, <2>3 DEF Dated
  <2>6. ~n.volatile.lost => n.volatile.time >= Epoch /\ n.saved.time <= n.volatile.time
    BY <1>2, <2>1, <2>2, <2>3 DEF Dated
  <2>7. ~n.saved.lost /\ n.volatile.lost => n.volatile.time <= now' - Epoch
    BY <1>1, <1>2, <2>1, <2>2, <2>3 DEF Dated
  <2>8. QED
    BY <2>2, <2>4, <2>5, <2>6, <2>7 DEF Dated
<1>7. SetUpInv'
  BY <1>1, <1>3 DEF IInv, SetUpInv, SetUpDone, Restored
<1>8. OnlyTroubledLose
  BY <1>3 DEF OnlyTroubledLose, Loses
<1>9. AnsweredInv'
  BY <1>1, <1>3, AnswersKept
<1>10. QED
  BY <1>5, <1>6, <1>7, <1>8, <1>9 DEF IInv

LEMMA PowerKeeps == ASSUME IInv, NEW off \in SUBSET Battery, PowerLost(off) PROVE IInv' /\ OnlyTroubledLose
<1>1. /\ pc = "down" /\ pc' = pc /\ device' = device /\ result' = result /\ faults' = faults
      /\ now' = now /\ answered' = answered /\ calibrated' = calibrated /\ troubled' = troubled
      /\ monitor' = [b \in Battery |->
           IF b \in off THEN [monitor[b] EXCEPT !.volatile = Zero] ELSE monitor[b]]
  BY DEF PowerLost
<1>2. Zero \in Count /\ Zero.time = 0 /\ Zero.lost
  BY BatteryMonitorAssumption DEF Zero, Count
<1>3. now \in Nat /\ Epoch \in Nat /\ now >= Epoch
  BY BatteryMonitorAssumption DEF IInv, TypeOK
<1>4. ASSUME NEW b \in Battery
      PROVE  /\ monitor'[b] \in Monitor
             /\ monitor'[b].volatile \in {Zero, monitor[b].volatile}
             /\ monitor'[b].saved = monitor[b].saved
  <2>1. monitor[b] \in Monitor
    BY DEF IInv, TypeOK
  <2>2. QED
    BY <1>1, <1>2, <2>1 DEF Monitor
<1>5. monitor' \in [Battery -> Monitor]
  BY <1>1, <1>4
<1>6. TypeOK'
  BY <1>1, <1>5 DEF IInv, TypeOK
<1>7. CountInv'
  BY <1>1, <1>2, <1>3, <1>4 DEF IInv, CountInv, Timely, Dated
<1>8. SetUpInv'
  BY <1>1 DEF SetUpInv, SetUpDone
<1>9. OnlyTroubledLose
  BY <1>4 DEF OnlyTroubledLose, Loses
<1>10. AnsweredInv'
  BY <1>1, <1>4, AnswersKept
<1>11. QED
  BY <1>6, <1>7, <1>8, <1>9, <1>10 DEF IInv

(***************************************************************************)
(* What a set-up makes of the capacity.                                    *)
(***************************************************************************)
Restores(b) ==
  /\ ~monitor[b].volatile.lost => monitor'[b].volatile.ica = monitor[b].volatile.ica
  /\ result' = "success" /\ monitor[b].volatile.lost /\ answered[b] # NoAnswer
       => monitor'[b].volatile.ica = answered[b]

LEMMA SetupRestores == ASSUME IInv, SetupBattery PROVE Restores(device)
<1>1. PICK d \in Battery : d = device
  BY DEF SetupBattery
<1>2. CASE \E r \in SetupMonitor(World(device), now) : Becomes(device, r.w) /\ Found(r.ok)
  <2>1. PICK r \in SetupMonitor(World(d), now) : Becomes(d, r.w) /\ Found(r.ok)
    BY <1>1, <1>2
  <2>2. PICK w : w = World(d)
    OBVIOUS
  <2>3. w \in Device /\ w.m = monitor[d] /\ now \in Clock /\ Timely(w.m, now)
    BY <2>2, Worlds
  <2>4. Dated(w.m, now)
    BY <2>3 DEF IInv, CountInv
  <2>5. Continued(w.m, r.w.m, r.ok)
    BY <2>1, <2>2, <2>3, <2>4, SetupKeeps
  <2>6. monitor'[d] = r.w.m
    BY <2>1 DEF Becomes, IInv, TypeOK
  <2>7. result' = "success" => r.ok
    BY <2>1 DEF Found
  <2>8. answered[d] # NoAnswer => ~w.m.saved.lost /\ Clamp(w.m.saved.ica) = answered[d]
    BY <2>3 DEF IInv, AnsweredInv, Holds
  <2>9. QED
    BY <1>1, <2>3, <2>5, <2>6, <2>7, <2>8 DEF Restores, Continued
<1>3. CASE NotFound /\ UNCHANGED <<monitor, troubled>>
  BY <1>3 DEF NotFound, Restores
<1>4. QED
  BY <1>2, <1>3 DEF SetupBattery

\* The other steps set up no monitor, but for the end of a start half way.
LEMMA NextRestores ==
  ASSUME IInv, [Next]_vars, NEW b \in Battery, SetUp(b) PROVE Restores(b)
<1>1. /\ pc \in {"setup", "setupBatteries"} /\ device = b
      /\ device' # device \/ pc' # pc
  BY DEF SetUp
<1>2. ~(device > NumBatteries)
  BY <1>1, BatteryMonitorAssumption DEF Battery
<1>3. SetupBattery \/ ActionHardwareServerStop
  BY <1>1, <1>2 DEF Next, vars, ActionHardwareServerStart, SetupPIOs, SyncReads,
     ActionReadRemainingCapacity, ActionSwapBattery, ActionPerformCal, Accumulate,
     SecondPasses, PowerLost
<1>4. CASE SetupBattery
  BY <1>1, <1>4, SetupRestores
<1>5. CASE ActionHardwareServerStop
  BY <1>5 DEF ActionHardwareServerStop, Restores
<1>6. QED
  BY <1>3, <1>4, <1>5

(***************************************************************************)
(* Every step keeps the invariant.                                         *)
(***************************************************************************)
LEMMA NextKeeps == IInv /\ [Next]_vars => IInv' /\ OnlyTroubledLose
<1> SUFFICES ASSUME IInv, [Next]_vars PROVE IInv' /\ OnlyTroubledLose
  OBVIOUS
<1>1. CASE ActionHardwareServerStart
  BY <1>1, StartKeeps
<1>2. CASE SetupBattery
  BY <1>2, SetupKeepsAll
<1>3. CASE SetupPIOs
  BY <1>3, PIOsKeep
<1>4. CASE ActionHardwareServerStop
  BY <1>4, StopKeeps
<1>5. CASE SyncReads
  BY <1>5, SyncKeeps
<1>6. CASE \E b \in Battery : ActionReadRemainingCapacity(b)
  BY <1>6, ReadingKeeps
<1>7. CASE \E b \in Battery : ActionSwapBattery(b)
  BY <1>7, SwapKeepsAll
<1>8. CASE \E b \in Battery : ActionPerformCal(b)
  BY <1>8, CalKeepsAll
<1>9. CASE \E b \in Battery : Accumulate(b)
  BY <1>9, AccumulateKeeps
<1>10. CASE SecondPasses
  BY <1>10, SecondKeeps
<1>11. CASE \E off \in SUBSET Battery : PowerLost(off)
  BY <1>11, PowerKeeps
<1>12. CASE UNCHANGED vars
  BY <1>12 DEF vars, IInv, TypeOK, CountInv, SetUpInv, SetUpDone, AnsweredInv, OnlyTroubledLose, Loses
<1>13. QED
  BY <1>1, <1>2, <1>3, <1>4, <1>5, <1>6, <1>7, <1>8, <1>9, <1>10, <1>11, <1>12 DEF Next

\* The invariant, for any number of batteries, failures and seconds.
THEOREM Invariant == Spec => []IInv
BY InitKeeps, NextKeeps, PTL DEF Spec

\* Whatever fails, a battery monitor that was set up and calibrated without a
\* failure measures the current when the server takes requests, though both
\* switch that off on the way (writeNVConfigThresholdDS2438, performCalDS2438).
THEOREM MeasuringKept == Spec => []MeasuresUnlessTroubled
<1>1. IInv => MeasuresUnlessTroubled
  BY DEF IInv, SetUpInv, SetUpDone, MeasuresUnlessTroubled
<1>2. QED
  BY <1>1, Invariant, PTL

\* A capacity that was lost with the power never takes the place of a saved
\* one, except for a monitor with a failure since it was set up or that was
\* calibrated (initTimeCapacityDS2438, readTimeCapacityCalDS2438).
THEOREM SavedKept == Spec => LostOnlyIfTroubled
<1>1. IInv /\ [Next]_vars =>
        [ \A b \in Battery : monitor'[b].saved.lost /\ ~monitor[b].saved.lost =>
            b \in troubled \cup calibrated ]_vars
  BY NextKeeps DEF OnlyTroubledLose, Loses
<1>2. QED
  BY <1>1, Invariant, PTL DEF Spec, LostOnlyIfTroubled

\* When a monitor is set up, one that kept its power keeps its count, whatever
\* was saved and whatever fails; one that lost it gets back, if all goes well,
\* the capacity that was last answered or set (initTimeCapacityDS2438 in
\* setupDevices).
THEOREM CapacityRestored == Spec => SetUpRestores
<1>1. IInv /\ [Next]_vars =>
        [ \A b \in Battery : SetUp(b) =>
            /\ ~monitor[b].volatile.lost => monitor'[b].volatile.ica = monitor[b].volatile.ica
            /\ result' = "success" /\ monitor[b].volatile.lost /\ answered[b] # NoAnswer
                 => monitor'[b].volatile.ica = answered[b] ]_vars
  BY NextRestores DEF Restores
<1>2. QED
  BY <1>1, Invariant, PTL DEF Spec, SetUpRestores
=============================================================================
