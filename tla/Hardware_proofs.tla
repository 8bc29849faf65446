--------------------------- MODULE Hardware_proofs ---------------------------
(***************************************************************************)
(* Proofs about Hardware, for any wiring, number of chargers, number of    *)
(* failures and lights.                                                    *)
(***************************************************************************)
EXTENDS Hardware, SequenceTheorems, FiniteSetTheorems, TLAPS

GP  == "GENERAL_PURPOSE_PIO"
BAR == "MUX_ENABLE_BAR"

(***************************************************************************)
(* The inductive invariant.                                                *)
(***************************************************************************)
\* What the phases of a message have in common.
PhaseInv ==
  /\ pc = "write" <=> todo # <<>>
  /\ pc = "down" => unsure = PIO
  /\ job.want \subseteq job.pins /\ job.pins \subseteq Pins[job.pio]
  /\ rest # <<>> => /\ job.pio = "RELAY_PIO" /\ job.pins = ToSet(Charger)
                    /\ job.want \in {{}, job.pins}
  /\ pc = "charger" => rest # <<>> /\ todo = <<>> /\ "RELAY_PIO" \notin unsure

\* The shadow is right for every device that was written for certain.
ShadowInv ==
  pc # "down" =>
    \A d \in PIO \ unsure : shadow[d] \cap ShadowMask = latch[d] \cap ShadowMask

\* Writes leave inputs alone, bring the right shadow along, and agree with
\* each other and with the device on every pin that the message does not name.
WritesInv ==
  \A i \in 1..Len(todo) :
    /\ InputMask \cap Pins[job.pio] \subseteq todo[i].pins
    /\ todo[i].pins \cap ShadowMask = todo[i].shadow \cap ShadowMask
    /\ \A j \in 1..Len(todo) : todo[i].pins \ job.pins = todo[j].pins \ job.pins
    /\ ~job.blind /\ job.pio \notin unsure =>
         todo[i].pins \ job.pins = latch[job.pio] \ job.pins

\* The mux is disabled in all writes but the last, and before that one.
MuxInv ==
  job.pio = GP =>
    /\ \A i \in 1..Len(todo) : i # Len(todo) => BAR \in todo[i].pins
    /\ Len(todo) = 1 => BAR \in latch[GP]

\* The pins that have had their turn are as the message wants them.
DoneInv ==
  ~job.blind /\ job.pio # GP =>
    \A p \in job.pins \ ToSet(rest) :
      /\ todo # <<>> => (p \in todo[Len(todo)].pins <=> p \in job.want)
      /\ pc = "charger" => (p \in latch["RELAY_PIO"] <=> p \in job.want)

LightInv == moving \subseteq movedNow /\ lastEdges \subseteq movedBefore

PinInv == PhaseInv /\ InputsUndriven /\ ShadowInv /\ WritesInv /\ MuxInv /\ DoneInv
IInv == TypeOK /\ PinInv /\ LightInv

(***************************************************************************)
(* The wiring.                                                             *)
(***************************************************************************)
\* Every pin is on the device hw_config.h says, and the masks do not overlap
\* where the handlers rely on it.
LEMMA Wiring ==
  /\ Pins \in [PIO -> SUBSET AllPins]
  /\ InputMask \subseteq Pins["RELAY_PIO"]
  /\ \A d \in PIO : d # "RELAY_PIO" => InputMask \cap Pins[d] = {}
  /\ MuxMask \subseteq Pins[GP] /\ Pins[GP] \subseteq MuxMask
  /\ ToggleMask \subseteq Pins["DARLINGTON_PIO"]
  /\ MuxMask \cap ShadowMask = {} /\ MuxMask \cap InputMask = {}
  /\ ToggleMask \cap InputMask = {} /\ ShadowMask \cap InputMask = {}
  /\ BAR \in MuxMask /\ "MUX_A0" \in MuxMask /\ "MUX_A1" \in MuxMask
<1>1. Pins \in [PIO -> SUBSET AllPins]
  BY DEF Pins, AllPins, PIO
<1>2. ToSet(Charger) \subseteq Wired
  BY HardwareAssumption DEF ToSet
<1>3. QED
  BY <1>1, <1>2, HardwareAssumption
     DEF Pins, PinTable, PIO, GP, BAR, InputMask, MuxMask, ToggleMask, ShadowMask

\* A sequence is its first element and the others.
LEMMA HeadAndTail ==
  ASSUME NEW S, NEW s \in Seq(S), s # <<>>
  PROVE  /\ Head(s) \in ToSet(s) /\ ToSet(s) \subseteq S
         /\ Tail(s) \in Seq(S)
         /\ ToSet(s) = {Head(s)} \cup ToSet(Tail(s))
<1>1. /\ Len(s) \in Nat \ {0} /\ Head(s) = s[1] /\ DOMAIN s = 1..Len(s)
      /\ Tail(s) \in Seq(S) /\ Len(Tail(s)) = Len(s) - 1
      /\ DOMAIN Tail(s) = 1..(Len(s) - 1)
      /\ \A i \in 1..(Len(s) - 1) : Tail(s)[i] = s[i+1]
  OBVIOUS
<1>2. ASSUME NEW p \in ToSet(s), p # Head(s) PROVE p \in ToSet(Tail(s))
  <2>1. PICK i \in 1..Len(s) : s[i] = p
    BY <1>1 DEF ToSet
  <2>2. i - 1 \in 1..(Len(s) - 1) /\ Tail(s)[i - 1] = p
    BY <2>1, <1>1, <1>2
  <2>3. QED
    BY <2>2, <1>1 DEF ToSet
<1>3. \A p \in ToSet(Tail(s)) : p \in ToSet(s)
  <2> SUFFICES ASSUME NEW i \in 1..(Len(s) - 1) PROVE s[i+1] \in ToSet(s)
    BY <1>1 DEF ToSet
  <2>1. i + 1 \in 1..Len(s)
    BY <1>1
  <2>2. QED
    BY <2>1, <1>1 DEF ToSet
<1>4. Head(s) \in ToSet(s) /\ ToSet(s) \subseteq S
  <2>1. 1 \in 1..Len(s)
    BY <1>1
  <2>2. QED
    BY <2>1, <1>1 DEF ToSet
<1>5. ToSet(s) = {Head(s)} \cup ToSet(Tail(s))
  BY <1>2, <1>3, <1>4
<1>6. QED
  BY <1>1, <1>4, <1>5

\* The chargers are relays that are no inputs.
LEMMA ChargerPins ==
  /\ ToSet(Charger) \subseteq Pins["RELAY_PIO"]
  /\ ToSet(Charger) \cap InputMask = {}
  /\ ToSet(Charger) # {}
  /\ Charger \in Seq(ToSet(Charger)) /\ Charger # <<>>
<1>1. Charger \in Seq(Wired) /\ Charger # <<>>
  BY HardwareAssumption
<1>2. ToSet(Charger) \subseteq Wired /\ Head(Charger) \in ToSet(Charger)
  BY <1>1, HeadAndTail
<1>3. ToSet(Charger) \subseteq Pins["RELAY_PIO"] /\ ToSet(Charger) \cap InputMask = {}
  BY <1>2, HardwareAssumption DEF Pins, PinTable, PIO, InputMask
<1>4. Charger \in Seq(ToSet(Charger))
  <2>1. Len(Charger) \in Nat /\ Charger = [i \in 1..Len(Charger) |-> Charger[i]]
    BY <1>1
  <2>2. \A i \in 1..Len(Charger) : Charger[i] \in ToSet(Charger)
    BY <1>1 DEF ToSet
  <2>3. QED
    BY <2>1, <2>2, SeqDef
<1>5. QED
  BY <1>1, <1>2, <1>3, <1>4

\* What is read of a device is within its pins, and right if its shadow is.
LEMMA ReadingsShadowed ==
  ASSUME PinsTypeOK, NEW d \in PIO, NEW pins \in Readings(d)
  PROVE  /\ pins \subseteq Pins[d]
         /\ shadow[d] \cap ShadowMask = latch[d] \cap ShadowMask =>
              pins \ InputMask = latch[d] \ InputMask
<1>1. PICK level \in SUBSET (InputMask \cap Pins[d]) :
        pins = ((latch[d] \ (ShadowMask \cup InputMask))
                 \cup (shadow[d] \cap ShadowMask)) \cup level
  BY DEF Readings
<1>2. latch[d] \subseteq Pins[d] /\ shadow[d] \subseteq Pins[d]
  BY DEF PinsTypeOK
<1>3. QED
  BY <1>1, <1>2

\* setPinsWithShadow writes the pins of the mask as they are wanted, inputs at
\* 5 V, and the others as they were read.
StateSet(d, mask, goal, pins) == (pins \ mask) \cup goal \cup (InputMask \cap Pins[d])

\* A message of one write.
LEMMA Single ==
  ASSUME NEW w \in Write
  PROVE  /\ <<w>> \in Seq(Write) /\ Len(<<w>>) = 1 /\ <<w>> # <<>> /\ <<w>>[1] = w
  OBVIOUS

(***************************************************************************)
(* Every step keeps what is said of the pins.                              *)
(***************************************************************************)
PInv == PinsTypeOK /\ PinInv

\* A step that brings one write, of a device that is read first.
LEMMA OneWrite ==
  ASSUME PInv, pc \in {"accept", "charger"}, pc' = "write",
         NEW d \in PIO, NEW mask \in SUBSET Pins[d], mask \cap InputMask = {},
         NEW high \in BOOLEAN, NEW pins \in SUBSET Pins[d],
         ReadForSet(d, mask, high, pins),
         job' \in Job, job'.pio = d, mask \subseteq job'.pins, job'.pins \subseteq Pins[d],
         job'.want = IF high THEN job'.pins ELSE {},
         job'.blind \/ pins \in Readings(d),
         job'.pins \ ToSet(rest') \subseteq mask \cup (job'.pins \ ToSet(rest)),
         ~job'.blind /\ ~(job'.pins \ ToSet(rest') \subseteq mask) =>
            /\ d \notin unsure
            /\ \A p \in job'.pins \ ToSet(rest) : p \in latch[d] <=> p \in job'.want,
         rest' \in Seq(ToSet(Charger)),
         rest' # <<>> => d = "RELAY_PIO" /\ job'.pins = ToSet(Charger),
         faults' \in 0..MaxFaults, asked' \in Battery \cup {NoSensor},
         d # GP, reading' = NoReading \/ reading' = reading,
         UNCHANGED <<latch, shadow, ok, unsure>>
  PROVE  PInv'
<1>0. PICK goal \in SUBSET mask : goal = IF high THEN mask ELSE {}
  OBVIOUS
<1>1. PICK state : state = StateSet(d, mask, goal, pins)
  OBVIOUS
<1> DEFINE w == [pio |-> d, pins |-> state, shadow |-> state]
<1>a. PinsTypeOK /\ InputsUndriven
  BY DEF PInv, PinInv
<1>b. /\ state \in SUBSET Pins[d] /\ w \in Write
      /\ InputMask \cap Pins[d] \subseteq state
      /\ state \cap mask = goal
      /\ pins \ InputMask = latch[d] \ InputMask => state \ mask = latch[d] \ mask
  <2>1. state \in SUBSET Pins[d] /\ state \in SUBSET AllPins
    BY <1>1, Wiring DEF StateSet
  <2>2. w \in Write
    BY <2>1 DEF Write
  <2>3. InputMask \cap Pins[d] \subseteq latch[d] /\ latch[d] \subseteq Pins[d]
    BY <1>a, Wiring DEF InputsUndriven, PinsTypeOK
  <2>4. pins \ InputMask = latch[d] \ InputMask => state \ mask = latch[d] \ mask
    BY <1>1, <2>3 DEF StateSet
  <2>5. InputMask \cap Pins[d] \subseteq state /\ state \cap mask = goal
    BY <1>1 DEF StateSet
  <2>6. QED
    BY <2>1, <2>2, <2>4, <2>5
<1>c. todo' = <<w>>
  BY <1>0, <1>1 DEF ReadForSet, StateSet
<1>d. todo' \in Seq(Write) /\ Len(todo') = 1 /\ todo' # <<>> /\ todo'[1] = w
  <2> HIDE DEF w
  <2>1. QED
    BY <1>b, <1>c, Single
<1>2. ~job'.blind /\ d \notin unsure => state \ mask = latch[d] \ mask
  <2>1. pc # "down"
    OBVIOUS
  <2>2. QED
    BY <1>b, <2>1, ReadingsShadowed DEF PInv, PinInv, ShadowInv
<1>3. PinsTypeOK'
  BY <1>b, <1>d DEF PInv, PinsTypeOK, NoReading
<1>4. PhaseInv' /\ InputsUndriven' /\ ShadowInv'
  BY <1>d DEF PInv, PinInv, PhaseInv, InputsUndriven, ShadowInv
<1>5. WritesInv'
  BY <1>b, <1>d, <1>2 DEF WritesInv
<1>6. MuxInv'
  BY DEF MuxInv
<1>7. DoneInv'
  <2> SUFFICES ASSUME ~job'.blind, NEW p \in job'.pins \ ToSet(rest')
               PROVE  p \in state <=> p \in job'.want
    BY <1>d DEF DoneInv
  <2>1. CASE p \in mask
    BY <1>0, <1>b, <2>1
  <2>2. CASE p \notin mask
    BY <1>2, <2>2
  <2>3. QED
    BY <2>1, <2>2
<1>8. QED
  BY <1>3, <1>4, <1>5, <1>6, <1>7 DEF PInv, PinInv

LEMMA SetOneStep == PInv /\ SetOne => PInv'
<1> SUFFICES ASSUME PInv, NEW d \in PIO,
                    NEW p \in Pins[d] \ (ToggleMask \cup InputMask \cup MuxMask),
                    NEW high \in BOOLEAN, SetPinsWithShadow(d, {p}, high)
             PROVE  PInv'
  BY DEF SetOne
<1>1. d # GP
  BY Wiring
<1>2. PICK pins \in SUBSET Pins[d] :
        /\ ReadForSet(d, {p}, high, pins)
        /\ \E blind \in BOOLEAN : /\ Serve(d, {p}, IF high THEN {p} ELSE {}, blind)
                                  /\ blind \/ pins \in Readings(d)
        /\ faults' = faults \/ Fault
  BY ReadingsShadowed DEF SetPinsWithShadow, PInv
<1>3. PICK blind \in BOOLEAN : /\ Serve(d, {p}, IF high THEN {p} ELSE {}, blind)
                               /\ blind \/ pins \in Readings(d)
  BY <1>2
<1>4. /\ job' = [pio |-> d, pins |-> {p}, want |-> IF high THEN {p} ELSE {}, blind |-> blind]
      /\ p \in AllPins
  BY <1>3, Wiring DEF Serve
<1>5. job' \in Job
  BY <1>4 DEF Job
<1>6. faults' \in 0..MaxFaults
  BY <1>2, HardwareAssumption DEF Fault, PInv, PinsTypeOK
<1>7. /\ pc = "accept" /\ pc' = "write" /\ rest' = <<>> /\ asked' = NoSensor
      /\ reading' = NoReading /\ UNCHANGED <<latch, shadow, ok, unsure>>
  BY DEF SetPinsWithShadow
<1>8. ToSet(rest') = {} /\ rest' \in Seq(ToSet(Charger))
  BY <1>7, EmptySeq DEF ToSet
<1>9. QED
  BY <1>1, <1>2, <1>3, <1>4, <1>5, <1>6, <1>7, <1>8, OneWrite

LEMMA SetAllStep ==
  ASSUME PInv, NEW high \in BOOLEAN, SetAllBatteryChargers(high) PROVE PInv'
<1> DEFINE d == "RELAY_PIO"
           mask == {Head(Charger)}
           want == IF high THEN ToSet(Charger) ELSE {}
<1>1. PICK pins \in SUBSET Pins[d] :
        /\ ReadForSet(d, mask, high, pins)
        /\ \E blind \in BOOLEAN : /\ Serve(d, ToSet(Charger), want, blind)
                                  /\ blind \/ pins \in Readings(d)
        /\ faults' = faults \/ Fault
  <2>1. d \in PIO
    BY DEF PIO
  <2>2. QED
    BY <2>1, ReadingsShadowed DEF SetAllBatteryChargers, PInv
<1>2. PICK blind \in BOOLEAN : /\ Serve(d, ToSet(Charger), want, blind)
                               /\ blind \/ pins \in Readings(d)
  BY <1>1
<1>3. /\ job' = [pio |-> d, pins |-> ToSet(Charger), want |-> want, blind |-> blind]
      /\ ToSet(Charger) \subseteq AllPins /\ d \in PIO /\ d # GP
  BY <1>2, Wiring, ChargerPins DEF Serve, PIO, GP
<1>4. job' \in Job
  BY <1>3 DEF Job
<1>5. faults' \in 0..MaxFaults
  BY <1>1, HardwareAssumption DEF Fault, PInv, PinsTypeOK
<1>6. /\ pc = "accept" /\ pc' = "write" /\ rest' = Tail(Charger) /\ asked' = NoSensor
      /\ reading' = NoReading /\ UNCHANGED <<latch, shadow, ok, unsure>>
  BY DEF SetAllBatteryChargers
<1>7. /\ Tail(Charger) \in Seq(ToSet(Charger))
      /\ ToSet(Charger) = mask \cup ToSet(Tail(Charger))
  BY ChargerPins, HeadAndTail
<1>8. mask \in SUBSET Pins[d] /\ mask \cap InputMask = {}
  BY <1>7, ChargerPins
<1>9. job'.pins \ ToSet(rest') \subseteq mask
  BY <1>3, <1>6, <1>7
<1>10. QED
  BY <1>1, <1>2, <1>3, <1>4, <1>5, <1>6, <1>7, <1>8, <1>9, ChargerPins, OneWrite

LEMMA NextChargerStep == PInv /\ NextCharger => PInv'
<1> SUFFICES ASSUME PInv, NextCharger PROVE PInv'
  OBVIOUS
<1> DEFINE d == "RELAY_PIO"
           mask == {Head(rest)}
<1> PICK high \in BOOLEAN : high <=> job.want # {}
  OBVIOUS
<1>1. PICK pins \in SUBSET Pins[d] :
        /\ ReadForSet(d, mask, high, pins)
        /\ \/ pins \in Readings(d) /\ job' = job /\ faults' = faults
           \/ Fault /\ job' = [job EXCEPT !.blind = TRUE]
  <2>1. d \in PIO
    BY DEF PIO
  <2>2. QED
    BY <2>1, ReadingsShadowed DEF NextCharger, PInv
<1>2. /\ job.pio = d /\ job.pins = ToSet(Charger) /\ job.want \in {{}, job.pins}
      /\ rest \in Seq(ToSet(Charger)) /\ rest # <<>> /\ job \in Job /\ d \notin unsure
  BY DEF PInv, PinInv, PhaseInv, PinsTypeOK, NextCharger
<1>3. /\ job' \in Job /\ job'.pio = d /\ job'.pins = ToSet(Charger)
      /\ job'.want = job.want /\ (~job'.blind => ~job.blind)
      /\ job'.blind \/ pins \in Readings(d)
  BY <1>1, <1>2 DEF Job
<1>4. faults' \in 0..MaxFaults
  BY <1>1, HardwareAssumption DEF Fault, PInv, PinsTypeOK
<1>5. /\ pc = "charger" /\ pc' = "write" /\ rest' = Tail(rest) /\ asked' = asked
      /\ reading' = reading /\ UNCHANGED <<latch, shadow, ok, unsure>>
      /\ asked \in Battery \cup {NoSensor}
  BY DEF NextCharger, PInv, PinsTypeOK
<1>6. Tail(rest) \in Seq(ToSet(Charger)) /\ ToSet(rest) = mask \cup ToSet(Tail(rest))
      /\ ToSet(rest) \subseteq ToSet(Charger)
  BY <1>2, HeadAndTail
<1>7. mask \in SUBSET Pins[d] /\ mask \cap InputMask = {} /\ mask \subseteq job'.pins
      /\ job'.pins \subseteq Pins[d]
  BY <1>6, <1>3, ChargerPins
<1>8. d \in PIO /\ d # GP
  BY DEF PIO, GP
<1>9. job'.want = IF high THEN job'.pins ELSE {}
  BY <1>2, <1>3, ChargerPins
<1>10. ~job'.blind => \A p \in job'.pins \ ToSet(rest) : p \in latch[d] <=> p \in job'.want
  BY <1>2, <1>3, <1>5, <1>8 DEF PInv, PinInv, DoneInv
<1>11. job'.pins \ ToSet(rest') \subseteq mask \cup (job'.pins \ ToSet(rest))
  BY <1>5, <1>6
<1>12. QED
  BY <1>1, <1>2, <1>3, <1>4, <1>5, <1>6, <1>7, <1>8, <1>9, <1>10, <1>11, OneWrite

\* Messages of two and of three writes.
LEMMA Double ==
  ASSUME NEW v \in Write, NEW w \in Write
  PROVE  /\ <<v, w>> \in Seq(Write) /\ Len(<<v, w>>) = 2 /\ <<v, w>> # <<>>
         /\ <<v, w>>[1] = v /\ <<v, w>>[2] = w /\ 1..Len(<<v, w>>) = {1, 2}
  OBVIOUS

LEMMA Triple ==
  ASSUME NEW u \in Write, NEW v \in Write, NEW w \in Write
  PROVE  /\ <<u, v, w>> \in Seq(Write) /\ Len(<<u, v, w>>) = 3 /\ <<u, v, w>> # <<>>
         /\ <<u, v, w>>[1] = u /\ <<u, v, w>>[2] = v /\ <<u, v, w>>[3] = w
         /\ 1..Len(<<u, v, w>>) = {1, 2, 3}
  OBVIOUS

LEMMA ToggleStep ==
  ASSUME PInv, NEW p \in ToggleMask, TogglePinsWithShadow(p) PROVE PInv'
<1> DEFINE d == "DARLINGTON_PIO"
           Flip(pins) == IF p \in pins THEN pins \ {p} ELSE pins \cup {p}
           To(pins)   == [pio |-> d, pins |-> pins, shadow |-> pins]
<1>1. PICK pins \in Readings(d) :
        /\ todo' = <<To(Flip(pins)), To(Flip(Flip(pins)))>>
        /\ Serve(d, {p}, pins \cap {p}, FALSE)
  BY DEF TogglePinsWithShadow
<1>2. /\ d \in PIO /\ d # GP /\ d # "RELAY_PIO" /\ p \in Pins[d] /\ Pins[d] \subseteq AllPins
      /\ InputMask \cap Pins[d] = {}
  BY Wiring DEF PIO, GP
<1>3. pins \subseteq Pins[d]
  BY <1>2, ReadingsShadowed DEF PInv
<1>4. PICK first : first = Flip(pins)
  OBVIOUS
<1>5. /\ first \subseteq Pins[d] /\ first \ {p} = pins \ {p}
      /\ Flip(first) = pins
  BY <1>2, <1>3, <1>4
<1>6. PICK v, w : v = To(first) /\ w = To(pins)
  OBVIOUS
<1>7. v \in Write /\ w \in Write
  BY <1>2, <1>3, <1>5, <1>6 DEF Write
<1>8. todo' = <<v, w>>
  <2>1. todo' = <<To(first), To(Flip(first))>>
    BY <1>1, <1>4
  <2> HIDE DEF Flip, To
  <2>2. QED
    BY <2>1, <1>5, <1>6
<1>9. /\ todo' \in Seq(Write) /\ Len(todo') = 2 /\ todo' # <<>>
      /\ todo'[1] = v /\ todo'[2] = w /\ 1..Len(todo') = {1, 2}
  BY <1>7, <1>8, Double
<1>10. /\ job' = [pio |-> d, pins |-> {p}, want |-> pins \cap {p}, blind |-> FALSE]
       /\ job' \in Job
  BY <1>1, <1>2 DEF Serve, Job
<1>11. /\ pc = "accept" /\ pc' = "write" /\ rest' = <<>> /\ asked' = NoSensor
       /\ reading' = NoReading /\ UNCHANGED <<latch, shadow, ok, faults, unsure>>
  BY DEF TogglePinsWithShadow
<1>12. rest' \in Seq(ToSet(Charger))
  BY <1>11, EmptySeq
<1>13. d \notin unsure => pins \ {p} = latch[d] \ {p}
  <2>1. latch[d] \subseteq Pins[d]
    BY <1>2 DEF PInv, PinsTypeOK
  <2>2. QED
    BY <1>2, <1>3, <1>11, <2>1, ReadingsShadowed DEF PInv, PinInv, ShadowInv
<1> HIDE DEF Flip
<1>14. PinsTypeOK'
  BY <1>2, <1>3, <1>5, <1>6, <1>9, <1>10, <1>11, <1>12 DEF PInv, PinsTypeOK, NoReading
<1>15. PhaseInv' /\ InputsUndriven' /\ ShadowInv'
  BY <1>2, <1>9, <1>10, <1>11 DEF PInv, PinInv, PhaseInv, InputsUndriven, ShadowInv
<1>16. WritesInv'
  BY <1>2, <1>5, <1>6, <1>9, <1>10, <1>11, <1>13 DEF WritesInv
<1>17. MuxInv' /\ DoneInv'
  BY <1>2, <1>6, <1>9, <1>10, <1>11 DEF MuxInv, DoneInv
<1>18. QED
  BY <1>14, <1>15, <1>16, <1>17 DEF PInv, PinInv

LEMMA MuxStep ==
  ASSUME PInv, NEW input \in Battery, NEW sensor \in {NoSensor, input},
         SetAnalogueMuxInput(input, sensor)
  PROVE  PInv'
<1> DEFINE To(pins, s) == [pio |-> GP, pins |-> pins, shadow |-> s]
<1>1. PICK pins \in Readings(GP) :
        LET disabled == pins \cup {BAR}
            enabled  == disabled \ {BAR}
            selected == (disabled \ {"MUX_A0", "MUX_A1"}) \cup SensorPins(input)
        IN  todo' = <<To(disabled, disabled), To(selected, disabled),
                      To(enabled, enabled)>>
  BY DEF SetAnalogueMuxInput, GP, BAR
<1>2. PICK disabled, selected, enabled :
        /\ disabled = pins \cup {BAR} /\ enabled = disabled \ {BAR}
        /\ selected = (disabled \ {"MUX_A0", "MUX_A1"}) \cup SensorPins(input)
  OBVIOUS
<1>3. PICK u, v, w : u = To(disabled, disabled) /\ v = To(selected, disabled)
                     /\ w = To(enabled, enabled)
  OBVIOUS
<1>4. todo' = <<u, v, w>>
  <2>1. todo' = <<To(disabled, disabled), To(selected, disabled), To(enabled, enabled)>>
    BY <1>1, <1>2
  <2> HIDE DEF To
  <2>2. QED
    BY <2>1, <1>3
<1>5. GP \in PIO /\ Pins[GP] \subseteq AllPins /\ Pins[GP] = MuxMask
      /\ InputMask \cap Pins[GP] = {} /\ MuxMask \cap ShadowMask = {}
  BY Wiring DEF PIO, GP
<1>6. pins \subseteq MuxMask /\ disabled \subseteq MuxMask /\ enabled \subseteq MuxMask
      /\ selected \subseteq MuxMask /\ BAR \in disabled /\ BAR \in selected
  <2>1. pins \subseteq MuxMask
    BY <1>5, ReadingsShadowed DEF PInv
  <2>2. QED
    BY <2>1, <1>2 DEF MuxMask, BAR, SensorPins
<1>7. u \in Write /\ v \in Write /\ w \in Write
  BY <1>3, <1>5, <1>6 DEF Write
<1>8. /\ todo' \in Seq(Write) /\ Len(todo') = 3 /\ todo' # <<>>
      /\ todo'[1] = u /\ todo'[2] = v /\ todo'[3] = w /\ 1..Len(todo') = {1, 2, 3}
  BY <1>4, <1>7, Triple
<1>9. /\ job' = [pio |-> GP, pins |-> MuxMask, want |-> {}, blind |-> FALSE]
      /\ job' \in Job
  BY <1>5 DEF SetAnalogueMuxInput, Serve, Job, GP
<1>10. /\ pc = "accept" /\ pc' = "write" /\ rest' = <<>> /\ asked' = sensor
       /\ reading' = NoReading /\ UNCHANGED <<latch, shadow, ok, faults, unsure>>
       /\ asked' \in Battery \cup {NoSensor}
  BY DEF SetAnalogueMuxInput
<1>11. rest' \in Seq(ToSet(Charger))
  BY <1>10, EmptySeq
<1>12. latch[GP] \subseteq MuxMask
  BY <1>5 DEF PInv, PinsTypeOK
<1>13. PinsTypeOK'
  BY <1>3, <1>5, <1>6, <1>8, <1>9, <1>10, <1>11 DEF PInv, PinsTypeOK, NoReading
<1>14. PhaseInv' /\ InputsUndriven' /\ ShadowInv'
  BY <1>5, <1>8, <1>9, <1>10 DEF PInv, PinInv, PhaseInv, InputsUndriven, ShadowInv
<1>15. WritesInv'
  <2>1. \A i \in 1..Len(todo') : /\ todo'[i].pins \subseteq MuxMask
                                 /\ todo'[i].shadow \subseteq MuxMask
    BY <1>3, <1>6, <1>8
  <2>2. QED
    BY <2>1, <1>5, <1>9, <1>10, <1>12 DEF WritesInv
<1>16. MuxInv' /\ DoneInv'
  BY <1>3, <1>6, <1>8, <1>9, <1>10 DEF MuxInv, DoneInv
<1>17. QED
  BY <1>13, <1>14, <1>15, <1>16 DEF PInv, PinInv

\* What there is to know about the write in hand and those after it.
LEMMA Writes ==
  ASSUME PInv, pc = "write"
  PROVE  /\ Len(todo) \in Nat \ {0} /\ Head(todo) = todo[1] /\ todo[1] \in Write
         /\ todo[1].pio = job.pio /\ job.pio \in PIO
         /\ todo[1].pins \subseteq Pins[job.pio] /\ todo[1].shadow \subseteq Pins[job.pio]
         /\ 1 \in 1..Len(todo) /\ Len(todo) \in 1..Len(todo)
         /\ Tail(todo) \in Seq(Write) /\ Len(Tail(todo)) = Len(todo) - 1
         /\ \A i \in 1..Len(Tail(todo)) : i + 1 \in 1..Len(todo) /\ Tail(todo)[i] = todo[i+1]
         /\ Tail(todo) = <<>> <=> Len(todo) = 1
<1>1. todo \in Seq(Write) /\ todo # <<>> /\ job \in Job
  BY DEF PInv, PinInv, PhaseInv, PinsTypeOK
<1>2. /\ Len(todo) \in Nat \ {0} /\ Head(todo) = todo[1] /\ todo[1] \in Write
      /\ Tail(todo) \in Seq(Write) /\ Len(Tail(todo)) = Len(todo) - 1
      /\ \A i \in 1..(Len(todo) - 1) : Tail(todo)[i] = todo[i+1]
  BY <1>1
<1>3. 1 \in 1..Len(todo) /\ Len(todo) \in 1..Len(todo)
      /\ \A i \in 1..(Len(todo) - 1) : i + 1 \in 1..Len(todo)
  BY <1>2
<1>4. Tail(todo) = <<>> <=> Len(todo) = 1
  <2>1. Tail(todo) = <<>> <=> Len(Tail(todo)) = 0
    BY <1>2, EmptySeq
  <2>2. Len(todo) - 1 = 0 <=> Len(todo) = 1
    BY <1>2
  <2>3. QED
    BY <1>2, <2>1, <2>2
<1>5. job.pio \in PIO
  BY <1>1 DEF Job
<1>6. todo[1].pio = job.pio /\ todo[1].pins \subseteq Pins[job.pio]
      /\ todo[1].shadow \subseteq Pins[job.pio]
  BY <1>3 DEF PInv, PinsTypeOK
<1>7. QED
  BY <1>2, <1>3, <1>4, <1>5, <1>6

LEMMA WriteDoneStep ==
  ASSUME PInv, pc = "write", WriteDone, UNCHANGED <<asked, reading, job>> PROVE PInv'
<1>1. PICK w : w = todo[1]
  OBVIOUS
<1>2. /\ w \in Write /\ w.pio = job.pio /\ job.pio \in PIO
      /\ w.pins \subseteq Pins[job.pio] /\ w.shadow \subseteq Pins[job.pio]
      /\ InputMask \cap Pins[job.pio] \subseteq w.pins
      /\ w.pins \cap ShadowMask = w.shadow \cap ShadowMask
  BY <1>1, Writes DEF PInv, PinInv, WritesInv
<1>3. /\ latch' = [latch EXCEPT ![job.pio] = w.pins]
      /\ shadow' = [shadow EXCEPT ![job.pio] = w.shadow]
      /\ todo' = Tail(todo) /\ unsure' = unsure \ {job.pio}
      /\ \/ Len(todo) > 1 /\ UNCHANGED <<pc, ok>>
         \/ Len(todo) = 1 /\ rest # <<>> /\ pc' = "charger" /\ UNCHANGED ok
         \/ Len(todo) = 1 /\ asked # NoSensor /\ pc' = "measure" /\ UNCHANGED ok
         \/ Len(todo) = 1 /\ rest = <<>> /\ asked = NoSensor /\ pc' = "accept" /\ ok' = TRUE
      /\ UNCHANGED <<rest, faults, asked, reading, job>>
  BY <1>1, <1>2, Writes DEF WriteDone
<1>4. latch \in [PIO -> SUBSET AllPins] /\ shadow \in [PIO -> SUBSET AllPins]
  BY DEF PInv, PinsTypeOK
<1>5. /\ latch' \in [PIO -> SUBSET AllPins] /\ shadow' \in [PIO -> SUBSET AllPins]
      /\ latch'[job.pio] = w.pins /\ shadow'[job.pio] = w.shadow
      /\ \A d \in PIO : d # job.pio => latch'[d] = latch[d] /\ shadow'[d] = shadow[d]
  BY <1>2, <1>3, <1>4 DEF Write
<1>6. todo' \in Seq(Write) /\ Len(todo') = Len(todo) - 1 /\ Len(todo) \in Nat \ {0}
      /\ \A i \in 1..Len(todo') : i + 1 \in 1..Len(todo) /\ todo'[i] = todo[i+1]
      /\ (todo' = <<>> <=> Len(todo) = 1)
  BY <1>3, Writes
<1>7. PinsTypeOK'
  <2>1. /\ pc' \in {"down", "useless", "accept", "write", "charger", "measure"}
        /\ ok' \in BOOLEAN /\ unsure' \subseteq PIO
    BY <1>3 DEF PInv, PinsTypeOK
  <2>2. \A d \in PIO : latch'[d] \subseteq Pins[d] /\ shadow'[d] \subseteq Pins[d]
    BY <1>2, <1>5 DEF PInv, PinsTypeOK
  <2>3. \A i \in 1..Len(todo') : /\ todo'[i].pio = job'.pio
                                 /\ todo'[i].pins \subseteq Pins[job'.pio]
                                 /\ todo'[i].shadow \subseteq Pins[job'.pio]
    BY <1>3, <1>6 DEF PInv, PinsTypeOK
  <2>4. QED
    BY <1>3, <1>5, <1>6, <2>1, <2>2, <2>3 DEF PInv, PinsTypeOK
<1>8. PhaseInv'
  <2>1. rest # <<>> => job.pio = "RELAY_PIO"
    BY DEF PInv, PinInv, PhaseInv
  <2>2. pc' = "write" <=> todo' # <<>>
    <3>1. Len(todo) > 1 => Len(todo) # 1
      BY <1>6
    <3>2. CASE Len(todo) = 1
      <4>1. pc' # "write"
        BY <1>3, <3>1, <3>2
      <4>2. todo' = <<>>
        BY <1>6, <3>2
      <4>3. QED
        BY <4>1, <4>2
    <3>3. CASE Len(todo) # 1
      <4>1. pc' = "write"
        BY <1>3, <3>3
      <4>2. todo' # <<>>
        BY <1>6, <3>3
      <4>3. QED
        BY <4>1, <4>2
    <3>4. QED
      BY <3>2, <3>3
  <2>3. QED
    BY <1>3, <1>6, <2>1, <2>2 DEF PInv, PinInv, PhaseInv
<1>9. InputsUndriven'
  BY <1>2, <1>5, Wiring DEF PInv, PinInv, InputsUndriven, PIO
<1>10. ShadowInv'
  BY <1>2, <1>3, <1>5 DEF PInv, PinInv, ShadowInv
<1>11. WritesInv'
  <2>1. \A i \in 1..Len(todo') : todo'[i].pins \ job.pins = w.pins \ job.pins
    <3>1. \A i, j \in 1..Len(todo) : todo[i].pins \ job.pins = todo[j].pins \ job.pins
      BY DEF PInv, PinInv, WritesInv
    <3>2. 1 \in 1..Len(todo)  BY Writes
    <3>3. \A i \in 1..Len(todo) : todo[i].pins \ job.pins = w.pins \ job.pins
      BY <1>1, <3>1, <3>2
    <3>4. QED  BY <1>6, <3>3
  <2>2. \A i \in 1..Len(todo') : /\ InputMask \cap Pins[job.pio] \subseteq todo'[i].pins
                                 /\ todo'[i].pins \cap ShadowMask = todo'[i].shadow \cap ShadowMask
    BY <1>6 DEF PInv, PinInv, WritesInv
  <2>3. QED
    BY <1>3, <1>5, <2>1, <2>2 DEF WritesInv
<1>12. MuxInv'
  <2> SUFFICES ASSUME job.pio = GP
               PROVE  /\ \A i \in 1..Len(todo') : i # Len(todo') => BAR \in todo'[i].pins
                      /\ Len(todo') = 1 => BAR \in latch'[GP]
    BY <1>3 DEF MuxInv
  <2>1. \A i \in 1..Len(todo) : i # Len(todo) => BAR \in todo[i].pins
    BY DEF PInv, PinInv, MuxInv
  <2>2. \A i \in 1..Len(todo') : i # Len(todo') => i + 1 # Len(todo)
    BY <1>6
  <2>3. Len(todo') = 1 => BAR \in w.pins
    <3>1. ASSUME Len(todo') = 1 PROVE 1 \in 1..Len(todo) /\ 1 # Len(todo)
      BY <1>6, <3>1, Writes
    <3>2. QED
      BY <1>1, <2>1, <3>1
  <2>4. QED
    BY <1>2, <1>5, <1>6, <2>1, <2>2, <2>3
<1>13. DoneInv'
  <2> SUFFICES ASSUME ~job.blind, job.pio # GP, NEW p \in job.pins \ ToSet(rest)
               PROVE  /\ todo' # <<>> => (p \in todo'[Len(todo')].pins <=> p \in job.want)
                      /\ pc' = "charger" => (p \in latch'["RELAY_PIO"] <=> p \in job.want)
    BY <1>3 DEF DoneInv
  <2>1. p \in todo[Len(todo)].pins <=> p \in job.want
    BY Writes DEF PInv, PinInv, DoneInv, PhaseInv
  <2>2. todo' # <<>> => todo'[Len(todo')] = todo[Len(todo)]
    <3> SUFFICES ASSUME todo' # <<>> PROVE todo'[Len(todo')] = todo[Len(todo)]
      OBVIOUS
    <3>1. Len(todo') \in 1..Len(todo') /\ Len(todo') + 1 = Len(todo)
      BY <1>6
    <3>2. QED
      BY <1>6, <3>1
  <2>3. pc' = "charger" => Len(todo) = 1 /\ job.pio = "RELAY_PIO"
    BY <1>3 DEF PInv, PinInv, PhaseInv
  <2>4. QED
    BY <1>1, <1>5, <2>1, <2>2, <2>3
<1>14. QED
  BY <1>7, <1>8, <1>9, <1>10, <1>11, <1>12, <1>13 DEF PInv, PinInv

LEMMA WriteFailsStep ==
  ASSUME PInv, pc = "write", WriteFails, UNCHANGED <<asked, reading, job>> PROVE PInv'
<1>1. PICK w : w = todo[1]
  OBVIOUS
<1>2. /\ w \in Write /\ w.pio = job.pio /\ job.pio \in PIO
      /\ w.pins \subseteq Pins[job.pio]
      /\ InputMask \cap Pins[job.pio] \subseteq w.pins
  BY <1>1, Writes DEF PInv, PinInv, WritesInv
<1>3. /\ latch' = latch \/ latch' = [latch EXCEPT ![job.pio] = w.pins]
      /\ unsure' = unsure \cup {job.pio} /\ todo' = <<>> /\ rest' = <<>>
      /\ pc' = "accept" /\ ok' = FALSE
      /\ UNCHANGED <<shadow, asked, reading, job>>
  BY <1>1, <1>2, Writes DEF WriteFails
<1>4. faults' \in 0..MaxFaults
  BY HardwareAssumption DEF WriteFails, Fault, PInv, PinsTypeOK
<1>5. latch \in [PIO -> SUBSET AllPins]
  BY DEF PInv, PinsTypeOK
<1>6. /\ latch' \in [PIO -> SUBSET AllPins]
      /\ latch'[job.pio] = latch[job.pio] \/ latch'[job.pio] = w.pins
      /\ \A d \in PIO : d # job.pio => latch'[d] = latch[d]
  BY <1>2, <1>3, <1>5 DEF Write
<1>7. /\ todo' \in Seq(Write) /\ Len(todo') = 0 /\ 1..Len(todo') = {}
      /\ rest' \in Seq(ToSet(Charger))
  BY <1>3, EmptySeq
<1>8. PinsTypeOK'
  <2>1. \A d \in PIO : latch'[d] \subseteq Pins[d]
    BY <1>2, <1>6 DEF PInv, PinsTypeOK
  <2>2. QED
    BY <1>2, <1>3, <1>4, <1>6, <1>7, <2>1 DEF PInv, PinsTypeOK
<1>9. PhaseInv'
  BY <1>3 DEF PInv, PinInv, PhaseInv
<1>10. InputsUndriven'
  BY <1>2, <1>6, Wiring DEF PInv, PinInv, InputsUndriven, PIO
<1>11. ShadowInv'
  BY <1>3, <1>6 DEF PInv, PinInv, ShadowInv
<1>12. WritesInv' /\ MuxInv' /\ DoneInv'
  BY <1>3, <1>7 DEF WritesInv, MuxInv, DoneInv
<1>13. QED
  BY <1>8, <1>9, <1>10, <1>11, <1>12 DEF PInv, PinInv

\* A step that leaves the devices and the message alone.
LEMMA PinsAlone ==
  ASSUME PInv, UNCHANGED <<latch, shadow, todo, rest, job, unsure>>,
         pc' = pc \/ (pc \in {"accept", "measure"} /\ pc' = "accept"),
         ok' \in BOOLEAN, asked' \in Battery \cup {NoSensor}, faults' \in 0..MaxFaults,
         reading' \in [asked : Battery \cup {NoSensor}, measured : 0..3 \cup {NoSensor}]
  PROVE  PInv'
<1>1. PinsTypeOK'
  BY DEF PInv, PinsTypeOK
<1>2. PhaseInv' /\ InputsUndriven' /\ ShadowInv'
  BY DEF PInv, PinInv, PhaseInv, InputsUndriven, ShadowInv
<1>3. WritesInv' /\ MuxInv' /\ DoneInv'
  BY DEF PInv, PinInv, WritesInv, MuxInv, DoneInv
<1>4. QED
  BY <1>1, <1>2, <1>3 DEF PInv, PinInv

LEMMA NoReadingType ==
  NoReading \in [asked : Battery \cup {NoSensor}, measured : 0..3 \cup {NoSensor}]
BY DEF NoReading

LEMMA FaultType == PInv /\ (Fault \/ UNCHANGED faults) => faults' \in 0..MaxFaults
BY HardwareAssumption DEF PInv, PinsTypeOK, Fault

LEMMA QuietSteps ==
  ASSUME PInv,
         GiveUp \/ ReadAnalogueMux \/ ReadChargerState
           \/ (\E l \in Light : LightChanges(l)) \/ SecondPasses
  PROVE  PInv'
<1>1. /\ ok \in BOOLEAN /\ asked \in Battery \cup {NoSensor}
      /\ reading \in [asked : Battery \cup {NoSensor}, measured : 0..3 \cup {NoSensor}]
  BY DEF PInv, PinsTypeOK
<1>2. CASE GiveUp
  BY <1>1, <1>2, NoReadingType, FaultType, PinsAlone DEF GiveUp
<1>3. CASE ReadAnalogueMux
  <2>1. \A pins : Sensor(pins) \in 0..3
    BY DEF Sensor
  <2>2. reading' \in [asked : Battery \cup {NoSensor}, measured : 0..3 \cup {NoSensor}]
    BY <1>1, <1>3, <2>1 DEF ReadAnalogueMux
  <2>3. faults' \in 0..MaxFaults
    BY <1>3, FaultType DEF ReadAnalogueMux
  <2>4. QED
    BY <1>3, <2>2, <2>3, PinsAlone DEF ReadAnalogueMux
<1>4. CASE ReadChargerState
  <2>1. /\ UNCHANGED <<pc, latch, shadow, todo, rest, asked, job, unsure>>
        /\ reading' = NoReading /\ ok' \in BOOLEAN
        /\ Fault \/ UNCHANGED faults
    BY <1>4 DEF ReadChargerState, FirstReading, NextReading, PlainReading
  <2>2. faults' \in 0..MaxFaults
    BY <2>1, FaultType
  <2>3. asked' \in Battery \cup {NoSensor} /\ pc' = pc
        /\ UNCHANGED <<latch, shadow, todo, rest, job, unsure>>
    BY <1>1, <2>1
  <2>4. reading' \in [asked : Battery \cup {NoSensor}, measured : 0..3 \cup {NoSensor}]
    BY <2>1, NoReadingType
  <2>5. QED
    BY <2>1, <2>2, <2>3, <2>4, PinsAlone
<1>5. CASE (\E l \in Light : LightChanges(l)) \/ SecondPasses
  <2>1. UNCHANGED pinVars
    BY <1>5 DEF LightChanges, SecondPasses
  <2>2. /\ UNCHANGED <<latch, shadow, todo, rest, job, unsure>>
        /\ pc' = pc /\ ok' = ok /\ asked' = asked /\ reading' = reading /\ faults' = faults
    BY <2>1 DEF pinVars
  <2>3. faults' \in 0..MaxFaults
    BY <2>2, FaultType
  <2>4. /\ ok' \in BOOLEAN /\ asked' \in Battery \cup {NoSensor}
        /\ reading' \in [asked : Battery \cup {NoSensor}, measured : 0..3 \cup {NoSensor}]
    BY <1>1, <2>2
  <2>5. QED
    BY <2>2, <2>3, <2>4, PinsAlone
<1>6. QED
  BY <1>2, <1>3, <1>4, <1>5

LEMMA EndStep == PInv /\ EndOfProcess => PInv'
<1> SUFFICES ASSUME PInv, EndOfProcess PROVE PInv'
  OBVIOUS
<1>1. /\ pc' = "down" /\ shadow' = [d \in PIO |-> InitialState \cap Pins[d]]
      /\ todo' = <<>> /\ rest' = <<>> /\ ok' = FALSE
      /\ asked' = NoSensor /\ reading' = NoReading /\ job' = NoJob /\ unsure' = PIO
      /\ UNCHANGED <<latch, faults>>
  BY DEF EndOfProcess
<1>2. /\ todo' \in Seq(Write) /\ Len(todo') = 0 /\ 1..Len(todo') = {}
      /\ rest' \in Seq(ToSet(Charger))
  BY <1>1, EmptySeq
<1>3. job' \in Job /\ job'.want = {} /\ job'.pins = {} /\ job'.pio # GP
  BY <1>1 DEF NoJob, Job, PIO, GP
<1>4. PinsTypeOK'
  BY <1>1, <1>2, <1>3, Wiring, NoReadingType DEF PInv, PinsTypeOK
<1>5. PhaseInv' /\ InputsUndriven' /\ ShadowInv'
  BY <1>1, <1>3 DEF PInv, PinInv, PhaseInv, InputsUndriven, ShadowInv
<1>6. WritesInv' /\ MuxInv' /\ DoneInv'
  BY <1>1, <1>2, <1>3 DEF WritesInv, MuxInv, DoneInv
<1>7. QED
  BY <1>4, <1>5, <1>6 DEF PInv, PinInv

LEMMA StartStep == PInv /\ ActionHardwareServerStart => PInv'
<1> SUFFICES ASSUME PInv, ActionHardwareServerStart PROVE PInv'
  OBVIOUS
<1>1. /\ pc = "down" /\ pc' \in {"accept", "useless"} /\ reading' = NoReading
      /\ UNCHANGED <<shadow, todo, rest, asked, job>>
  BY DEF ActionHardwareServerStart
<1>2. /\ unsure' \subseteq PIO /\ ok' \in BOOLEAN /\ faults' \in 0..MaxFaults
      /\ latch' \in [PIO -> SUBSET AllPins]
      /\ \A d \in PIO : \/ latch'[d] = latch[d] /\ d \in unsure'
                        \/ latch'[d] = shadow[d] \cup (InputMask \cap Pins[d])
  <2>1. unsure = PIO /\ latch \in [PIO -> SUBSET AllPins] /\ shadow \in [PIO -> SUBSET AllPins]
        /\ faults \in 0..MaxFaults
    BY <1>1 DEF PInv, PinInv, PhaseInv, PinsTypeOK
  <2>2. CASE \E missing \in SUBSET PIO : \E failing \in SUBSET (PIO \ missing) :
               \E taken \in SUBSET failing : Setup(missing, failing, taken)
    <3>1. PICK missing \in SUBSET PIO, failing \in SUBSET PIO, taken \in SUBSET PIO :
            Setup(missing, failing, taken)
      BY <2>2
    <3>2. Cardinality(missing \cup failing) \in Nat
      <4>1. IsFiniteSet(PIO)
        <5>1. IsFiniteSet({"CHARGER_STATE_PIO"} \cup {"DARLINGTON_PIO"})
          BY FS_Singleton, FS_AddElement
        <5>2. IsFiniteSet({"CHARGER_STATE_PIO"} \cup {"DARLINGTON_PIO"} \cup {"RELAY_PIO"})
          BY <5>1, FS_AddElement
        <5>3. IsFiniteSet({"CHARGER_STATE_PIO"} \cup {"DARLINGTON_PIO"} \cup {"RELAY_PIO"}
                            \cup {"GENERAL_PURPOSE_PIO"})
          BY <5>2, FS_AddElement
        <5>4. PIO = {"CHARGER_STATE_PIO"} \cup {"DARLINGTON_PIO"} \cup {"RELAY_PIO"}
                      \cup {"GENERAL_PURPOSE_PIO"}
          BY DEF PIO
        <5>5. QED
          BY <5>3, <5>4, Zenon
      <4>2. QED
        BY <4>1, FS_Subset, FS_CardinalityType
    <3>3. faults' \in 0..MaxFaults
      BY <2>1, <3>1, <3>2, HardwareAssumption DEF Setup
    <3>4. ok' \in BOOLEAN
      BY <3>1 DEF Setup
    <3>5. /\ latch' = [d \in PIO |->
               IF d \in missing \cup (failing \ taken) THEN latch[d]
               ELSE shadow[d] \cup (InputMask \cap Pins[d])]
          /\ unsure' = missing \cup failing
      BY <3>1 DEF Setup
    <3>6. latch' \in [PIO -> SUBSET AllPins]
      BY <2>1, <3>5, Wiring
    <3>7. QED
      BY <3>3, <3>4, <3>5, <3>6
  <2>3. CASE Fault /\ ok' = FALSE /\ UNCHANGED <<latch, unsure>>
    BY <2>1, <2>3, FaultType
  <2>4. QED
    BY <2>2, <2>3 DEF ActionHardwareServerStart
<1>3. todo = <<>> /\ Len(todo') = 0 /\ 1..Len(todo') = {}
  BY <1>1, EmptySeq DEF PInv, PinInv, PhaseInv
<1>4. PinsTypeOK'
  <2>1. \A d \in PIO : latch'[d] \subseteq Pins[d] /\ shadow'[d] \subseteq Pins[d]
    BY <1>1, <1>2 DEF PInv, PinsTypeOK
  <2>2. QED
    BY <1>1, <1>2, <1>3, <2>1, NoReadingType DEF PInv, PinsTypeOK
<1>5. PhaseInv'
  BY <1>1, <1>3 DEF PInv, PinInv, PhaseInv
<1>6. InputsUndriven'
  BY <1>2, Wiring DEF PInv, PinInv, InputsUndriven, PIO
<1>7. ShadowInv'
  <2>1. \A d \in PIO : (shadow[d] \cup (InputMask \cap Pins[d])) \cap ShadowMask
                         = shadow[d] \cap ShadowMask
    BY Wiring
  <2>2. QED
    BY <1>1, <1>2, <2>1 DEF ShadowInv
<1>8. WritesInv' /\ MuxInv' /\ DoneInv'
  BY <1>1, <1>3 DEF WritesInv, MuxInv, DoneInv
<1>9. QED
  BY <1>4, <1>5, <1>6, <1>7, <1>8 DEF PInv, PinInv

LEMMA PinsInit == Init => PInv
<1> SUFFICES ASSUME Init PROVE PInv
  OBVIOUS
<1>1. /\ todo \in Seq(Write) /\ Len(todo) = 0 /\ 1..Len(todo) = {} /\ todo = <<>>
      /\ rest \in Seq(ToSet(Charger))
  BY EmptySeq DEF Init
<1>2. job \in Job /\ job.want = {} /\ job.pins = {} /\ job.pio # GP
  BY DEF Init, NoJob, Job, PIO, GP
<1>3. PinsTypeOK
  <2>1. faults \in 0..MaxFaults
    BY HardwareAssumption DEF Init
  <2>2. QED
    BY <1>1, <1>2, <2>1, Wiring, NoReadingType DEF Init, PinsTypeOK
<1>4. PhaseInv /\ ShadowInv
  BY <1>1, <1>2 DEF Init, PhaseInv, ShadowInv
<1>5. InputsUndriven
  BY Wiring DEF Init, InputsUndriven, PIO
<1>6. WritesInv /\ MuxInv /\ DoneInv
  BY <1>1, <1>2 DEF Init, WritesInv, MuxInv, DoneInv
<1>7. QED
  BY <1>3, <1>4, <1>5, <1>6 DEF PInv, PinInv

LEMMA PinsStep == PInv /\ [Next]_vars => PInv'
<1> SUFFICES ASSUME PInv, [Next]_vars PROVE PInv'
  OBVIOUS
<1>1. CASE ActionHardwareServerStart
  BY <1>1, StartStep
<1>2. CASE ActionHardwareServerStop \/ Crash
  BY <1>2, EndStep DEF ActionHardwareServerStop, Crash
<1>3. CASE SetOne
  BY <1>3, SetOneStep
<1>4. CASE \E high \in BOOLEAN : SetAllBatteryChargers(high)
  BY <1>4, SetAllStep
<1>5. CASE NextCharger
  BY <1>5, NextChargerStep
<1>6. CASE \E p \in ToggleMask : TogglePinsWithShadow(p)
  BY <1>6, ToggleStep
<1>7. CASE \E input \in Battery : \E sensor \in {NoSensor, input} :
             SetAnalogueMuxInput(input, sensor)
  BY <1>7, MuxStep
<1>8. CASE WritePins
  BY <1>8, WriteDoneStep, WriteFailsStep DEF WritePins
<1>9. CASE \/ GiveUp \/ ReadAnalogueMux \/ ReadChargerState
           \/ (\E l \in Light : LightChanges(l)) \/ SecondPasses
  BY <1>9, QuietSteps
<1>10. CASE UNCHANGED vars
  <2>1. UNCHANGED pinVars
    BY <1>10 DEF vars, pinVars
  <2>2. /\ PinsTypeOK' /\ PhaseInv' /\ InputsUndriven' /\ ShadowInv'
        /\ WritesInv' /\ MuxInv' /\ DoneInv'
    BY <2>1 DEF PInv, PinInv, pinVars, PinsTypeOK, PhaseInv, InputsUndriven, ShadowInv,
                WritesInv, MuxInv, DoneInv
  <2>3. QED
    BY <2>2 DEF PInv, PinInv
<1>11. QED
  BY <1>1, <1>2, <1>3, <1>4, <1>5, <1>6, <1>7, <1>8, <1>9, <1>10 DEF Next

(***************************************************************************)
(* Every step keeps what is said of the lights.                            *)
(***************************************************************************)
LInv == LightsTypeOK /\ LightInv

LEMMA LightsStep == LInv /\ [Next]_vars => LInv'
<1> SUFFICES ASSUME LInv, [Next]_vars PROVE LInv'
  OBVIOUS
<1> USE DEF LInv, LightsTypeOK, LightInv, Never
<1>1. CASE UNCHANGED lightVars
  BY <1>1 DEF lightVars
<1>2. CASE EndOfProcess
  BY <1>2 DEF EndOfProcess
<1>3. CASE ReadChargerState
  BY <1>3 DEF ReadChargerState, FirstReading, NextReading, PlainReading
<1>4. CASE \E l \in Light : LightChanges(l)
  BY <1>4 DEF LightChanges
<1>5. CASE SecondPasses
  BY <1>5 DEF SecondPasses
<1>6. Next => \/ UNCHANGED lightVars \/ EndOfProcess \/ ReadChargerState
              \/ (\E l \in Light : LightChanges(l)) \/ SecondPasses
  BY DEF Next, ActionHardwareServerStart, ActionHardwareServerStop, Crash, GiveUp, SetOne,
         SetPinsWithShadow, SetAllBatteryChargers, NextCharger, TogglePinsWithShadow,
         SetAnalogueMuxInput, WritePins, ReadAnalogueMux
<1>7. UNCHANGED vars => UNCHANGED lightVars
  BY DEF vars, lightVars
<1>8. QED
  BY <1>1, <1>2, <1>3, <1>4, <1>5, <1>6, <1>7

\* The invariant holds in every state: of the pins and of the lights.
THEOREM Invariant == Spec => []IInv
<1>1. Init => IInv
  BY PinsInit DEF Init, IInv, TypeOK, PInv, LightsTypeOK, LightInv
<1>2. IInv /\ [Next]_vars => IInv'
  BY PinsStep, LightsStep DEF IInv, TypeOK, PInv, LInv
<1>3. QED
  BY <1>1, <1>2, PTL DEF Spec

\* Every variable keeps its type.
THEOREM TypeCorrect == Spec => []TypeOK
BY Invariant, PTL DEF IInv

\* What the server reads of a device is what the device drives, unless its
\* last write failed.
THEOREM ReadingsSound == Spec => []ReadingsTrue
<1>1. IInv => ReadingsTrue
  BY ReadingsShadowed DEF IInv, TypeOK, PinInv, ShadowInv, ReadingsTrue
<1>2. QED
  BY <1>1, Invariant, PTL

\* The pin that detects the mains is never pulled down.
THEOREM InputsKept == Spec => []InputsUndriven
BY Invariant, PTL DEF IInv, PinInv

\* What a step may do to the pins during a message: the write in hand, or
\* nothing.
LEMMA WriteSteps ==
  ASSUME IInv, [Next]_vars
  PROVE  /\ pc # "down" => WritePins \/ UNCHANGED latch
         /\ pc = "write" /\ pc' = "accept" => WritePins
  <1>1. CASE WritePins
    BY <1>1
  <1>2. CASE ~WritePins
    BY <1>2 DEF Next, vars, ActionHardwareServerStart, ActionHardwareServerStop, Crash, EndOfProcess,
         GiveUp, SetOne, SetPinsWithShadow, SetAllBatteryChargers, NextCharger,
         TogglePinsWithShadow, SetAnalogueMuxInput, ReadAnalogueMux, ReadChargerState,
         FirstReading, NextReading, PlainReading, LightChanges, SecondPasses, pinVars
  <1>3. QED
    BY <1>1, <1>2

\* What the write in hand does to the device of the message, and to the others.
LEMMA WriteEffect ==
  ASSUME IInv, WritePins
  PROVE  /\ job.pio \in PIO /\ todo # <<>>
         /\ \A d \in PIO : d # job.pio => latch'[d] = latch[d]
         /\ \/ latch'[job.pio] = todo[1].pins
            \/ latch'[job.pio] = latch[job.pio] /\ ok' = FALSE
<1>1. PInv /\ pc = "write"
  BY DEF IInv, TypeOK, PInv, WritePins
<1>2. /\ latch' = latch /\ ok' = FALSE
      \/ latch' = [latch EXCEPT ![job.pio] = todo[1].pins]
  BY <1>1, Writes DEF WritePins, WriteDone, WriteFails
<1>3. latch \in [PIO -> SUBSET AllPins] /\ todo # <<>>
  BY <1>1 DEF PInv, PinInv, PinsTypeOK, PhaseInv
<1>4. QED
  BY <1>1, <1>2, <1>3, Writes

\* A message changes the pins it names and no other.
THEOREM OnlyNamed == Spec => OnlyNamedPins
<1>1. ASSUME IInv, [Next]_vars, pc = "write", ~job.blind,
             NEW d \in PIO \ unsure, NEW p \in AllPins, (p \in latch[d]) # (p \in latch'[d])
      PROVE  d = job.pio /\ p \in job.pins
  <2>1. WritePins
    BY <1>1, WriteSteps
  <2>2. d = job.pio /\ latch'[d] = todo[1].pins
    BY <1>1, <2>1, WriteEffect
  <2>3. todo[1].pins \ job.pins = latch[d] \ job.pins
    BY <1>1, <2>2, Writes DEF IInv, TypeOK, PInv, PinInv, WritesInv
  <2>4. QED
    BY <1>1, <2>2, <2>3
<1>2. IInv /\ [Next]_vars =>
        [pc = "write" /\ ~job.blind =>
           \A d \in PIO \ unsure : \A p \in AllPins :
             (p \in latch[d]) # (p \in latch'[d]) => d = job.pio /\ p \in job.pins]_vars
  BY <1>1
<1>3. QED
  BY <1>2, Invariant, PTL DEF Spec, OnlyNamedPins

\* Success means that every pin the message names is as it wants.
THEOREM SuccessSound == Spec => SuccessMeansDone
<1>1. ASSUME IInv, [Next]_vars, pc = "write", pc' = "accept", ok', ~job.blind,
             job.pio # "GENERAL_PURPOSE_PIO"
      PROVE  latch'[job.pio] \cap job.pins = job.want
  <2>1. WritePins /\ PInv
    BY <1>1, WriteSteps DEF IInv, TypeOK, PInv
  <2>2. latch'[job.pio] = todo[1].pins
    BY <1>1, <2>1, WriteEffect
  <2>3. WriteDone
    BY <1>1, <2>1 DEF WritePins, WriteFails
  <2>4. Len(todo) = 1 /\ rest = <<>>
    BY <1>1, <2>3 DEF WriteDone
  <2>5. \A p \in job.pins : p \in todo[1].pins <=> p \in job.want
    <3>1. ToSet(rest) = {}
      BY <2>4 DEF ToSet
    <3>2. QED
      BY <1>1, <2>1, <2>4, <3>1, WriteEffect DEF PInv, PinInv, DoneInv, GP
  <2>6. job.want \subseteq job.pins
    BY <2>1 DEF PInv, PinInv, PhaseInv
  <2>7. QED
    BY <2>2, <2>5, <2>6
<1>2. IInv /\ [Next]_vars =>
        [pc = "write" /\ pc' = "accept" /\ ok' /\ ~job.blind /\ job.pio # "GENERAL_PURPOSE_PIO" =>
           latch'[job.pio] \cap job.pins = job.want]_vars
  BY <1>1
<1>3. QED
  BY <1>2, Invariant, PTL DEF Spec, SuccessMeansDone

\* The mux is disabled before or after whatever selects another sensor.
THEOREM MuxSound == Spec => MuxNeverSwitchesLive
<1>1. ASSUME IInv, [Next]_vars, pc # "down",
             "MUX_ENABLE_BAR" \notin latch["GENERAL_PURPOSE_PIO"] \cup latch'["GENERAL_PURPOSE_PIO"]
      PROVE  latch'["GENERAL_PURPOSE_PIO"] = latch["GENERAL_PURPOSE_PIO"]
  <2>1. CASE UNCHANGED latch
    BY <2>1
  <2>2. CASE WritePins /\ job.pio # GP
    BY <1>1, <2>2, WriteEffect DEF GP, PIO
  <2>3. CASE WritePins /\ job.pio = GP
    <3>1. PInv /\ pc = "write"
      BY <1>1, <2>3 DEF IInv, TypeOK, PInv, WritePins
    <3>2. BAR \in todo[1].pins \/ BAR \in latch[GP]
      BY <2>3, <3>1, Writes DEF PInv, PinInv, MuxInv
    <3>3. QED
      BY <1>1, <2>3, <3>2, WriteEffect DEF GP, BAR
  <2>4. QED
    BY <1>1, <2>1, <2>2, <2>3, WriteSteps
<1>2. IInv /\ [Next]_vars =>
        [LET before == latch["GENERAL_PURPOSE_PIO"]
             after  == latch'["GENERAL_PURPOSE_PIO"]
         IN  pc # "down" /\ "MUX_ENABLE_BAR" \notin before \cup after =>
               Sensor(before) = Sensor(after)]_vars
  BY <1>1
<1>3. QED
  BY <1>2, Invariant, PTL DEF Spec, MuxNeverSwitchesLive

\* A light that is called flashing changed in both intervals.
THEOREM FlashingSound == Spec => FlashingMovedTwice
<1>1. ASSUME IInv, [Next]_vars, elapsed # 0, elapsed' = 0
      PROVE  flashing' \subseteq movedNow \cap movedBefore
  <2>1. ReadChargerState \/ EndOfProcess \/ SecondPasses \/ UNCHANGED elapsed
    <3>1. CASE UNCHANGED vars
      BY <3>1 DEF vars
    <3>2. CASE Next
      BY <3>2 DEF Next, ActionHardwareServerStart, ActionHardwareServerStop, Crash, GiveUp, SetOne,
           SetPinsWithShadow, SetAllBatteryChargers, NextCharger, TogglePinsWithShadow,
           SetAnalogueMuxInput, WritePins, ReadAnalogueMux, LightChanges, lightVars
    <3>3. QED
      BY <1>1, <3>1, <3>2
  <2>2. ReadChargerState
    BY <1>1, <2>1 DEF EndOfProcess, SecondPasses, Never
  <2>3. QED
    BY <1>1, <2>2 DEF ReadChargerState, FirstReading, NextReading, PlainReading,
         IInv, LightInv
<1>2. IInv /\ [Next]_vars =>
        [elapsed # 0 /\ elapsed' = 0 => flashing' \subseteq movedNow \cap movedBefore]_vars
  BY <1>1
<1>3. QED
  BY <1>2, Invariant, PTL DEF Spec, FlashingMovedTwice

=============================================================================
