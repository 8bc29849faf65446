------------------------ MODULE StateMachine_proofs ------------------------
(***************************************************************************)
(* Proofs about the state machine process, for every backlog and every     *)
(* number of failures.                                                     *)
(***************************************************************************)
EXTENDS StateMachine, TLAPS

(***************************************************************************)
(* Part 1: what the messages of a transition do to the hardware.           *)
(***************************************************************************)
Result == [ok : BOOLEAN, w : World]

Supplied(w) ==
  /\ w.pins["rio12V"] \/ w.pins["rioBatt"]
  /\ w.pins["o12V"] \/ w.pins["oBatt"]

\* What every result r of an action in world w has in common.
Follows(w, r) ==
  /\ r \in Result
  /\ Supplied(w) => Supplied(r.w)
  /\ r.w.faults = 0 => w.faults = 0

SameBut(w, v, pin) == \A x \in Pins \ {pin} : v.pins[x] = w.pins[x]

LEMMA DoneFact ==
  ASSUME NEW w \in World, NEW pin \in Pins, NEW v \in BOOLEAN
  PROVE  LET r == Done(w, pin, v)
         IN  /\ r \in Result /\ r.ok /\ r.w.faults = w.faults
             /\ r.w.pins[pin] = v /\ SameBut(w, r.w, pin)
BY DEF Done, Result, World, SameBut

LEMMA FailedFact ==
  ASSUME NEW w \in World, NEW pin \in Pins, NEW v \in BOOLEAN, w.faults < MaxFaults
  PROVE  LET r == Failed(w, pin, v)
         IN  /\ r \in Result /\ ~r.ok /\ r.w.faults > 0
             /\ r.w.pins[pin] = v /\ SameBut(w, r.w, pin)
<1>1. w.faults + 1 \in 0..MaxFaults /\ w.faults + 1 > 0
  BY StateMachineAssumption DEF World
<1> QED BY <1>1 DEF Failed, Result, World, SameBut

\* A relay is set, or stays as it was.
LEMMA SetRelayFact ==
  ASSUME NEW w \in World, NEW relay \in Relay, NEW on \in BOOLEAN,
         NEW r \in SetRelay(w, relay, on)
  PROVE  /\ r \in Result /\ SameBut(w, r.w, relay)
         /\ r.w.faults = 0 => w.faults = 0 /\ r.ok
         /\ IF r.ok THEN r.w.pins[relay] = on ELSE r.w.pins[relay] = w.pins[relay]
<1>1. relay \in Pins /\ w.pins[relay] \in BOOLEAN
  BY DEF Pins, World
<1>2. CASE r = Done(w, relay, on)
  BY <1>1, <1>2, DoneFact
<1>3. CASE r = Failed(w, relay, w.pins[relay]) /\ w.faults < MaxFaults
  BY <1>1, <1>3, FailedFact
<1> QED BY <1>2, <1>3 DEF SetRelay

\* The new supply is on before the old one goes off.
LEMMA SwitchFact ==
  ASSUME NEW w \in World, NEW new \in Relay, NEW old \in Relay, new # old,
         NEW r \in SwitchSupply(w, new, old)
  PROVE  /\ r \in Result
         /\ r.w.faults = 0 => w.faults = 0 /\ r.ok
         /\ r.ok => r.w.pins[new] /\ ~r.w.pins[old]
         /\ w.pins[new] \/ w.pins[old] => r.w.pins[new] \/ r.w.pins[old]
         /\ \A x \in Pins \ {new, old} : r.w.pins[x] = w.pins[x]
<1>1. PICK s \in SetRelay(w, new, TRUE) :
        r \in IF s.ok THEN SetRelay(s.w, old, FALSE) ELSE {s}
  BY DEF SwitchSupply, AndThen
<1>2. /\ s \in Result /\ SameBut(w, s.w, new)
      /\ s.w.faults = 0 => w.faults = 0 /\ s.ok
      /\ IF s.ok THEN s.w.pins[new] = TRUE ELSE s.w.pins[new] = w.pins[new]
  BY SetRelayFact
<1>3. new \in Pins /\ old \in Pins BY DEF Pins
<1>4. CASE s.ok
  <2>1. r \in SetRelay(s.w, old, FALSE) BY <1>1, <1>4
  <2>2. s.w \in World BY <1>2 DEF Result
  <2>3. /\ r \in Result /\ SameBut(s.w, r.w, old)
        /\ r.w.faults = 0 => s.w.faults = 0 /\ r.ok
        /\ IF r.ok THEN r.w.pins[old] = FALSE ELSE r.w.pins[old] = s.w.pins[old]
    BY <2>1, <2>2, SetRelayFact
  <2> QED BY <1>2, <1>3, <1>4, <2>3 DEF SameBut
<1>5. CASE ~s.ok
  <2>1. r = s BY <1>1, <1>5
  <2> QED BY <1>2, <1>3, <1>5, <2>1 DEF SameBut
<1> QED BY <1>4, <1>5

LEMMA ToggleFact ==
  ASSUME NEW w \in World, NEW r \in Toggle(w)
  PROVE  /\ r \in Result /\ SameBut(w, r.w, "hindbrain")
         /\ r.w.faults = 0 => w.faults = 0 /\ r.ok
         /\ r.ok /\ w.pins["onPCB"] => r.w.pins["hindbrain"] = ~w.pins["hindbrain"]
<1> DEFINE was == w.pins["hindbrain"]
           is == IF w.pins["onPCB"] THEN ~was ELSE was
<1>1. "hindbrain" \in Pins /\ was \in BOOLEAN /\ is \in BOOLEAN
  BY DEF Pins, World
<1>2. CASE r = Done(w, "hindbrain", is)
  BY <1>1, <1>2, DoneFact
<1>3. CASE r = Failed(w, "hindbrain", is) /\ w.faults < MaxFaults
  BY <1>1, <1>3, FailedFact
<1>4. CASE r = Failed(w, "hindbrain", was) /\ w.faults < MaxFaults
  BY <1>1, <1>4, FailedFact
<1> QED BY <1>2, <1>3, <1>4 DEF Toggle

LEMMA PingFact ==
  ASSUME NEW w \in World, NEW r \in Ping(w)
  PROVE  /\ r \in Result /\ \A x \in Pins : r.w.pins[x] = w.pins[x]
         /\ r.ok => w.pins["hindbrain"]
         /\ r.w.faults = 0 => w.faults = 0 /\ r.ok = w.pins["hindbrain"]
<1>1. "hindbrain" \in Pins /\ w.pins["hindbrain"] \in BOOLEAN
  BY DEF Pins, World
<1>2. CASE w.pins["hindbrain"] /\ r = Failed(w, "hindbrain", TRUE) /\ w.faults < MaxFaults
  <2>1. /\ r \in Result /\ ~r.ok /\ r.w.faults > 0
        /\ r.w.pins["hindbrain"] = TRUE /\ SameBut(w, r.w, "hindbrain")
    BY <1>1, <1>2, FailedFact
  <2>2. \A x \in Pins : w.pins[x] \in BOOLEAN BY DEF World
  <2>3. \A x \in Pins : r.w.pins[x] = w.pins[x]
    BY <1>1, <1>2, <2>1, <2>2 DEF SameBut
  <2> QED BY <2>1, <2>3
<1>3. CASE w.pins["hindbrain"] /\ r = [ok |-> TRUE, w |-> w]
  BY <1>1, <1>3 DEF Result
<1>4. CASE ~w.pins["hindbrain"] /\ r = [ok |-> FALSE, w |-> w]
  BY <1>1, <1>4 DEF Result
<1> QED BY <1>1, <1>2, <1>3, <1>4 DEF Ping

\* Whatever is toggled and pinged, only the Hindbrain changes.
Toggled(w, r) ==
  /\ r \in Result /\ SameBut(w, r.w, "hindbrain")
  /\ r.w.faults = 0 => w.faults = 0

LEMMA ToggleAndPingFact ==
  ASSUME NEW w \in World, NEW r \in ToggleAndPing(w)
  PROVE  /\ Toggled(w, r)
         /\ r.ok => r.w.pins["hindbrain"]
         /\ r.w.faults = 0 /\ w.pins["onPCB"] =>
              /\ r.w.pins["hindbrain"] = ~w.pins["hindbrain"]
              /\ r.ok = r.w.pins["hindbrain"]
<1>1. PICK s \in Toggle(w) : r \in IF s.ok THEN Ping(s.w) ELSE {s}
  BY DEF ToggleAndPing, AndThen
<1>2. /\ s \in Result /\ SameBut(w, s.w, "hindbrain")
      /\ s.w.faults = 0 => w.faults = 0 /\ s.ok
      /\ s.ok /\ w.pins["onPCB"] => s.w.pins["hindbrain"] = ~w.pins["hindbrain"]
  BY ToggleFact
<1>3. CASE s.ok
  <2>1. r \in Ping(s.w) /\ s.w \in World BY <1>1, <1>2, <1>3 DEF Result
  <2>2. /\ r \in Result /\ \A x \in Pins : r.w.pins[x] = s.w.pins[x]
        /\ r.ok => s.w.pins["hindbrain"]
        /\ r.w.faults = 0 => s.w.faults = 0 /\ r.ok = s.w.pins["hindbrain"]
    BY <2>1, PingFact
  <2> QED BY <1>2, <1>3, <2>2 DEF Toggled, SameBut, Pins
<1>4. CASE ~s.ok
  BY <1>1, <1>2, <1>4 DEF Toggled
<1> QED BY <1>3, <1>4

LEMMA SwitchOnFact ==
  ASSUME NEW w \in World, NEW r \in ActionSwitchOnHindbrain(w)
  PROVE  /\ Toggled(w, r)
         /\ r.ok => r.w.pins["hindbrain"]
         /\ r.w.faults = 0 /\ w.pins["onPCB"] => r.ok
<1>1. PICK s \in ToggleAndPing(w) : r \in IF s.ok THEN {s} ELSE ToggleAndPing(s.w)
  BY DEF ActionSwitchOnHindbrain, OrElse
<1>2. /\ Toggled(w, s)
      /\ s.ok => s.w.pins["hindbrain"]
      /\ s.w.faults = 0 /\ w.pins["onPCB"] =>
           /\ s.w.pins["hindbrain"] = ~w.pins["hindbrain"]
           /\ s.ok = s.w.pins["hindbrain"]
  BY ToggleAndPingFact
<1>3. CASE s.ok
  BY <1>1, <1>2, <1>3 DEF Toggled
<1>4. CASE ~s.ok
  <2>1. r \in ToggleAndPing(s.w) /\ s.w \in World
    BY <1>1, <1>2, <1>4 DEF Result, Toggled
  <2>2. /\ Toggled(s.w, r)
        /\ r.ok => r.w.pins["hindbrain"]
        /\ r.w.faults = 0 /\ s.w.pins["onPCB"] =>
             /\ r.w.pins["hindbrain"] = ~s.w.pins["hindbrain"]
             /\ r.ok = r.w.pins["hindbrain"]
    BY <2>1, ToggleAndPingFact
  <2>3. s.w.pins["onPCB"] = w.pins["onPCB"]
    BY <1>2 DEF Toggled, SameBut, Pins, Relay
  <2>4. s.w.pins["hindbrain"] \in BOOLEAN /\ r.ok \in BOOLEAN
    BY <1>2, <2>2 DEF Toggled, Result, World, Pins
  <2> QED BY <1>2, <1>4, <2>2, <2>3, <2>4 DEF Toggled, SameBut
<1> QED BY <1>3, <1>4

LEMMA ToggleThenPingFact ==
  ASSUME NEW w \in World, NEW r \in Anyway(Toggle(w), Ping)
  PROVE  /\ Toggled(w, r)
         /\ r.w.faults = 0 /\ w.pins["onPCB"] =>
              /\ r.w.pins["hindbrain"] = ~w.pins["hindbrain"]
              /\ r.ok = r.w.pins["hindbrain"]
<1>1. PICK s \in Toggle(w) : r \in Ping(s.w)
  BY DEF Anyway
<1>2. /\ s \in Result /\ SameBut(w, s.w, "hindbrain")
      /\ s.w.faults = 0 => w.faults = 0 /\ s.ok
      /\ s.ok /\ w.pins["onPCB"] => s.w.pins["hindbrain"] = ~w.pins["hindbrain"]
  BY ToggleFact
<1>3. s.w \in World BY <1>2 DEF Result
<1>4. /\ r \in Result /\ \A x \in Pins : r.w.pins[x] = s.w.pins[x]
      /\ r.ok => s.w.pins["hindbrain"]
      /\ r.w.faults = 0 => s.w.faults = 0 /\ r.ok = s.w.pins["hindbrain"]
  BY <1>1, <1>3, PingFact
<1> QED BY <1>2, <1>4 DEF Toggled, SameBut, Pins

LEMMA SwitchOffFact ==
  ASSUME NEW w \in World, NEW r \in ActionSwitchOffHindbrain(w)
  PROVE  /\ Toggled(w, r)
         /\ r.w.faults = 0 /\ w.pins["onPCB"] => ~r.w.pins["hindbrain"]
<1>1. PICK s \in Anyway(Toggle(w), Ping) :
        r \in IF s.ok THEN Anyway(Toggle(s.w), Ping) ELSE {s}
  BY DEF ActionSwitchOffHindbrain, AndThen
<1>2. /\ Toggled(w, s)
      /\ s.w.faults = 0 /\ w.pins["onPCB"] =>
           /\ s.w.pins["hindbrain"] = ~w.pins["hindbrain"]
           /\ s.ok = s.w.pins["hindbrain"]
  BY ToggleThenPingFact
<1>3. CASE s.ok
  <2>1. r \in Anyway(Toggle(s.w), Ping) /\ s.w \in World
    BY <1>1, <1>2, <1>3 DEF Result, Toggled
  <2>2. /\ Toggled(s.w, r)
        /\ r.w.faults = 0 /\ s.w.pins["onPCB"] =>
             /\ r.w.pins["hindbrain"] = ~s.w.pins["hindbrain"]
             /\ r.ok = r.w.pins["hindbrain"]
    BY <2>1, ToggleThenPingFact
  <2>3. s.w.pins["onPCB"] = w.pins["onPCB"]
    BY <1>2 DEF Toggled, SameBut, Pins, Relay
  <2> QED BY <1>2, <1>3, <2>2, <2>3 DEF Toggled, SameBut
<1>4. CASE ~s.ok
  BY <1>1, <1>2, <1>4 DEF Toggled
<1> QED BY <1>3, <1>4

(***************************************************************************)
(* Part 2: the entries of the states.                                      *)
(***************************************************************************)
SuppliesFromBattery(w) ==
  /\ w.pins["rioBatt"] /\ ~w.pins["rio12V"]
  /\ w.pins["oBatt"] /\ ~w.pins["o12V"]
SuppliesFromMains(w) ==
  /\ ~w.pins["rioBatt"] /\ w.pins["rio12V"]
  /\ ~w.pins["oBatt"] /\ w.pins["o12V"]

\* Either pair of switch-overs keeps everything supplied; without a failure
\* it ends on the supply it is meant for.
LEMMA ToBatteryFact ==
  ASSUME NEW w \in World, NEW s \in ActionSwitchPiRioToBatteryPower(w),
         NEW r \in ActionSwitchHindbrainToBatteryPower(s.w)
  PROVE  /\ Follows(w, s) /\ Follows(w, r)
         /\ r.w.faults = 0 => s.ok /\ r.ok
         /\ s.ok /\ r.ok => SuppliesFromBattery(r.w)
         /\ \A x \in {"onPCB", "external", "hindbrain"} : r.w.pins[x] = w.pins[x]
<1>1. /\ s \in Result
      /\ s.w.faults = 0 => w.faults = 0 /\ s.ok
      /\ s.ok => s.w.pins["rioBatt"] /\ ~s.w.pins["rio12V"]
      /\ w.pins["rioBatt"] \/ w.pins["rio12V"] => s.w.pins["rioBatt"] \/ s.w.pins["rio12V"]
      /\ \A x \in Pins \ {"rioBatt", "rio12V"} : s.w.pins[x] = w.pins[x]
  <2>1. s \in SwitchSupply(w, "rioBatt", "rio12V")  BY DEF ActionSwitchPiRioToBatteryPower
  <2>2. "rioBatt" \in Relay /\ "rio12V" \in Relay /\ "rioBatt" # "rio12V"  BY DEF Relay
  <2>3. QED  BY <2>1, <2>2, SwitchFact
<1>2. s.w \in World BY <1>1 DEF Result
<1>3. /\ r \in Result
      /\ r.w.faults = 0 => s.w.faults = 0 /\ r.ok
      /\ r.ok => r.w.pins["oBatt"] /\ ~r.w.pins["o12V"]
      /\ s.w.pins["oBatt"] \/ s.w.pins["o12V"] => r.w.pins["oBatt"] \/ r.w.pins["o12V"]
      /\ \A x \in Pins \ {"oBatt", "o12V"} : r.w.pins[x] = s.w.pins[x]
  <2>1. r \in SwitchSupply(s.w, "oBatt", "o12V")  BY DEF ActionSwitchHindbrainToBatteryPower
  <2>2. "oBatt" \in Relay /\ "o12V" \in Relay /\ "oBatt" # "o12V"  BY DEF Relay
  <2>3. QED  BY <1>2, <2>1, <2>2, SwitchFact
<1> QED BY <1>1, <1>3 DEF Follows, Supplied, SuppliesFromBattery, Pins, Relay

LEMMA ToMainsFact ==
  ASSUME NEW w \in World, NEW s \in ActionSwitchPiRioTo12VMainsPower(w),
         NEW r \in ActionSwitchHindbrainTo12VMainsPower(s.w)
  PROVE  /\ Follows(w, r)
         /\ r.w.faults = 0 => SuppliesFromMains(r.w)
         /\ \A x \in {"onPCB", "external", "hindbrain"} : r.w.pins[x] = w.pins[x]
<1>1. /\ s \in Result
      /\ s.w.faults = 0 => w.faults = 0 /\ s.ok
      /\ s.ok => s.w.pins["rio12V"] /\ ~s.w.pins["rioBatt"]
      /\ w.pins["rio12V"] \/ w.pins["rioBatt"] => s.w.pins["rio12V"] \/ s.w.pins["rioBatt"]
      /\ \A x \in Pins \ {"rio12V", "rioBatt"} : s.w.pins[x] = w.pins[x]
  <2>1. s \in SwitchSupply(w, "rio12V", "rioBatt")  BY DEF ActionSwitchPiRioTo12VMainsPower
  <2>2. "rio12V" \in Relay /\ "rioBatt" \in Relay /\ "rio12V" # "rioBatt"  BY DEF Relay
  <2>3. QED  BY <2>1, <2>2, SwitchFact
<1>2. s.w \in World BY <1>1 DEF Result
<1>3. /\ r \in Result
      /\ r.w.faults = 0 => s.w.faults = 0 /\ r.ok
      /\ r.ok => r.w.pins["o12V"] /\ ~r.w.pins["oBatt"]
      /\ s.w.pins["o12V"] \/ s.w.pins["oBatt"] => r.w.pins["o12V"] \/ r.w.pins["oBatt"]
      /\ \A x \in Pins \ {"o12V", "oBatt"} : r.w.pins[x] = s.w.pins[x]
  <2>1. r \in SwitchSupply(s.w, "o12V", "oBatt")  BY DEF ActionSwitchHindbrainTo12VMainsPower
  <2>2. "o12V" \in Relay /\ "oBatt" \in Relay /\ "o12V" # "oBatt"  BY DEF Relay
  <2>3. QED  BY <1>2, <2>1, <2>2, SwitchFact
<1> QED BY <1>1, <1>3 DEF Follows, Supplied, SuppliesFromMains, Pins, Relay

\* Toggling the Hindbrain and setting a relay leave the supplies alone.
LEMMA ToggledFollows ==
  ASSUME NEW w \in World, NEW r, Toggled(w, r)
  PROVE  /\ Follows(w, r) /\ r.w \in World
         /\ \A x \in Relay : r.w.pins[x] = w.pins[x]
<1>1. \A x \in Relay : x \in Pins \ {"hindbrain"} BY DEF Relay, Pins
<1>2. \A x \in Relay : r.w.pins[x] = w.pins[x] BY <1>1 DEF Toggled, SameBut
<1> QED BY <1>2 DEF Toggled, Follows, Supplied, Relay, Result

LEMMA RelayFollows ==
  ASSUME NEW w \in World, NEW relay \in {"onPCB", "external"}, NEW on \in BOOLEAN,
         NEW r \in SetRelay(w, relay, on)
  PROVE  /\ Follows(w, r) /\ r.w \in World
         /\ r.w.faults = 0 => r.ok
         /\ r.ok => r.w.pins[relay] = on
         /\ \A x \in Pins \ {relay} : r.w.pins[x] = w.pins[x]
<1>1. relay \in Relay BY DEF Relay
<1>2. /\ r \in Result /\ SameBut(w, r.w, relay)
      /\ r.w.faults = 0 => w.faults = 0 /\ r.ok
      /\ IF r.ok THEN r.w.pins[relay] = on ELSE r.w.pins[relay] = w.pins[relay]
  BY <1>1, SetRelayFact
<1>3. \A x \in {"rio12V", "rioBatt", "o12V", "oBatt"} : x \in Pins \ {relay}
  BY DEF Pins, Relay
<1> QED BY <1>2, <1>3 DEF Follows, Supplied, SameBut, Result

LEMMA MobileEntryFact ==
  ASSUME NEW w \in World, NEW r \in MobileEntry(w)
  PROVE  /\ Follows(w, r)
         /\ r.ok => SuppliesFromBattery(r.w) /\ r.w.pins["hindbrain"]
         /\ r.w.faults = 0 /\ w.pins["onPCB"] => r.ok
         /\ r.w.pins["onPCB"] = w.pins["onPCB"]
<1>1. PICK t \in AndThen(ActionSwitchPiRioToBatteryPower(w),
                         ActionSwitchHindbrainToBatteryPower) :
        r \in IF t.ok THEN ActionSwitchOnHindbrain(t.w) ELSE {t}
  BY DEF MobileEntry, AndThen
<1>2. PICK s \in ActionSwitchPiRioToBatteryPower(w) :
        t \in IF s.ok THEN ActionSwitchHindbrainToBatteryPower(s.w) ELSE {s}
  BY <1>1 DEF AndThen
<1>3. /\ Follows(w, s) /\ (s.w.faults = 0 => s.ok)
      /\ \A x \in {"onPCB", "external", "hindbrain"} : s.w.pins[x] = w.pins[x]
  <2>1. /\ s \in Result
        /\ s.w.faults = 0 => w.faults = 0 /\ s.ok
        /\ w.pins["rioBatt"] \/ w.pins["rio12V"] => s.w.pins["rioBatt"] \/ s.w.pins["rio12V"]
        /\ \A x \in Pins \ {"rioBatt", "rio12V"} : s.w.pins[x] = w.pins[x]
    <3>1. s \in SwitchSupply(w, "rioBatt", "rio12V")  BY <1>2 DEF ActionSwitchPiRioToBatteryPower
    <3>2. "rioBatt" \in Relay /\ "rio12V" \in Relay /\ "rioBatt" # "rio12V"  BY DEF Relay
    <3>3. QED  BY <3>1, <3>2, SwitchFact
  <2> QED BY <2>1 DEF Follows, Supplied, Pins, Relay
<1>4. /\ Follows(w, t) /\ t.w \in World
      /\ t.w.faults = 0 => t.ok
      /\ t.ok => SuppliesFromBattery(t.w)
      /\ t.w.pins["onPCB"] = w.pins["onPCB"]
  <2>1. CASE s.ok
    <3>1. t \in ActionSwitchHindbrainToBatteryPower(s.w) BY <1>2, <2>1
    <3> QED BY <2>1, <3>1, ToBatteryFact DEF Follows, Result
  <2>2. CASE ~s.ok
    BY <1>2, <1>3, <2>2 DEF Follows, Result
  <2> QED BY <2>1, <2>2
<1>5. CASE t.ok
  <2>1. r \in ActionSwitchOnHindbrain(t.w) BY <1>1, <1>5
  <2>2. /\ Toggled(t.w, r)
        /\ r.ok => r.w.pins["hindbrain"]
        /\ r.w.faults = 0 /\ t.w.pins["onPCB"] => r.ok
    BY <1>4, <2>1, SwitchOnFact
  <2>3. /\ Follows(t.w, r)
        /\ \A x \in Relay : r.w.pins[x] = t.w.pins[x]
    BY <1>4, <2>2, ToggledFollows
  <2> QED BY <1>4, <1>5, <2>2, <2>3 DEF Follows, SuppliesFromBattery, Relay
<1>6. CASE ~t.ok
  BY <1>1, <1>4, <1>6
<1> QED BY <1>5, <1>6

\* Init leaves the on-PCB relays powered, on which all toggling depends.
LEMMA InitEntryFact ==
  ASSUME NEW w \in World, NEW r \in InitEntry(w)
  PROVE  /\ Follows(w, r)
         /\ r.w.faults = 0 => /\ r.ok /\ SuppliesFromBattery(r.w)
                              /\ r.w.pins["hindbrain"] /\ r.w.pins["onPCB"]
<1>1. PICK t \in Anyway(ActionSwitchPiRioToBatteryPower(w),
                        ActionSwitchHindbrainToBatteryPower) :
        r \in AndThen(ActionEnableOnPCBRelays(t.w), ActionSwitchOnHindbrain)
  BY DEF InitEntry, Anyway
<1>2. PICK s \in ActionSwitchPiRioToBatteryPower(w) :
        t \in ActionSwitchHindbrainToBatteryPower(s.w)
  BY <1>1 DEF Anyway
<1>3. /\ Follows(w, t) /\ t.w \in World
      /\ t.w.faults = 0 => SuppliesFromBattery(t.w)
  <2>1. /\ Follows(w, s) /\ Follows(w, t)
        /\ t.w.faults = 0 => s.ok /\ t.ok
        /\ s.ok /\ t.ok => SuppliesFromBattery(t.w)
    BY <1>2, ToBatteryFact
  <2> QED BY <2>1 DEF Follows, Result
<1>4. PICK u \in ActionEnableOnPCBRelays(t.w) :
        r \in IF u.ok THEN ActionSwitchOnHindbrain(u.w) ELSE {u}
  BY <1>1 DEF AndThen
<1>5. /\ Follows(t.w, u) /\ u.w \in World
      /\ u.w.faults = 0 => u.ok
      /\ u.ok => u.w.pins["onPCB"]
      /\ \A x \in Pins \ {"onPCB"} : u.w.pins[x] = t.w.pins[x]
  BY <1>3, <1>4, RelayFollows DEF ActionEnableOnPCBRelays
<1>6. CASE u.ok
  <2>1. r \in ActionSwitchOnHindbrain(u.w) BY <1>4, <1>6
  <2>2. /\ Toggled(u.w, r)
        /\ r.ok => r.w.pins["hindbrain"]
        /\ r.w.faults = 0 /\ u.w.pins["onPCB"] => r.ok
    BY <1>5, <2>1, SwitchOnFact
  <2>3. /\ Follows(u.w, r)
        /\ \A x \in Relay : r.w.pins[x] = u.w.pins[x]
    BY <1>5, <2>2, ToggledFollows
  <2> QED BY <1>3, <1>5, <1>6, <2>2, <2>3 DEF Follows, SuppliesFromBattery, Relay, Pins
<1>7. CASE ~u.ok
  BY <1>3, <1>4, <1>5, <1>7 DEF Follows
<1> QED BY <1>6, <1>7

LEMMA DockedEntryFact ==
  ASSUME NEW w \in World, NEW r \in DockedEntry(w)
  PROVE  /\ Follows(w, r)
         /\ r.w.faults = 0 /\ w.pins["onPCB"] =>
              /\ r.w.pins["external"] /\ SuppliesFromMains(r.w)
              /\ ~r.w.pins["hindbrain"] /\ r.w.pins["onPCB"]
<1> DEFINE Rest(v) == Anyway(Anyway(ActionSwitchPiRioTo12VMainsPower(v),
                                    ActionSwitchHindbrainTo12VMainsPower),
                             ActionSwitchOffHindbrain)
<1>1. PICK u \in ActionEnableExternalRelays(w) : r \in IF u.ok THEN Rest(u.w) ELSE {u}
  BY DEF DockedEntry, AndThen
<1>2. /\ Follows(w, u) /\ u.w \in World
      /\ u.w.faults = 0 => u.ok
      /\ u.ok => u.w.pins["external"]
      /\ \A x \in Pins \ {"external"} : u.w.pins[x] = w.pins[x]
  BY <1>1, RelayFollows DEF ActionEnableExternalRelays
<1>3. CASE u.ok
  <2>1. PICK t \in Anyway(ActionSwitchPiRioTo12VMainsPower(u.w),
                          ActionSwitchHindbrainTo12VMainsPower) :
          r \in ActionSwitchOffHindbrain(t.w)
    BY <1>1, <1>3 DEF Anyway
  <2>2. PICK s \in ActionSwitchPiRioTo12VMainsPower(u.w) :
          t \in ActionSwitchHindbrainTo12VMainsPower(s.w)
    BY <2>1 DEF Anyway
  <2>3. /\ Follows(u.w, t)
        /\ t.w.faults = 0 => SuppliesFromMains(t.w)
        /\ \A x \in {"onPCB", "external", "hindbrain"} : t.w.pins[x] = u.w.pins[x]
    BY <1>2, <2>2, ToMainsFact
  <2>4. t.w \in World BY <2>3 DEF Follows, Result
  <2>5. /\ Toggled(t.w, r)
        /\ r.w.faults = 0 /\ t.w.pins["onPCB"] => ~r.w.pins["hindbrain"]
    BY <2>1, <2>4, SwitchOffFact
  <2>6. /\ Follows(t.w, r)
        /\ \A x \in Relay : r.w.pins[x] = t.w.pins[x]
    BY <2>4, <2>5, ToggledFollows
  <2> QED BY <1>2, <1>3, <2>3, <2>5, <2>6 DEF Follows, SuppliesFromMains, Relay, Pins
<1>4. CASE ~u.ok
  BY <1>1, <1>2, <1>4 DEF Follows
<1> QED BY <1>3, <1>4

LEMMA ShutdownEntryFact ==
  ASSUME NEW w \in World, NEW r \in ShutdownEntry(w)
  PROVE  /\ Follows(w, r)
         /\ r.w.faults = 0 /\ w.pins["onPCB"] =>
              ~r.w.pins["hindbrain"] /\ ~r.w.pins["external"] /\ ~r.w.pins["onPCB"]
<1>1. PICK t \in Anyway(ActionSwitchOffHindbrain(w), ActionDisableExternalRelays) :
        r \in ActionDisableOnPCBRelays(t.w)
  BY DEF ShutdownEntry, Anyway
<1>2. PICK s \in ActionSwitchOffHindbrain(w) : t \in ActionDisableExternalRelays(s.w)
  BY <1>1 DEF Anyway
<1>3. /\ Toggled(w, s)
      /\ s.w.faults = 0 /\ w.pins["onPCB"] => ~s.w.pins["hindbrain"]
  BY <1>2, SwitchOffFact
<1>4. Follows(w, s) /\ s.w \in World
  BY <1>3, ToggledFollows
<1>5. /\ Follows(s.w, t) /\ t.w \in World
      /\ t.w.faults = 0 => t.ok
      /\ t.ok => t.w.pins["external"] = FALSE
      /\ \A x \in Pins \ {"external"} : t.w.pins[x] = s.w.pins[x]
  BY <1>2, <1>4, RelayFollows DEF ActionDisableExternalRelays
<1>6. /\ Follows(t.w, r) /\ r.w \in World
      /\ r.w.faults = 0 => r.ok
      /\ r.ok => r.w.pins["onPCB"] = FALSE
      /\ \A x \in Pins \ {"onPCB"} : r.w.pins[x] = t.w.pins[x]
  BY <1>1, <1>5, RelayFollows DEF ActionDisableOnPCBRelays
<1> QED BY <1>3, <1>4, <1>5, <1>6 DEF Follows, Pins, Relay

\* BatteryIdle and Docked switch the Hindbrain off.
LEMMA OffFact ==
  ASSUME NEW w \in World, NEW r \in ActionSwitchOffHindbrain(w)
  PROVE  /\ Follows(w, r)
         /\ \A x \in Relay : r.w.pins[x] = w.pins[x]
         /\ r.w.faults = 0 /\ w.pins["onPCB"] => ~r.w.pins["hindbrain"]
BY SwitchOffFact, ToggledFollows

(***************************************************************************)
(* Part 3: the inductive invariant.                                        *)
(***************************************************************************)
\* When there is a context, when an entry can have failed, and that "start"
\* comes once, before everything else.
Phase ==
  /\ pc = "exited" => state = "none"
  /\ pc = "failed" => state \in {"Init", "Mobile"} /\ world.faults > 0
  /\ state = "none" /\ pc # "exited" => backlog = <<"start">>
  /\ state # "none" => "start" \notin ToSet(backlog)

\* The Hindbrain can be toggled in every state there is a way out of.
CanToggle == world.faults = 0 /\ state \notin {"none", "Shutdown"} => On("onPCB")

IInv == TypeOK /\ Phase /\ NeverUnpowered /\ ChargingIffDocked
          /\ FailureReported /\ PowerMatchesState /\ CanToggle

\* Which states follow which.
Leads(s, t) ==
  /\ t \in State /\ s \notin {"none", "Shutdown"}
  /\ t \in {"Docked_Charging", "Docked_MainsIdle"} => s \in Docked
  /\ t = "BatteryIdle" => s \in {"Init", "Mobile"}
  /\ t = "Init" => s = "Mobile"

LEMMA HooksLead ==
  ASSUME NEW s \in State, NEW e \in Event, HookFor(e) \in DOMAIN Hooks[s]
  PROVE  /\ s # "Shutdown"
         /\ Hooks[s][HookFor(e)] \in State => Leads(s, Hooks[s][HookFor(e)])
         /\ Hooks[s][HookFor(e)] = "forward" => s = "Mobile"
<1>1. CASE s = "Init"
  BY <1>1 DEF Hooks, InitHooks, HookFor, Event, State, Leads, Docked
<1>2. CASE s = "Mobile"
  BY <1>2 DEF Hooks, MobileHooks, HookFor, Event, State, Leads, Docked
<1>3. CASE s = "BatteryIdle"
  BY <1>3 DEF Hooks, BatteryIdleHooks, HookFor, Event, State, Leads, Docked
<1>4. CASE s = "Docked"
  BY <1>4 DEF Hooks, DockedHooks, HookFor, Event, State, Leads, Docked
<1>5. CASE s = "Docked_Charging"
  BY <1>5 DEF Hooks, Docked_ChargingHooks, HookFor, Event, State, Leads, Docked
<1>6. CASE s = "Docked_MainsIdle"
  BY <1>6 DEF Hooks, Docked_MainsIdleHooks, HookFor, Event, State, Leads, Docked
<1>7. CASE s = "Shutdown"
  BY <1>7 DEF Hooks
<1> QED BY <1>1, <1>2, <1>3, <1>4, <1>5, <1>6, <1>7 DEF State

\* Where a transition ends.
LEMMA TransitionFact ==
  ASSUME IInv, pc = "accept", NEW s, TransitionTo(s),
         Leads(state, s) \/ (state = "none" /\ s = "Init")
  PROVE  /\ state' = s /\ world' \in World
         /\ \/ pc' = "accept"
            \/ pc' = "failed" /\ s \in {"Init", "Mobile"} /\ world'.faults > 0
         /\ permitted' \in BOOLEAN /\ forward' \in BOOLEAN
         /\ NeverUnpowered' /\ ChargingIffDocked' /\ PowerMatchesState' /\ CanToggle'
         /\ s = "Mobile" /\ ~Ready' => pc' = "failed"
         /\ forward' => s = "Mobile" /\ Ready'
<1>1. /\ world \in World /\ Supplied(world) /\ permitted \in BOOLEAN
      /\ state \in State \cup {"none"}
      /\ permitted <=> state \in Docked
      /\ world.faults = 0 /\ state # "none" => world.pins["onPCB"]
  BY DEF IInv, TypeOK, NeverUnpowered, Supplied, On, ChargingIffDocked, CanToggle, Leads
<1>2. CASE s = "Init"
  <2>1. PICK r \in InitEntry(world) :
          /\ state' = "Init" /\ world' = r.w /\ forward' = FALSE /\ permitted' = permitted
          /\ pc' = IF r.ok THEN "accept" ELSE "failed"
    BY <1>2 DEF TransitionTo, TransitionToInit
  <2>2. /\ Follows(world, r)
        /\ r.w.faults = 0 => /\ r.ok /\ SuppliesFromBattery(r.w)
                             /\ r.w.pins["hindbrain"] /\ r.w.pins["onPCB"]
    BY <1>1, <2>1, InitEntryFact
  <2>3. r.w \in World /\ Supplied(r.w) /\ r.w.faults \in Nat /\ permitted' = FALSE
    BY <1>1, <1>2, <2>1, <2>2 DEF Follows, Result, World, Leads, Docked
  <2>4. ~r.ok => r.w.faults > 0
    BY <2>2, <2>3
  <2>5. PowerMatchesState' /\ CanToggle'
    BY <2>1, <2>2 DEF PowerMatchesState, CanToggle, Docked, Ready, OnBatteries, On,
                      SuppliesFromBattery
  <2>6. pc' = "accept" \/ (pc' = "failed" /\ world'.faults > 0)
    BY <2>1, <2>4
  <2> QED BY <1>2, <2>1, <2>3, <2>5, <2>6
    DEF NeverUnpowered, Supplied, On, ChargingIffDocked, Docked
<1>3. CASE s = "Mobile"
  <2>1. PICK r \in MobileEntry(world) :
          /\ state' = "Mobile" /\ world' = r.w /\ forward' = r.ok /\ permitted' = FALSE
          /\ pc' = IF r.ok THEN "accept" ELSE "failed"
    BY <1>3 DEF TransitionTo, TransitionToMobile
  <2>2. /\ Follows(world, r)
        /\ r.ok => SuppliesFromBattery(r.w) /\ r.w.pins["hindbrain"]
        /\ r.w.faults = 0 /\ world.pins["onPCB"] => r.ok
        /\ r.w.pins["onPCB"] = world.pins["onPCB"]
    BY <1>1, <2>1, MobileEntryFact
  <2>3. /\ r.w \in World /\ Supplied(r.w) /\ r.w.faults \in Nat /\ r.ok \in BOOLEAN
        /\ r.w.faults = 0 => r.ok /\ r.w.pins["onPCB"]
    BY <1>1, <1>3, <2>1, <2>2 DEF Follows, Result, World, Leads
  <2>4. r.ok => Ready'
    BY <2>1, <2>2 DEF Ready, OnBatteries, On, SuppliesFromBattery
  <2>5. PowerMatchesState'
    BY <2>1, <2>3, <2>4 DEF PowerMatchesState, Docked
  <2>6. r.ok \/ r.w.faults > 0
    BY <2>3
  <2>7. pc' = "accept" \/ (pc' = "failed" /\ world'.faults > 0)
    BY <2>1, <2>6
  <2>8. (~Ready' => pc' = "failed") /\ (forward' => Ready')
    BY <2>1, <2>4
  <2> QED BY <1>3, <2>1, <2>3, <2>5, <2>7, <2>8
    DEF NeverUnpowered, Supplied, On, ChargingIffDocked, Docked, CanToggle
<1>4. CASE s = "BatteryIdle"
  <2>1. PICK r \in ActionSwitchOffHindbrain(world) :
          /\ state' = "BatteryIdle" /\ world' = r.w /\ forward' = FALSE
          /\ pc' = pc /\ permitted' = permitted
    BY <1>4 DEF TransitionTo, TransitionToBatteryIdle
  <2>2. /\ Follows(world, r)
        /\ \A x \in Relay : r.w.pins[x] = world.pins[x]
        /\ r.w.faults = 0 /\ world.pins["onPCB"] => ~r.w.pins["hindbrain"]
    BY <1>1, <2>1, OffFact
  <2>3. state \in {"Init", "Mobile"} /\ permitted' = FALSE
    BY <1>1, <1>4, <2>1 DEF Leads, Docked
  <2>4. r.w \in World /\ Supplied(r.w)
    BY <1>1, <2>2 DEF Follows, Result
  <2>5. world.faults = 0 => OnBatteries
    BY <2>3 DEF IInv, PowerMatchesState, Ready
  <2>6. r.w.faults = 0 => world.faults = 0 /\ world.pins["onPCB"]
    BY <1>1, <2>2, <2>3 DEF Follows
  <2>7. r.w.faults = 0 => OnBatteries' /\ r.w.pins["onPCB"]
    BY <2>1, <2>2, <2>5, <2>6 DEF OnBatteries, On, Relay
  <2> QED BY <1>4, <2>1, <2>2, <2>3, <2>4, <2>6, <2>7
    DEF NeverUnpowered, Supplied, On, ChargingIffDocked, Docked, PowerMatchesState, CanToggle
<1>5. CASE s = "Docked"
  <2>1. PICK r \in DockedEntry(world) :
          /\ state' = "Docked" /\ world' = r.w /\ forward' = FALSE
          /\ pc' = pc /\ permitted' = TRUE
    BY <1>5 DEF TransitionTo, TransitionToDocked
  <2>2. /\ Follows(world, r)
        /\ r.w.faults = 0 /\ world.pins["onPCB"] =>
             /\ r.w.pins["external"] /\ SuppliesFromMains(r.w)
             /\ ~r.w.pins["hindbrain"] /\ r.w.pins["onPCB"]
    BY <1>1, <2>1, DockedEntryFact
  <2>3. /\ r.w \in World /\ Supplied(r.w)
        /\ r.w.faults = 0 => world.pins["onPCB"]
    BY <1>1, <1>5, <2>2 DEF Follows, Result, Leads
  <2> QED BY <1>5, <2>1, <2>2, <2>3
    DEF NeverUnpowered, Supplied, On, ChargingIffDocked, Docked, PowerMatchesState,
        CanToggle, SuppliesFromMains
<1>6. CASE s \in {"Docked_Charging", "Docked_MainsIdle"}
  <2>1. /\ state' = s /\ forward' = FALSE
        /\ pc' = pc /\ permitted' = permitted /\ world' = world
    BY <1>6 DEF TransitionTo, TransitionToSubstate
  <2>2. state \in Docked
    BY <1>6 DEF Leads
  <2> QED BY <1>1, <1>6, <2>1, <2>2
    DEF IInv, NeverUnpowered, Supplied, On, ChargingIffDocked, Docked, PowerMatchesState,
        CanToggle, OnBatteries
<1>7. CASE s = "Shutdown"
  <2>1. PICK r \in ShutdownEntry(world) :
          /\ state' = "Shutdown" /\ world' = r.w /\ forward' = FALSE
          /\ pc' = pc /\ permitted' = FALSE
    BY <1>7 DEF TransitionTo, TransitionToShutdown
  <2>2. /\ Follows(world, r)
        /\ r.w.faults = 0 /\ world.pins["onPCB"] =>
             ~r.w.pins["hindbrain"] /\ ~r.w.pins["external"] /\ ~r.w.pins["onPCB"]
    BY <1>1, <2>1, ShutdownEntryFact
  <2>3. /\ r.w \in World /\ Supplied(r.w)
        /\ r.w.faults = 0 => world.pins["onPCB"]
    BY <1>1, <1>7, <2>2 DEF Follows, Result, Leads
  <2> QED BY <1>7, <2>1, <2>2, <2>3
    DEF NeverUnpowered, Supplied, On, ChargingIffDocked, Docked, PowerMatchesState, CanToggle
<1> QED BY <1>2, <1>3, <1>4, <1>5, <1>6, <1>7 DEF TransitionTo

LEMMA TailFact ==
  ASSUME NEW q \in Seq(Message), q # <<>>
  PROVE  /\ Tail(q) \in Seq(Message) /\ Len(Tail(q)) = Len(q) - 1
         /\ Head(q) \in ToSet(q)
         /\ ToSet(Tail(q)) \subseteq ToSet(q)
         /\ ToSet(q) \subseteq {Head(q)} \cup ToSet(Tail(q))
<1>1. /\ Tail(q) \in Seq(Message) /\ Len(Tail(q)) = Len(q) - 1 /\ Len(q) \in Nat \ {0}
      /\ Head(q) = q[1] /\ \A i \in 1..Len(q)-1 : Tail(q)[i] = q[i + 1]
      /\ DOMAIN q = 1..Len(q) /\ 1 \in DOMAIN q /\ DOMAIN Tail(q) = 1..Len(q)-1
  OBVIOUS
<1>2. ASSUME NEW m \in ToSet(q) PROVE m = Head(q) \/ m \in ToSet(Tail(q))
  <2>1. PICK i \in 1..Len(q) : q[i] = m BY <1>2 DEF ToSet
  <2>2. CASE i = 1 BY <1>1, <2>1, <2>2
  <2>3. CASE i # 1
    <3>1. i - 1 \in DOMAIN Tail(q) /\ Tail(q)[i - 1] = m BY <1>1, <2>1, <2>3
    <3> QED BY <3>1 DEF ToSet
  <2> QED BY <2>2, <2>3
<1>3. ASSUME NEW m \in ToSet(Tail(q)) PROVE m \in ToSet(q)
  <2>1. PICK i \in 1..Len(q)-1 : Tail(q)[i] = m BY <1>1, <1>3 DEF ToSet
  <2>2. i + 1 \in 1..Len(q) /\ q[i + 1] = m BY <1>1, <2>1
  <2> QED BY <2>2 DEF ToSet
<1>4. Head(q) \in ToSet(q) BY <1>1 DEF ToSet
<1> QED BY <1>1, <1>2, <1>3, <1>4

LEMMA AppendFact ==
  ASSUME NEW q \in Seq(Message), NEW m \in Message
  PROVE  /\ Append(q, m) \in Seq(Message) /\ Len(Append(q, m)) = Len(q) + 1
         /\ ToSet(Append(q, m)) = ToSet(q) \cup {m}
<1>1. /\ Append(q, m) \in Seq(Message) /\ Len(Append(q, m)) = Len(q) + 1 /\ Len(q) \in Nat
      /\ \A i \in 1..Len(q) : Append(q, m)[i] = q[i]
      /\ Append(q, m)[Len(q) + 1] = m
  OBVIOUS
<1>2. ASSUME NEW x \in ToSet(Append(q, m)) PROVE x \in ToSet(q) \cup {m}
  <2>1. PICK i \in 1..Len(q)+1 : Append(q, m)[i] = x BY <1>1, <1>2 DEF ToSet
  <2>2. CASE i \in 1..Len(q) BY <1>1, <2>1, <2>2 DEF ToSet
  <2>3. CASE i = Len(q) + 1 BY <1>1, <2>1, <2>3
  <2> QED BY <1>1, <2>2, <2>3
<1>3. ASSUME NEW x \in ToSet(q) \cup {m} PROVE x \in ToSet(Append(q, m))
  <2>1. CASE x = m
    <3>1. Len(q) + 1 \in 1..Len(q)+1 BY <1>1
    <3> QED BY <1>1, <2>1, <3>1 DEF ToSet
  <2>2. CASE x \in ToSet(q)
    <3>1. PICK i \in 1..Len(q) : q[i] = x BY <2>2 DEF ToSet
    <3>2. i \in 1..Len(q)+1 /\ Append(q, m)[i] = x BY <1>1, <3>1
    <3> QED BY <1>1, <3>2 DEF ToSet
  <2> QED BY <1>3, <2>1, <2>2
<1> QED BY <1>1, <1>2, <1>3

LEMMA InitInv == Init => IInv
<1> SUFFICES ASSUME Init PROVE IInv
  OBVIOUS
<1>1. PICK pins \in [Pins -> BOOLEAN] :
        /\ \A x \in Relay : pins[x] <=> x \in {"rioBatt", "oBatt"}
        /\ world = [pins |-> pins, faults |-> 0]
  BY DEF Init
<1>2. world \in World
  BY <1>1, StateMachineAssumption DEF World
<1>3. "rioBatt" \in Relay /\ "oBatt" \in Relay BY DEF Relay
<1>4. NeverUnpowered BY <1>1, <1>3 DEF NeverUnpowered, On
<1>5. "start" \in Message BY DEF Message
<1>6. <<"start">> \in Seq(Message) /\ Len(<<"start">>) = 1 BY <1>5
<1>7. TypeOK
  <2>1. backlog \in Seq(Message) /\ Len(backlog) <= Backlog
    BY <1>6, StateMachineAssumption DEF Init
  <2> QED BY <1>2, <2>1 DEF Init, TypeOK
<1> QED BY <1>4, <1>7
  DEF Init, IInv, Phase, ChargingIffDocked, FailureReported, PowerMatchesState, CanToggle,
      Docked

\* What is left of the invariant once the message loop has taken a message
\* and a transition, or nothing but the backlog, has changed the rest.
LEMMA ReceiveFact ==
  ASSUME IInv, NEW m \in Message, Receive(m)
  PROVE  /\ pc = "accept" /\ backlog' \in Seq(Message) /\ Len(backlog') <= Backlog
         /\ state = "none" <=> m = "start"
         /\ "start" \notin ToSet(backlog')
         /\ "initFailure" \in ToSet(backlog) => m = "initFailure" \/ "initFailure" \in ToSet(backlog')
<1>1. /\ backlog \in Seq(Message) /\ backlog # <<>> /\ Len(backlog) <= Backlog
      /\ backlog' = Tail(backlog) /\ Head(backlog) = m /\ pc = "accept"
  BY DEF IInv, TypeOK, Receive
<1>2. /\ backlog' \in Seq(Message) /\ Len(backlog') <= Backlog
      /\ m \in ToSet(backlog) /\ ToSet(backlog') \subseteq ToSet(backlog)
      /\ ToSet(backlog) \subseteq {m} \cup ToSet(backlog')
  <2>1. Len(backlog) \in Nat /\ Backlog \in Nat BY <1>1, StateMachineAssumption
  <2> QED BY <1>1, <2>1, TailFact
<1>3. state = "none" <=> m = "start"
  <2>1. state = "none" => backlog = <<"start">> BY <1>1 DEF IInv, Phase
  <2>2. Head(<<"start">>) = "start" OBVIOUS
  <2> QED BY <1>1, <1>2, <2>1, <2>2 DEF IInv, Phase
<1>4. "start" \notin ToSet(backlog')
  <2>1. CASE state = "none"
    <3>1. backlog' = Tail(<<"start">>) BY <1>1, <2>1 DEF IInv, Phase
    <3>2. Len(backlog') = 0 BY <3>1
    <3> QED BY <3>2, <1>2 DEF ToSet
  <2>2. CASE state # "none" BY <1>2, <2>2 DEF IInv, Phase
  <2> QED BY <2>1, <2>2
<1> QED BY <1>1, <1>2, <1>3, <1>4

\* A transition that follows the receipt of a message.
LEMMA TransitionInv ==
  ASSUME IInv, NEW m \in Message, Receive(m), NEW s, TransitionTo(s), lost' = FALSE,
         Leads(state, s) \/ (state = "none" /\ s = "Init")
  PROVE  IInv' /\ (forward' => state' = "Mobile" /\ Ready')
<1>1. /\ pc = "accept" /\ backlog' \in Seq(Message) /\ Len(backlog') <= Backlog
      /\ "start" \notin ToSet(backlog')
  BY ReceiveFact
<1>2. /\ state' = s /\ world' \in World
      /\ \/ pc' = "accept"
         \/ pc' = "failed" /\ s \in {"Init", "Mobile"} /\ world'.faults > 0
      /\ permitted' \in BOOLEAN /\ forward' \in BOOLEAN
      /\ NeverUnpowered' /\ ChargingIffDocked' /\ PowerMatchesState' /\ CanToggle'
      /\ s = "Mobile" /\ ~Ready' => pc' = "failed"
      /\ forward' => s = "Mobile" /\ Ready'
  BY <1>1, TransitionFact
<1>3. s \in State BY DEF Leads, State
<1>4. state' # "none" BY <1>2, <1>3 DEF State
<1>5. TypeOK' BY <1>1, <1>2, <1>3 DEF TypeOK
<1>6. Phase' BY <1>1, <1>2, <1>4 DEF Phase
<1>7. FailureReported' BY <1>2 DEF FailureReported
<1> QED BY <1>2, <1>5, <1>6, <1>7 DEF IInv

\* A step that leaves alone the state and all that belongs to it.
LEMMA SameState ==
  ASSUME IInv, UNCHANGED <<state, world, permitted>>, backlog' \in Seq(Message),
         Len(backlog') <= Backlog, forward' \in BOOLEAN, lost' \in BOOLEAN,
         pc' \in {"accept", "failed", "exited"}, pc' # "exited", pc # "exited",
         state # "none", "start" \notin ToSet(backlog'),
         pc' = "failed" => pc = "failed",
         state = "Mobile" /\ (pc = "failed" \/ "initFailure" \in ToSet(backlog) \/ lost)
           => pc' = "failed" \/ "initFailure" \in ToSet(backlog') \/ lost'
  PROVE  IInv'
<1>1. TypeOK' BY DEF IInv, TypeOK
<1>2. Phase' BY DEF IInv, Phase
<1>3. Ready' = Ready BY DEF Ready, OnBatteries, On
<1>4. FailureReported' BY <1>3 DEF IInv, FailureReported
<1>5. NeverUnpowered' /\ ChargingIffDocked' /\ PowerMatchesState' /\ CanToggle'
  BY <1>3 DEF IInv, NeverUnpowered, On, ChargingIffDocked, PowerMatchesState, CanToggle,
              OnBatteries
<1> QED BY <1>1, <1>2, <1>4, <1>5 DEF IInv

LEMMA StepInv ==
  ASSUME IInv, [Next]_vars
  PROVE  IInv' /\ [forward' => state' = "Mobile" /\ (world'.faults = 0 => Ready')]_vars
<1>1. ASSUME NEW e \in Event, Receive(e)
      PROVE  /\ e \in Message /\ pc = "accept" /\ state # "none" /\ state \in State
             /\ backlog' \in Seq(Message) /\ Len(backlog') <= Backlog
             /\ "start" \notin ToSet(backlog')
             /\ lost \in BOOLEAN
  <2>1. e \in Message /\ e # "start" BY DEF Event, Message
  <2> QED BY <1>1, <2>1, ReceiveFact DEF IInv, TypeOK
<1>2. CASE ActionStateMachineServerStart
  <2>1. "start" \in Message /\ Receive("start") /\ lost' = FALSE
    BY <1>2 DEF ActionStateMachineServerStart, Message
  <2>2. state = "none" BY <2>1, ReceiveFact
  <2>3. TransitionTo("Init") BY <1>2 DEF ActionStateMachineServerStart, TransitionTo
  <2> QED BY <2>1, <2>2, <2>3, TransitionInv
<1>3. CASE ActionStateMachineServerStop
  <2>1. "stop" \in Message /\ Receive("stop") /\ "stop" # "start"
    BY <1>3 DEF ActionStateMachineServerStop, Message
  <2>2. /\ backlog' \in Seq(Message) /\ Len(backlog') <= Backlog
    BY <2>1, ReceiveFact
  <2>3. /\ pc' = "exited" /\ state' = "none" /\ forward' = FALSE
        /\ UNCHANGED <<world, permitted, lost>>
    BY <1>3 DEF ActionStateMachineServerStop
  <2>4. TypeOK' BY <2>2, <2>3 DEF IInv, TypeOK
  <2> QED BY <2>3, <2>4
    DEF IInv, Phase, NeverUnpowered, On, ChargingIffDocked, FailureReported,
        PowerMatchesState, CanToggle, Docked
<1>4. CASE ActionStateMachineServerGetContext
  <2>1. /\ "getContext" \in Message /\ Receive("getContext")
        /\ "getContext" \notin {"start", "initFailure"}
        /\ forward' = FALSE /\ UNCHANGED <<pc, state, world, permitted, lost>>
    BY <1>4 DEF ActionStateMachineServerGetContext, Message
  <2>2. /\ backlog' \in Seq(Message) /\ Len(backlog') <= Backlog
        /\ pc = "accept" /\ state # "none" /\ "start" \notin ToSet(backlog')
        /\ "initFailure" \in ToSet(backlog) => "initFailure" \in ToSet(backlog')
    BY <2>1, ReceiveFact
  <2>3. lost' \in BOOLEAN BY <2>1 DEF IInv, TypeOK
  <2> QED BY <2>1, <2>2, <2>3, SameState
<1>5. ASSUME NEW e \in Event, HandleTransition(e)
      PROVE  IInv' /\ (forward' => state' = "Mobile" /\ Ready')
  <2> DEFINE s == Hooks[state][HookFor(e)]
  <2>1. /\ Receive(e) /\ HookFor(e) \in DOMAIN Hooks[state]
        /\ TransitionTo(s) /\ lost' = FALSE
    BY <1>5 DEF HandleTransition
  <2>2. s \in State BY <2>1 DEF TransitionTo, State
  <2>3. Leads(state, s) BY <1>1, <2>1, <2>2, HooksLead
  <2> HIDE DEF s
  <2> QED BY <1>1, <2>1, <2>3, TransitionInv
<1>6. ASSUME NEW e \in Event, HandleTask(e)
      PROVE  IInv' /\ (forward' => state' = "Mobile" /\ (world'.faults = 0 => Ready'))
  <2>1. /\ Receive(e) /\ HookFor(e) \in DOMAIN Hooks[state]
        /\ Hooks[state][HookFor(e)] = "forward"
        /\ forward' = TRUE /\ UNCHANGED <<pc, state, world, permitted, lost>>
    BY <1>6 DEF HandleTask
  <2>2. state = "Mobile" BY <1>1, <2>1, HooksLead
  <2>3. e # "initFailure"
    BY <2>1, <2>2 DEF Hooks, MobileHooks, HookFor
  <2>4. "initFailure" \in ToSet(backlog) => "initFailure" \in ToSet(backlog')
    BY <1>1, <2>1, <2>3, ReceiveFact
  <2>5. IInv' BY <1>1, <2>1, <2>4, SameState
  <2> QED BY <2>1, <2>2, <2>5 DEF IInv, PowerMatchesState
<1>7. ASSUME NEW e \in Event, IgnoreEvent(e)
      PROVE  IInv' /\ forward' = FALSE
  <2>1. /\ Receive(e) /\ HookFor(e) \notin DOMAIN Hooks[state]
        /\ forward' = FALSE /\ UNCHANGED <<pc, state, world, permitted, lost>>
    BY <1>7 DEF IgnoreEvent
  <2>2. state = "Mobile" => e # "initFailure"
    BY <2>1 DEF Hooks, MobileHooks, HookFor
  <2>3. state = "Mobile" /\ "initFailure" \in ToSet(backlog) => "initFailure" \in ToSet(backlog')
    BY <1>1, <2>1, <2>2, ReceiveFact
  <2> QED BY <1>1, <2>1, <2>3, SameState
<1>8. CASE SendInitFailure
  <2>1. /\ pc = "failed" /\ pc' = "accept" /\ forward' = FALSE
        /\ UNCHANGED <<state, world, permitted>>
        /\ \/ /\ Len(backlog) < Backlog
              /\ backlog' = Append(backlog, "initFailure") /\ UNCHANGED lost
           \/ lost' = TRUE /\ UNCHANGED backlog
    BY <1>8 DEF SendInitFailure
  <2>2. /\ backlog \in Seq(Message) /\ Len(backlog) <= Backlog /\ lost \in BOOLEAN
        /\ state # "none" /\ "start" \notin ToSet(backlog) /\ Backlog \in Nat
    BY <2>1, StateMachineAssumption DEF IInv, TypeOK, Phase
  <2>3. "initFailure" \in Message BY DEF Message, Event
  <2>4. /\ backlog' \in Seq(Message) /\ Len(backlog') <= Backlog /\ lost' \in BOOLEAN
        /\ "start" \notin ToSet(backlog')
        /\ "initFailure" \in ToSet(backlog') \/ lost'
    <3>1. CASE Len(backlog) < Backlog /\ backlog' = Append(backlog, "initFailure") /\ lost' = lost
      <4>1. /\ backlog' \in Seq(Message) /\ Len(backlog') <= Backlog
            /\ ToSet(backlog') = ToSet(backlog) \cup {"initFailure"}
        BY <2>2, <2>3, <3>1, AppendFact
      <4> QED BY <2>2, <3>1, <4>1
    <3>2. CASE lost' = TRUE /\ backlog' = backlog
      BY <2>2, <3>2
    <3> QED BY <2>1, <3>1, <3>2
  <2> QED BY <2>1, <2>2, <2>4, SameState
<1>9. ASSUME NEW m \in Message \ {"start"}, Send(m)
      PROVE  IInv' /\ forward' = FALSE
  <2>1. /\ state # "none" /\ Len(backlog) < Backlog
        /\ backlog' = Append(backlog, m) /\ forward' = FALSE
        /\ UNCHANGED <<pc, state, world, permitted, lost>>
    BY <1>9 DEF Send
  <2>2. /\ backlog \in Seq(Message) /\ "start" \notin ToSet(backlog) /\ Backlog \in Nat
        /\ lost \in BOOLEAN /\ pc # "exited" /\ pc \in {"accept", "failed", "exited"}
    BY <2>1, StateMachineAssumption DEF IInv, TypeOK, Phase
  <2>3. /\ backlog' \in Seq(Message) /\ Len(backlog') <= Backlog
        /\ ToSet(backlog') = ToSet(backlog) \cup {m}
    BY <2>1, <2>2, AppendFact
  <2> QED BY <2>1, <2>2, <2>3, SameState
<1>10. CASE Clients
  <2>1. PICK m \in FromRoboOne \cup FromBatteryManager : Send(m)
    BY <1>10 DEF Clients
  <2>2. m \in Message \ {"start"}
    BY DEF FromRoboOne, FromBatteryManager, Message, Event
  <2> QED BY <1>9, <2>1, <2>2
<1>11. CASE UNCHANGED vars
  <2>1. Ready' = Ready BY <1>11 DEF vars, Ready, OnBatteries, On
  <2> QED BY <1>11, <2>1
    DEF vars, IInv, TypeOK, Phase, NeverUnpowered, On, ChargingIffDocked, FailureReported,
        PowerMatchesState, CanToggle, OnBatteries
<1> QED BY <1>2, <1>3, <1>4, <1>5, <1>6, <1>7, <1>8, <1>10, <1>11 DEF Next, ServerStep

LEMMA Invariant == Spec => []IInv
<1>1. IInv /\ [Next]_vars => IInv' BY StepInv
<1> QED BY InitInv, <1>1, PTL DEF Spec

\* The values of all the variables are what the module says.
THEOREM TypeCorrect == Spec => []TypeOK
<1>1. IInv => TypeOK BY DEF IInv
<1> QED BY Invariant, <1>1, PTL

\* Whatever message to the hardware server fails, and wherever in a
\* transition (actions.c), the Pi and the Hindbrain have a supply selected.
THEOREM SuppliesKept == Spec => []NeverUnpowered
<1>1. IInv => NeverUnpowered BY DEF IInv
<1> QED BY Invariant, <1>1, PTL

\* Charging is permitted in exactly the docked states (the entries in
\* docked_state.c, mobile_state.c and shutdown_state.c).
THEOREM ChargingOnlyDocked == Spec => []ChargingIffDocked
<1>1. IInv => ChargingIffDocked BY DEF IInv
<1> QED BY Invariant, <1>1, PTL

\* A Mobile robot that is not ready is about to hear so (mobile_state.c).
THEOREM FailuresReported == Spec => []FailureReported
<1>1. IInv => FailureReported BY DEF IInv
<1> QED BY Invariant, <1>1, PTL

\* Without a failure of the hardware the relays and the Hindbrain are as the
\* state wants them, however often the Hindbrain is toggled (actions.c).
THEOREM PowerFollowsState == Spec => []PowerMatchesState
<1>1. IInv => PowerMatchesState BY DEF IInv
<1> QED BY Invariant, <1>1, PTL

\* Tasks go to the task handler from Mobile alone, to a Hindbrain that is on.
THEOREM TasksSound == Spec => TasksReachHindbrain
<1>1. IInv /\ [Next]_vars =>
        [forward' => /\ state' = "Mobile"
                     /\ world'.faults = 0 => Ready']_vars
  BY StepInv
<1> QED BY Invariant, <1>1, PTL DEF Spec, TasksReachHindbrain

(***************************************************************************)
(* Part 4: the shutdown event.                                             *)
(***************************************************************************)
\* Every state there is a way out of hooks in the shutdown event.
LEMMA ShutdownHooked ==
  ASSUME NEW s \in State, s # "Shutdown"
  PROVE  /\ HookFor("shutdown") \in DOMAIN Hooks[s]
         /\ Hooks[s][HookFor("shutdown")] = "Shutdown"
<1>1. CASE s = "Init"             BY <1>1 DEF Hooks, InitHooks, HookFor
<1>2. CASE s = "Mobile"           BY <1>2 DEF Hooks, MobileHooks, HookFor
<1>3. CASE s = "BatteryIdle"      BY <1>3 DEF Hooks, BatteryIdleHooks, HookFor
<1>4. CASE s = "Docked"           BY <1>4 DEF Hooks, DockedHooks, HookFor
<1>5. CASE s = "Docked_Charging"  BY <1>5 DEF Hooks, Docked_ChargingHooks, HookFor
<1>6. CASE s = "Docked_MainsIdle" BY <1>6 DEF Hooks, Docked_MainsIdleHooks, HookFor
<1> QED BY <1>1, <1>2, <1>3, <1>4, <1>5, <1>6 DEF State

\* A message other than m leaves m waiting.
LEMMA StillWaiting ==
  ASSUME IInv, NEW e \in Message, Receive(e), NEW m \in ToSet(backlog), m # e
  PROVE  m \in ToSet(backlog')
<1>1. /\ backlog \in Seq(Message) /\ backlog # <<>>
      /\ Head(backlog) = e /\ backlog' = Tail(backlog)
  BY DEF IInv, TypeOK, Receive
<1>2. ToSet(backlog) \subseteq {Head(backlog)} \cup ToSet(Tail(backlog))
  BY <1>1, TailFact
<1> QED BY <1>1, <1>2

\* Shutdown is for good: no event, entry or failure that is still to come
\* leads out of it.  And a shutdown event in the backlog is not lost: it stays
\* there behind whatever comes first, and taking it leads to Shutdown from
\* every state (the handlers of the states, state_machine_events.c).  What
\* ShutdownHeeded asks of the loop besides is that it runs.
ShutdownNotLost ==
  [][/\ state = "Shutdown" => state' = "Shutdown" \/ pc' = "exited"
     /\ "shutdown" \in ToSet(backlog) =>
          "shutdown" \in ToSet(backlog') \/ state' = "Shutdown" \/ pc' = "exited"]_vars

LEMMA ShutdownStep ==
  ASSUME IInv, [Next]_vars
  PROVE  /\ state = "Shutdown" => state' = "Shutdown" \/ pc' = "exited"
         /\ "shutdown" \in ToSet(backlog) =>
              "shutdown" \in ToSet(backlog') \/ state' = "Shutdown" \/ pc' = "exited"
<1>0. "shutdown" \in Event /\ "shutdown" \in Message /\ Event \subseteq Message
      /\ "start" \notin Event
  BY DEF Event, Message
<1>1. ASSUME NEW e \in Event, Receive(e)
      PROVE  state \in State
  BY <1>0, <1>1, ReceiveFact DEF IInv, TypeOK
<1>2. CASE ActionStateMachineServerStart
  <2>1. Receive("start") /\ "start" \in Message
    BY <1>2 DEF ActionStateMachineServerStart, Message
  <2>2. state = "none" /\ pc # "exited"
    BY <2>1, ReceiveFact
  <2>3. backlog = <<"start">>
    BY <2>2 DEF IInv, Phase
  <2>4. "shutdown" \notin ToSet(backlog)
    BY <2>3 DEF ToSet
  <2> QED BY <2>2, <2>4
<1>3. CASE ActionStateMachineServerStop
  BY <1>3 DEF ActionStateMachineServerStop
<1>4. CASE ActionStateMachineServerGetContext
  <2>1. Receive("getContext") /\ "getContext" \in Message /\ state' = state
    BY <1>4 DEF ActionStateMachineServerGetContext, Message
  <2> QED BY <2>1, StillWaiting
<1>5. ASSUME NEW e \in Event, HandleTransition(e)
      PROVE  /\ state = "Shutdown" => state' = "Shutdown" \/ pc' = "exited"
             /\ "shutdown" \in ToSet(backlog) =>
                  "shutdown" \in ToSet(backlog') \/ state' = "Shutdown"
  <2>1. /\ Receive(e) /\ HookFor(e) \in DOMAIN Hooks[state]
        /\ TransitionTo(Hooks[state][HookFor(e)])
    BY <1>5 DEF HandleTransition
  <2>2. state \in State
    BY <1>1, <2>1
  <2>3. state # "Shutdown"
    BY <2>1, <2>2, HooksLead
  <2>4. CASE e = "shutdown"
    <3>1. TransitionTo("Shutdown")
      BY <2>1, <2>2, <2>3, <2>4, ShutdownHooked
    <3>2. state' = "Shutdown"
      BY <3>1 DEF TransitionTo, TransitionToShutdown
    <3> QED BY <2>3, <3>2
  <2>5. CASE e # "shutdown"
    BY <1>0, <2>1, <2>3, <2>5, StillWaiting
  <2> QED BY <2>4, <2>5
<1>6. ASSUME NEW e \in Event, HandleTask(e) \/ IgnoreEvent(e)
      PROVE  /\ state' = state
             /\ "shutdown" \in ToSet(backlog) =>
                  "shutdown" \in ToSet(backlog') \/ state' = "Shutdown"
  <2>1. Receive(e) /\ state' = state
    BY <1>6 DEF HandleTask, IgnoreEvent
  <2>2. state \in State
    BY <1>1, <2>1
  <2>3. CASE e # "shutdown"
    BY <1>0, <2>1, <2>3, StillWaiting
  <2>4. CASE e = "shutdown" /\ state # "Shutdown"
    <3>1. /\ HookFor("shutdown") \in DOMAIN Hooks[state]
          /\ Hooks[state][HookFor("shutdown")] = "Shutdown"
      BY <2>2, <2>4, ShutdownHooked
    <3>2. FALSE
      BY <1>6, <2>4, <3>1 DEF HandleTask, IgnoreEvent
    <3> QED BY <3>2
  <2> QED BY <2>1, <2>3, <2>4
<1>7. CASE SendInitFailure
  <2>1. /\ state' = state
        /\ backlog' = Append(backlog, "initFailure") \/ backlog' = backlog
    BY <1>7 DEF SendInitFailure
  <2>2. backlog \in Seq(Message) /\ "initFailure" \in Message
    BY DEF IInv, TypeOK, Message, Event
  <2> QED BY <2>1, <2>2, AppendFact
<1>8. CASE Clients
  <2>1. PICK m \in FromRoboOne \cup FromBatteryManager : Send(m)
    BY <1>8 DEF Clients
  <2>2. m \in Message /\ backlog \in Seq(Message)
    BY DEF FromRoboOne, FromBatteryManager, Message, Event, IInv, TypeOK
  <2>3. state' = state /\ backlog' = Append(backlog, m)
    BY <2>1 DEF Send
  <2> QED BY <2>2, <2>3, AppendFact
<1>9. CASE UNCHANGED vars
  BY <1>9 DEF vars
<1> QED BY <1>2, <1>3, <1>4, <1>5, <1>6, <1>7, <1>8, <1>9 DEF Next, ServerStep

\* Every shutdown event that was accepted leads to Shutdown, and no step leads
\* out of it again, short of the end of the process.
THEOREM ShutdownKept == Spec => ShutdownNotLost
<1> DEFINE Kept ==
      /\ state = "Shutdown" => state' = "Shutdown" \/ pc' = "exited"
      /\ "shutdown" \in ToSet(backlog) =>
           "shutdown" \in ToSet(backlog') \/ state' = "Shutdown" \/ pc' = "exited"
<1>1. IInv /\ [Next]_vars => [Kept]_vars
  BY ShutdownStep
<1> HIDE DEF Kept
<1>2. Spec => [][Kept]_vars
  BY Invariant, <1>1, PTL DEF Spec
<1> QED BY <1>2 DEF Kept, ShutdownNotLost
=============================================================================
