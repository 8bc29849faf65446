# TLA+ verification of the RoboOne Pi software

RoboOne is a robot with a Raspberry Pi on board. Its software is a set of
executables that talk to each other over local sockets. This directory holds
TLA+ models of the ones that decide something, the TLC configurations that check
them and TLAPS proofs about them. File names below are relative to the
repository; `timer_server.c:384` is a line of `timer/src/timer_server.c`.

## 1. The system

### Components, their state, their operations

| Component | State it keeps | Operations | Model |
|---|---|---|---|
| Timer server (`timer/`) | two linked lists of 30 timer entries, a tick counter, a mutex | start, stop, server start and stop; a tick on a thread of its own every 100 ms | `TimerServer`, `TimerLists`, `TimerLinks` |
| Battery manager (`RoboOneBatteryManager/`) | data and status of four batteries, permission and threshold, two summary flags, a queue of relay messages and a flag for its offset timer | server start and stop, battery data, charging permission, timer expiry | `BatteryManager` |
| State machine (`RoboOneStateMachine/`) | the current state, as a table of function pointers | server start and stop, get context, ten events; entry actions that switch relays and the Hindbrain | `StateMachine` |
| Task handler (`RoboOneTaskHandler/`) | a doubly linked list of tasks, each with its result | new task, tick, server start and stop | `TaskHandler` |
| Hardware server (`RoboOneHardware/`) | shadows of the pins of the one-wire devices, the charger light latches of the last reading | about sixty get and set messages | `Hardware` |
| Battery monitors (`OneWire/src/ds2438.c`, `ow_bus.c`, `remaining_capacity_sync.c`) | in each device: a volatile and a saved page of time and capacity, a configuration | set-up, reading, swap of a battery, calibration; a program that only starts the server, reads and stops it | `BatteryMonitor` |
| RoboOne (`RoboOne/`) | monitor windows, menu position | starts and stops all servers, polls the hardware, sends events | its messages, in the server modules |
| Messaging (`MessagingServer/`, `MessagingClient/`) | the listen backlog, the two receive loops | one message and at most one reply per connection | `Messaging`; its backlog, in the server modules |
| shared (`shared/`) | none | assertions that end the process, time, debug printing | `Abort` |

What is not modelled, and why, is section 5.

### How they interact

Every server is one thread in `runMessagingServer`: accept a connection, read
one message, handle it to the end, perhaps reply, close. Up to `MAXPENDING` = 5
connections wait in the listen backlog. A client either waits for the reply or
closes at once:

    RoboOne        -> timer server (no wait), hardware, task handler, battery
                      manager, state machine (wait)
    state machine  -> hardware, battery manager, task handler (wait),
                      itself (INIT_FAILURE, no wait)
    battery manager-> hardware (wait), state machine and timer server (no wait)
    timer server   -> battery manager (expiry, no wait), from the tick thread,
                      with the mutex held

RoboOne starts the servers in the order timer, hardware, task handler, battery
manager, state machine, and stops them in reverse. A failed `ASSERT_` anywhere
ends the process concerned.

### What is hard here

  - *Threads*: the timer server's ticks run on threads the OS creates; they
    share the lists with the message loop under a mutex, and the tick counter
    with nobody's protection. A tick does not wait for the mutex.
  - *Partial failure*: switching a supply takes several messages to the
    hardware, any of which can fail; what was done is not undone.
  - *Stale messages*: a failed entry is reported by the state machine to itself
    through its own socket, behind whatever already waits there.
  - *Ordering and time*: the battery manager spaces relay messages two seconds
    apart with a queue and a timer it has to keep going.
  - *Long sequences*: a battery's status is five flags with six thresholds and
    hystereses, updated by reports and by permissions in any order.
  - *Read, change, write*: a pin is changed by reading a whole device, some of
    whose pins cannot be read, and writing it back; every read and write may
    fail, and a write that fails may have reached the device.
  - *Loss of power*: the capacity of a battery is kept in two places, written one
    after the other, and which of them is right is told by their times.
  - *Memory*: the task handler frees list entries while it walks the list.
  - *Limits*: a full timer table, a full queue and a full backlog each have
    their own consequence: abort, abort, and a lost message.

`PROJECT.json` lists these hazards one by one, at the line where they bite, with
the properties that cover them.

### What makes each component correct

  - Timer server: no entry is lost or linked twice, nothing is used after it is
    freed; each start request has exactly one end; expiries come in order and
    not early; every running timer ends.
  - Battery manager: no battery outside its temperature range is charged, a low
    battery goes on charging, a full one does not; the relays end up as decided;
    nothing stays in the queue.
  - State machine: nothing is ever left without a supply; charging is permitted
    exactly when docked; a failed entry is reported; without failures the
    supplies match the state; a shutdown wins.
  - Hardware server: a message changes the pins it names and no other; success
    means that it did; what is read is what is driven; inputs are not driven; a
    flashing light flashed.
  - Battery monitors: a capacity survives the loss of power, and a lost one never
    replaces a good one; the current goes on being measured.
  - Task handler: each accepted task is done once and told once, oldest first;
    the list stays a list and freed memory is not read.
  - Messaging: no message is taken for another; everybody comes back.

## 2. The modules

### TimerServer

`mpc` is where the message loop is, `tpc[t]` where tick thread `t` is. A request
is accepted (`AcceptRequest`), waits for the mutex (`ServerLock`) and does its
work in the region (`AllocTimer`, `ActionTimerStop`, `FreeAllTimers`,
`DeleteTimer`). A tick loads the counter, stores it back incremented
(`TickFire`, `TickStore`: two steps, because nothing makes `++` atomic), tries
the mutex (`TickTryLock`) and walks the list (`TickWalk`, `TickSend`), one step
per entry because each send blocks in `connect()`. The lists are the sequences
`free` and `used`. `fate` and `left` are history: what became of each start
request, and how many OS ticks its period still had to see.

Abstractions. `Serial` names the start requests; a bounded number of them is
sent. The clock is bounded: no request is made once `tick` reaches `MaxTick`,
and it stops at `Horizon`, when every deadline is past. A client that connects
to a full backlog times out, so the message is lost; a client that is gone
refuses. The assertion of `freeTimerUnprotected` that the timer exists has no
action: `MemoryKept` says it cannot be reached. The mutex's destruction
after the server stop has no step of its own: the process exits right after.

### TimerLists and TimerLinks

`TimerLists` says what the two lists promise their users: a fixed number of
entries, each free or used, the used ones in order of expiry, equal ones in
order of arrival. `TimerServer` implements it concurrently, with sequences for
lists; `TimerLinks` implements it by pointers, one step per iteration of a loop
that changes or follows a pointer: `malloc` and linking, `SortUsedList` (the
bubble sort that returns to the head after each swap), `TickWalk` (the walk that
moves entries to the other list as it goes), `FreeAllTimers`, `FreeBlock`. The
iteration counts that bound these loops in the code bound them here. All of this
happens under the mutex, so only the counter (`Tick`) moves in between.

The mapping hides what nobody outside can see: the free list counts as empty
while it is being built or freed (`FreeList`), and while the sort runs the used
list counts as what the sort is to produce (`UsedList`), so that every iteration
of it is a stutter. A sort cut short by its bound would therefore show as a
step that nothing in `TimerLists` allows. `ActionTimerStop` takes any used
entry; which one a request means is `TimerServer`'s matter.

### BatteryManager

`data` and `status` are the fields of the container of each battery; `q` is
`gHardwareMsgQ`, `running` is `gTimerRunning`. Handlers that go through the
batteries in turn take one step per battery (`pc`, `at`). `charger` is what the
hardware server was last told, `settled` says that two seconds have passed since
then, `event` is what the last step sent to the state machine, `crossed` is
history: batteries with an "on" and an "off" order outstanding at the same time.
The handlers' inputs are every reading in `Capacity` and `Temperature`; messages
come in any order, so their queue is not kept. The hardware's answer is ignored
by the code and so by the model. The timer server delivers one expiry for each
timer started.

### StateMachine

`state` is the state whose handlers the context holds. Each state is a record of
hooks (`Hooks`), as the code copies a table of function pointers; a substate
starts from its parent's hooks and overrides some. `HookFor` says which hook an
event function calls. Entry actions are pure operators on `World`, the pins
of the relays and of the Hindbrain and the number of hardware failures so far:
each returns the set of its possible results, an `ok` flag and a world, and
`AndThen`, `OrElse` and `Anyway` (module `Outcomes`) chain them as the code's
`if (success)` does.
A handler is one step, except that a failed entry then connects to its own
server (`pc = "failed"`, `SendInitFailure`): other clients may get in between.
`permitted` is what the battery manager was last told. `lost` remembers that an
INIT_FAILURE met a full backlog. The initial pins are those `ow_bus.c:85-88`
sets; `MaxFaults` bounds the hardware failures. A failed message leaves the pins
alone (`Hardware` has what this leaves out).
RoboOne sends SERVER_START first because it waits for its confirmation before
starting anything that sends events, and waits for its own requests. Some events
have no sender in the repository (init, timer expiry, no tasks, insufficient
power); they are part of the server's interface and are included.

### Hardware

`latch[d]` is what device `d` drives, `shadow[d]` the `pinsState` the server
remembers of it; `Readings(d)` is what `readPinsWithShadow` can return. A pin is
present in these sets when it is at 5 V. A message about relays reads
(`ReadForSet`), and then does the writes in `todo`, one step each (`WritePins`:
`WriteDone`, `WriteFails`), so that the process can end (`Crash`) between any
two; the message to all the chargers goes through them with `rest` and
`NextCharger`, a toggle has two writes, the mux three. A failed write may have
taken effect; a failed *read* before a set is overwritten by the result of the
write (`ow_bus.c:473`), so the write is made from any pins at all (`blind` in
`job`). `unsure` is history: devices whose last write failed, or that were never
written by this process. `ActionHardwareServerStart` keeps the code's habit of
overwriting the result of each device by the next.

The charger lights are independent of the rest: `moving` is the device's
activity latch, `lastEdges` and `elapsed` are the server's, and `movedNow`,
`movedBefore` are history of what really changed. `LongEnough` is the
subtraction of unsigned numbers of `ow_bus.c:1019`, which is true of every later
second, not after one second.

Abstractions. `Wired` selects the pins that are considered, so that an instance
need not have all 25; the proofs hold for any. Two lights that change at
different moments of one message cannot be told apart, so lights change between
messages. A temperature reading is abstracted to which sensor it is of.

### BatteryMonitor

`monitor[b]` is the memory of a DS2438: its volatile time and capacity, the page
they are saved in, its configuration. The functions of `ds2438.c` are operators
that return the set of results they can have (`Outcomes`: `AndThen`, `OrElse`
and `Anyway` chain them as `if (success)` does), and each step is one battery's
share of a message. A call that fails half way leaves what an end of the process
at that point leaves, so restarts are `ActionHardwareServerStop` at any step
and the failures. `lost` marks a count that power-up or a calibration left and
not the battery; `answered` is what the last reading or swap told the user;
`troubled` and `calibrated` are history. Capacities are converted with the
code's truncation (`Mah`, `Ica`); the maximum of 2200 mAh and one higher level
make the clamp bite. The clock of the Pi is assumed ahead of any monitor's
seconds of uptime: it counts from 1970, they from power-up.

### TaskHandler

The list of tasks (`Tasks`, what module `Links` finds by following the pointers)
is `next` and `prev` of the blocks that `malloc()` gave,
behind `gTaskListRoot`; `item` is the rest of a block. A tick does the tasks one
step each (`DoTask`, `DoTaskFails`, `PassCompletedTask`), then the walk frees
what is finished, one step per entry (`RemoveTask`, `KeepTask`). The walk is as
in the code: after an entry that stays, `pPrevious` is `pThis` itself, and the
next entry that is freed is read after `free()`. What happens then is not
defined, so `doing` becomes "undefined" and stays; the properties say how far
one can rely on the server before, and that only an entry that stays leads
there. `told` is what got through to who asked; an indication may get lost
without anybody noticing. `accepted`, `done` and `told` are history.

### Messaging

One server in `runMessagingServer` and calls of `runMessagingClient`. A message
on its way is its length byte and how many bytes are left; `Received` is what
the receive loop can be after one `recv()`: always into the start of the buffer,
so any later piece puts a byte of the body in the place of the length. A
`recv()` that returns 0 changes nothing and the loop goes round: no action. The
server takes one connection at a time from a backlog of `MAXPENDING`; it may
exit on the word of its handler, fail, or be asked by a client that is killed.
`garbled` is history: calls for which either end took another message for the
one that was sent. `pieces`, `deaths` and `failures` count the troubles so that
the properties can say which of them matter.

## 3. The runs

| Run | Question | Bounds |
|---|---|---|
| `timer_safety` | do lists, mutex and expiries stay right, and are the lists `TimerLists` | 2 overlapping ticks, 2 entries for 3 requests: the table fills, empties and fills again, so the abort, first and last entry and reuse all occur |
| `timer_timing` | do timers end in order and on time, and does each end | 1 tick thread, 2 entries, 1 client with 2 ids, 2 requests, periods 1 and 2, requests until tick 2, end at tick 4: equal, overtaking and later deadlines, and ticks skipped for the mutex |
| `timer_links` | do the pointers implement the lists | 4 entries, periods 0 to 3, 4 ticks: enough for a new timer to pass three others, first, middle and last entry unlinked, and equal deadlines |
| `battery_status` | are chargers decided right | 2 batteries; capacities low, within every hysteresis, full; temperatures below, within and above the range; queue of 1 (not its subject) |
| `battery_relays` | do the relays follow, is the queue kept going, does it drain | 2 batteries, queue of 3 |
| `state` | supplies, charging, failure reports, tasks; does shutdown win | up to 2 hardware failures (both supplies of a changeover), backlog of 3: enough for a failure, its report, and two stale events |
| `hardware` | what may a message change, what does success mean, what is read, when does a light flash | 2 chargers, 9 pins of all kinds on three devices, 1 light, 2 failures: a failed read and a failed write of one message, or one each of two |
| `battery_monitor` | when is the capacity kept, restored, lost | 2 monitors, 1 second, 1 failure: one monitor in trouble hidden by a good one after it; power lost any number of times |
| `tasks` | is each task done and told once, is the list sound, is anything starved | 4 blocks and 4 tasks, the assertion at 3 entries, 1 result without memory: the list fills up, entries stay before and behind others that go |
| `messaging` | is a message taken for another, does everybody come back | 3 calls, backlog of 1, messages up to 2 bytes with 2 as the maximum, 1 trouble of any kind: one served, one waiting, one refused |

Two batteries stand for four: the handlers treat O1, O2 and O3 alike, and the
first of them (Rio) is special only through `battery_manager_server.c:243`,
which the model keeps. `CHECK_DEADLOCK FALSE` appears wherever a server may
exit or abort, which it really does. Type correctness is checked in the runs of
`TimerServer`, `StateMachine`, as part of `LinksSound`, `ListSound` and
`MeasuresUnlessTroubled`, and proved for `BatteryManager` and `Hardware`.

### Violations: where the code departs from what it says

| Run | What is violated |
|---|---|
| `state_insufficient_power` | `eventInsufficientPower` calls the hook for mains power (`state_machine_events.c:64`), so the robot does not shut down |
| `hardware_mux` | `setAnalogueMuxInput` enables the mux with the select pins as they were read (`ow_bus.c:1838`), so a temperature is that of another battery |

Other departures have no run of their own, but show in the properties that hold
in spite of them:

  - the queue of the battery manager is emptied from its end
    (`battery_manager_server.c:630`), so of two orders for one charger the older
    wins: hence `RelayFollowsUnlessCrossed`;
  - after the last queued message the timer is not restarted (`:633`), so that the
    next relay may switch at once: hence `QueuePaced` speaks only of messages that
    leave the queue;
  - a battery that is no longer full clears the flag of the Rio and keeps its own
    (`:243`), so that the next time it is full its charger stays on: hence
    `RioOffWhenFull` speaks of the Rio alone;
  - `writeNVConfigThresholdDS2438` puts the configuration it found back over the
    one it wrote (`ds2438.c:813`): hence `MeasuresUnlessTroubled` speaks of the
    current measurement and of nothing else in the configuration;
  - the result of `setupDevices` is that of the last device (`ow_bus.c:857`):
    hence `troubled` in `LostOnlyIfTroubled`;
  - the walk of the task handler reads freed memory behind an entry that stays
    (`task_handler.c:137`), and a task without a header stays for ever: hence
    the exceptions of `ListSound` and `TasksAreDone`;
  - a message in pieces is put together wrongly, and an end of file is not noticed
    (`messaging_server.c:62`, `:68`): hence the exceptions of
    `KeepsMessagesWhole` and `EveryoneReturns`.

### Fairness

`TimerServer`: the loop and the tick threads run and the OS timer fires (weak
fairness); the mutex is not fair, clients do nothing they have to. Liveness is
stated for the time after clients leave the loop alone, because a tick that
meets a taken mutex is skipped and a stream of requests could starve it.
`BatteryManager`: the handlers finish, two seconds pass, the expiry arrives.
`StateMachine`: the loop runs. `TaskHandler`: the loops of a tick run on, and the
monitor goes on ticking, as `monitor.c:1055` does after every window it updates.
`Messaging`: the server and each call run on; nobody has to connect, and the
handler answers or does not as it likes. Nothing else is assumed of a client.

## 4. The proofs

TLAPS checks the theorems for every value of the constants.

`TimerServer_proofs`: `TypeCorrect`, `MemorySound`, `TimersAccounted`,
`OrderKept`, `ExpirySound`, `ListsImplemented`, `ExpiryInTime`. The inductive
invariant joins five parts, each useless without the others: `LockInv` (the
mutex is held by exactly the thread in its region) makes the lists change under
one thread at a time; `PhaseInv` and `RequestInv` tie the request being handled
to its fate; `EntriesConserved`, `NoUseAfterFree` and `StartInv` are the memory;
`Accounted` and `UsedSorted` speak of entries that the memory part keeps
distinct. Assumptions: `TimerServerAssumption` (finite table, natural numbers,
and tick threads that are not named "none" or "server"). The lemmas it begins
with state what the sequence operators used (`RemoveAt`, `InsertAt`, `Front`,
append) preserve; the proofs about linked lists state those they need again,
because a module can extend one component only.

`ListsImplemented`, in the same module, is the refinement of `TimerLists`: every
initial state maps to an initial state, and every step to `Create`, `Put`,
`Take`, `TakeAll`, `Destroy` or a stutter. Besides the invariant it needs
`Bounds`: the clock stays within `Horizon`, the free list is empty until the
server has started, and the used one is empty when the free one is destroyed.

`ExpiryInTime` is the one theorem with a hypothesis: that tick handlers do not
overlap (`\A t, u \in Ticker : t = u`, as in the run `timer_timing`), which
nothing in the code enforces. It is needed: with two, the one stores the counter
while the other is in the middle of the list, and a timer further down, due by
now, is sent before one that has been passed (TLC finds this in 21 steps with
`Ticker = {t1, t2}`). The invariant has three parts more. `LoadInv`: nobody
stores the counter between a handler's load and its store. `LeftInv`: a timer
whose deadline is `d` ticks away has at most `d` OS ticks to see while a handler
is at the counter, and one more otherwise, which is where the one tick in the
property comes from. `WalkInv`: as long as an entry is due the walk stands at
the head of the list, so that what is sent has the earliest deadline.

`StateMachine_proofs`: `TypeCorrect`, `SuppliesKept`, `ChargingOnlyDocked`,
`FailuresReported`, `PowerFollowsState`, `TasksSound`, `ShutdownKept`. Its first
part proves what each hardware action can return, its second what each state's
entry leaves, its third the invariant, its fourth what becomes of a shutdown
event: it stays in the backlog until the server takes it, which from every state
leads to Shutdown, and nothing leads out again (`ShutdownNotLost`). `FailureReported` needs to know that only
Init and Mobile report failures and only after a fault; `PowerMatchesState`
needs that without faults the on-PCB relays are on wherever the Hindbrain is
toggled (`CanToggle`), or a toggle would do nothing.

`BatteryManager_proofs`: `TypeCorrect`, `HotNeverCharged`, `RioStopsWhenFull`,
`QueueNeverStuck`, `RelaysFollow`, `QueuePacedAlways`, `LowStaysOn`, for any
number of batteries, any readings and any length of the queue (assumption
`BatteryManagerAssumption`: the order is not empty, Rio is its first). The
invariant joins `LoopInv`, `StatusInv`, `QueueInv` and `RelayInv`. `StatusInv`
adds that Rio's charger is off while its full flag is set: every battery that
is no longer full clears that flag, and the proof shows a charger is then off
already or goes on only for a low reading. `QueueInv` adds that an elapsed
timer means a settled relay. `RelayInv` says where each battery stands while a
handler is halfway through them: its last word (`Said`: what is queued for it,
all alike, or else what was sent) is what is wanted, or an "on" and an "off"
for it have crossed.

`Hardware_proofs`: `TypeCorrect`, `ReadingsSound`, `InputsKept`, `OnlyNamed`,
`SuccessSound`, `MuxSound`, `FlashingSound`, for any number of chargers, any
selection of the pins, any number of failures and any lights (assumption
`HardwareAssumption`: the chargers are relays of their own, the mux is wired).
The invariant has six parts about the pins. `ShadowInv`: a device that was
written for certain has its shadow right, which makes its readings true.
`WritesInv`: the writes still to do agree with each other, and with the device,
on every pin that the message does not name; `InputsUndriven` needs it to put
inputs at 5 V. `DoneInv` says which of the pins a message names have had their
turn, so that the last write leaves them all as wanted. `MuxInv`: every write to
the mux but the last keeps it disabled, and it is disabled before the last.
`PhaseInv` ties these to what the process is at. `LightInv`, about the lights,
says that what the latch and the server remember really moved. One lemma
(`OneWrite`) covers every message that reads a device and writes it once.

`BatteryMonitor_proofs`: `MeasuringKept`, `SavedKept`, `CapacityRestored`, for
any number of batteries, failures and seconds (assumption
`BatteryMonitorAssumption`: the clock is ahead of the seconds any monitor has
been up for). Its first part says what each call of `ds2438.c` can lead to,
failed writes that took effect included. The invariant has three parts besides
the types. `CountInv` dates the counts: one that was not lost is from `Epoch` or
later and no older than the saved one; one that was lost, beside a saved one
that was not, only counts the seconds since the last power-up, so that comparing
the two times tells them apart. `AnsweredInv` says that a capacity that was
answered or set is the saved one and is not clamped again; both hold for
calibrated monitors and after any failure. `SetUpInv` says of the monitors that
the start has passed (`SetUpDone`) and that had no failure that they measure,
and that a count is lost only if the saved one is too; a reading then cannot
save a lost count over a kept one.

`Messaging_proofs`: `MessagesKeptWhole`, `NobodyIsForgotten`, for any number of
calls, any lengths and any backlog. The invariant says, as long as no message has come in pieces,
that what is on its way is a whole message or nothing (`StreamInv`) and that a
receive loop that goes on has nothing yet (`LoopInv`): one `recv ()` then brings
the message that was sent (`WholeMessage`), and neither loop ends in an error.
`PlacedInv` adds, as long as nothing has gone wrong, where every call is: in the
backlog, with the server or closed by it, one at a time (`Apart`), with a message
sent or to come (`Sent`) and an answer to read or none to expect (`Answered`).
`NobodyForgotten` is what follows for a call that is not back; it needs `Apart`,
for the server could otherwise close a connection it has yet to accept, or wait on
one it has answered.

`TimerLinks_proofs`: `SoundLinks`, `TakesAllDue`, `GivesBack`, `ListsImplemented`,
for any number of entries and any periods (assumption `TimerLinksAssumption`:
the entries are finitely many, NULL is none of them, the periods have a largest,
as a UInt32 has). What a loop finds by following pointers is `Following` (module
`Links`), a recursive function. `FollowLinks` is the induction the proofs need of
it, done once, by the least position where it would go wrong: if the pointers
are those of a sequence without duplicates (`Linked`), the loop finds that
sequence. From there on the proofs are about sequences. The invariant `IInv`
joins `Chained` (each list is what its links run through, and they share no
entry), `Owned` (the previous pointers; the lists share out what is
`malloc()`ed), `Ordered`, `NoneUsed`, and, for the loop under way, where it is:

  - `Sorting(p, t, q)`: all but the entry at `p` are in order, it belongs at
    `t <= p`, the loop is at `q`, and its count is at most
    `(n - p) n + q - 1` for a list of `n`. The new entry starts at `p = n` and
    each swap takes it one place nearer after less than `n` iterations, so the
    count is below `n * n` until the order is right: the bound of the code
    suffices;
  - `Walking(k)`: what was left behind was not due, and the count has room for the
    rest of the list, whose entries move up as others are freed;
  - `Destroying(k)`: what is not yet freed is the list from `k` on.

`ListsImplemented` is the refinement of `TimerLists`. `Ranks` computes the
position that sorting gives to every entry of a list with one out of order,
`LooksSorted` concludes what such a list shows (`Settled`), `SettledStarts` that
this is the abstract `Put` when the entry is linked in, `SettledMoves` that a
swap does not change it, `SettledEnds` that it is the list itself in the end.

`TaskHandler_proofs`: `NothingLost`, `TellsOnce`, `SoundList`, `TickDoesAll`,
`AbortsOnlyFull`, for any number of blocks, tasks and results without memory (assumption `TaskHandlerAssumption`:
finitely many blocks, `gTaskListRoot` and NULL none of them). The list is
reached by following pointers here too. The invariant has six parts. `Chained`
and `Held` are those of the links, in both directions, and of the memory.
`Reported` says what a completed entry may still hold, and that no two are of
one task; `Counted` that what is accepted is done or in the list; `InTurn` that
while no result went without memory the rest stands at the end of the list in
the order of the requests. `Here` says where the loops are: a tick has completed
all up to `pThis`; the walk leaves nothing behind that is finished, and
`pPrevious` is the root until it has passed an entry that stays, from which on
it is `pThis` itself. That is why the next `free()` is then followed by a read of
freed memory, and why there is none before. `TickDoesAll` is what `Counted` says
at the end of a tick, where nothing is left to do; `AbortsOnlyFull` counts: the
tasks of the list are accepted ones, no two the same, so that a full list
is an injection of `MAX_GUARD_COUNTER` positions (`NoMoreThanAccepted`).

Only model-checked: the liveness properties (`QuietTimersEnd`,
`QuietQueueDrains`, `ShutdownHeeded`, `TasksAreDone`, `EveryoneReturns`) and
`ENABLED`, which are out of the prover's reach. What they ask besides fairness is
proved: `TimersAccounted` and `ExpiryInTime` for the first, `QueueNeverStuck`
for the second (while the queue holds a message, an expiry is to come),
`ShutdownKept`, then `TickDoesAll` and `AbortsOnlyFull`, then `NobodyIsForgotten`.
These are invariants and steps, not proofs of the liveness: that the servers run
on is assumed there, and is TLC's. Every other property of a passing run is a
theorem.

## 5. Not modelled

  - `OneWireLibs/` is about four fifths of the repository's lines: the vendored
    one-wire public domain kit and its example applications. It is reached
    through a few functions, whose failures the models have.
  - The rest of `OneWire/` translates commands to bytes; `OneWireServer/` calls
    one function of it per message. Neither keeps a state.
  - Of the hardware server: readings that change nothing (currents, voltages,
    lifetime counters), the text of the LEDs, and the strings to and from the
    Orangutan, whose answers come through one blocking call.
  - RoboOne: windows, the tree of menus, and the order in which it starts and stops
    the servers, a straight line that waits for each.
  - `shared/`: assertions are the ends of processes in every module; the rest are
    time conversions and debug printing.
  - `Charger/` (an earlier stand-alone loop that the battery manager replaced),
    `PiIo/` (register accesses), `OneWireTestClient/`, the `Hello*` examples (the
    repository's README says they are no longer in use), `pi/` (installation).
  - The composition of the battery manager, the state machine and the monitor.
    They meet in a handful of messages, which each model sends or takes in any
    order, so that each is checked against more than the others can do. What only
    the composition could show, that an event sent while the robot cannot use it
    is not repeated (`battery_manager_server.c:125`), is in `PROJECT.json` without
    a property: the product of the two state spaces is beyond an exhaustive run.
