---------------------------- MODULE TimerServer ----------------------------
(***************************************************************************)
(* The timer server process (timer/src/timer_server.c) and the clients     *)
(* that use it through timer/src/timer_client.c.                           *)
(*                                                                         *)
(* One thread, the message loop, takes requests from the listen backlog of *)
(* the server's socket and starts and stops timers.  The operating system  *)
(* calls tickHandlerCallback on a thread of its own every 100 ms: it       *)
(* advances the tick counter WITHOUT the mutex, then tries the mutex and,  *)
(* if it gets it, walks the used list and sends an expiry message for each *)
(* timer that is due.  A handler that blocks in connect() can still be     *)
(* walking when the next tick fires, so there are several tick threads.    *)
(*                                                                         *)
(* The two linked lists are sequences of entries here, with the operations *)
(* of TimerLists; TimerLinks shows that the code's pointers implement it.  *)
(***************************************************************************)
EXTENDS Integers, Sequences, FiniteSets, SequencesExt

CONSTANTS
  Entry,      \* the TimerEntry blocks the server mallocs (MAX_NUM_TIMERS)
  Ticker,     \* threads the OS may have running tickHandlerCallback at once
  Port,       \* sockets of the clients, where the expiry messages go
  Id,         \* timer ids
  Period,     \* periods the clients ask for, in ticks
  Serial,     \* one name for each TIMER_START_REQ a client will send
  Backlog,    \* connections a listening socket keeps waiting (MAXPENDING)
  MaxTick,    \* bound: no timer is requested once the clock is past it
  Horizon,    \* bound: the clock stays there, every deadline is past
  PNULL

ASSUME TimerServerAssumption ==
  /\ IsFiniteSet(Entry)
  /\ Period \subseteq Nat
  /\ Backlog \in Nat \ {0}
  /\ MaxTick \in Nat /\ Horizon \in Nat
  /\ \A p \in Period : MaxTick + p <= Horizon
  /\ PNULL \notin Entry
  /\ "none" \notin Ticker /\ "server" \notin Ticker

VARIABLES
  mpc,      \* where the message loop is
  msg,      \* the request it is handling
  backlog,  \* connections made to the server and not yet accepted
  ticking,  \* the OS timer exists: timer_create() to timer_delete()
  tick,     \* gTimerTickDeciSeconds
  lock,     \* lockLinkedLists: "none", "server" or the ticker that holds it
  free,     \* the list at pgFreeTimerListHead
  used,     \* the list at pgUsedTimerListHead
  timer,    \* the Timer in each entry
  tpc,      \* where each tick thread is
  load,     \* what each tick thread read for gTimerTickDeciSeconds++
  cur,      \* pEntry of each tick thread
  mail,     \* expiry messages waiting in the backlog of each client
  open,     \* clients whose socket is listening
  fate,     \* history: what became of each request
  left      \* history: OS ticks that a timer's period still had to see

listVars   == <<free, used, timer>>
serverVars == <<mpc, msg, backlog>>
tickVars   == <<tpc, load, cur>>
clientVars == <<mail, open>>
vars == <<mpc, msg, backlog, ticking, tick, lock, free, used, timer,
          tpc, load, cur, mail, open, fate, left>>

StartReq == [type: {"start"}, port: Port, id: Id, period: Period, serial: Serial]
StopReq  == [type: {"stop"}, port: Port, id: Id]
Request  == StartReq \cup StopReq \cup [type: {"serverStart", "serverStop"}]
NoMsg    == [type |-> "none"]

NoTimer == [expiry |-> 0]               \* what the memset() leaves
Timer   == [expiry: Nat, port: Port, id: Id, serial: Serial] \cup {NoTimer}

Final == {"expired", "lost", "stopped", "dropped"}

Init ==
  /\ mpc = "accept" /\ msg = NoMsg
  /\ backlog = <<[type |-> "serverStart"]>>  \* RoboOne's first message
  /\ ticking = FALSE /\ tick = 0 /\ lock = "none"
  /\ free = <<>> /\ used = <<>> /\ timer = [e \in Entry |-> NoTimer]
  /\ tpc = [t \in Ticker |-> "idle"]
  /\ load = [t \in Ticker |-> 0]
  /\ cur = [t \in Ticker |-> PNULL]
  /\ mail = [p \in Port |-> <<>>] /\ open = Port
  /\ fate = [s \in Serial |-> "none"] /\ left = [s \in Serial |-> 0]

(***************************************************************************)
(* The lists.                                                              *)
(***************************************************************************)
\* pEntry->pNextEntry: a freed entry is the last of the free list.
NextOf(e) ==
  IF \E i \in 1..Len(used)-1 : used[i] = e
  THEN used[1 + CHOOSE i \in 1..Len(used)-1 : used[i] = e]
  ELSE PNULL

HeadOf(list) == IF list = <<>> THEN PNULL ELSE Head(list)

\* Mutant: the list is not sorted after the timer is put at its end.
BelongsAtEnd(i, x) == i = Len(used) + 1

\* Position i of the used list is where a timer that expires at x belongs:
\* behind every timer that is due no later.
BelongsAt(i, x) ==
  /\ \A j \in 1..i-1 : timer[used[j]].expiry <= x
  /\ \A j \in i..Len(used) : timer[used[j]].expiry > x

\* exit(127) from an ASSERT_: the process and its threads are gone.
Abort ==
  /\ mpc' = "aborted"
  /\ tpc' = [t \in Ticker |-> "idle"] /\ cur' = [t \in Ticker |-> PNULL]
  /\ ticking' = FALSE /\ lock' = "none"
  /\ UNCHANGED <<msg, backlog, tick, listVars, load, clientVars>>

Alive == mpc \notin {"aborted", "exited"}

\* Mutant: the entry stays linked into the used list.
FreeTimerStillLinked(e) ==
  /\ used' = used
  /\ free' = Append(free, e)
  /\ timer' = [timer EXCEPT ![e] = NoTimer]

\* Mutant: a stray pointer is linked into the free list.
FreeTimerLinksNull(e) ==
  /\ \E i \in 1..Len(used) : used[i] = e /\ used' = RemoveAt(used, i)
  /\ free' = Append(free, PNULL)
  /\ timer' = [timer EXCEPT ![e] = NoTimer]

\* Unlink e from the used list and put it at the end of the free list.
FreeTimerUnprotected(e) ==
  /\ \E i \in 1..Len(used) : used[i] = e /\ used' = RemoveAt(used, i)
  /\ free' = Append(free, e)
  /\ timer' = [timer EXCEPT ![e] = NoTimer]

(***************************************************************************)
(* The message loop.                                                       *)
(***************************************************************************)
\* Mutant: the server is destroyed with timers still running.
DispatchStopUnfreed ==
  [start |-> "wantAlloc", stop |-> "wantStop", serverStop |-> "wantDelete"]

Dispatch == [start |-> "wantAlloc", stop |-> "wantStop", serverStop |-> "wantFree"]

AcceptRequest ==
  /\ mpc = "accept" /\ backlog # <<>>
  /\ Head(backlog).type # "serverStart"
  /\ msg' = Head(backlog) /\ backlog' = Tail(backlog)
  /\ mpc' = Dispatch[msg'.type]
  /\ UNCHANGED <<ticking, tick, lock, listVars, tickVars, clientVars, fate, left>>

\* Create the mutex, the free list and the OS timer.
ActionTimerServerStart ==
  /\ mpc = "accept" /\ backlog # <<>>
  /\ Head(backlog).type = "serverStart"
  /\ backlog' = Tail(backlog)
  /\ \E order \in [1..Cardinality(Entry) -> Entry] :
        IsInjective(order) /\ free' = order
  /\ ticking' = TRUE
  /\ UNCHANGED <<mpc, msg, tick, lock, used, timer, tickVars, clientVars, fate, left>>

\* A failed malloc(), timer_create() or timer_settime() asserts.
ServerStartFails ==
  /\ mpc = "accept" /\ backlog # <<>>
  /\ Head(backlog).type = "serverStart"
  /\ Abort /\ UNCHANGED <<fate, left>>

Holding == [wantAlloc |-> "holdAlloc", wantStop |-> "holdStop",
            wantFree |-> "holdFree", wantDelete |-> "holdDelete"]

\* pthread_mutex_lock() in allocTimer, actionTimerStop, freeAllTimers and
\* actionTimerServerStop.
ServerLock ==
  /\ mpc \in DOMAIN Holding
  /\ lock = "none"
  /\ lock' = "server"
  /\ mpc' = Holding[mpc]
  /\ UNCHANGED <<msg, backlog, ticking, tick, listVars, tickVars, clientVars, fate, left>>

AllocTimer ==
  /\ mpc = "holdAlloc" /\ free # <<>>
  /\ LET e == Last(free)
         x == tick + msg.period
     IN /\ \E i \in 1..Len(used)+1 :
              BelongsAt(i, x) /\ used' = InsertAt(used, i, e)
        /\ free' = Front(free)
        /\ timer' = [timer EXCEPT ![e] = [expiry |-> x, port |-> msg.port,
                                          id |-> msg.id, serial |-> msg.serial]]
  /\ fate' = [fate EXCEPT ![msg.serial] = "armed"]
  /\ left' = [left EXCEPT ![msg.serial] = msg.period]
  /\ lock' = "none" /\ mpc' = "accept" /\ msg' = NoMsg
  /\ UNCHANGED <<backlog, ticking, tick, tickVars, clientVars>>

\* allocTimer returns PNULL and actionTimerStart asserts.
AllocTimerFails ==
  /\ mpc = "holdAlloc" /\ free = <<>>
  /\ Abort /\ UNCHANGED <<fate, left>>

\* The entries of the used list that a TIMER_STOP_REQ is about.
Match == {i \in 1..Len(used) : /\ timer[used[i]] # NoTimer
                               /\ timer[used[i]].id = msg.id
                               /\ timer[used[i]].port = msg.port}

\* Only the first match is stopped.
ActionTimerStop ==
  /\ mpc = "holdStop"
  /\ \/ /\ Match = {}
        /\ UNCHANGED <<listVars, fate>>
     \/ \E i \in Match :
        /\ \A j \in Match : i <= j
        /\ FreeTimerUnprotected(used[i])
        /\ fate' = [fate EXCEPT ![timer[used[i]].serial] = "stopped"]
  /\ lock' = "none" /\ mpc' = "accept" /\ msg' = NoMsg
  /\ UNCHANGED <<backlog, ticking, tick, tickVars, clientVars, left>>

\* Mutant: the loop stops one entry short of the end of the list.
FreeAllTimersButLast ==
  /\ mpc = "holdFree"
  /\ free' = free \o Front(used) /\ used' = <<>>
  /\ UNCHANGED timer
  /\ fate' = [s \in Serial |->
       IF fate[s] = "armed" /\ (\E i \in 1..Len(used)-1 : timer[used[i]].serial = s)
       THEN "dropped" ELSE fate[s]]
  /\ lock' = "none" /\ mpc' = "wantDelete"
  /\ UNCHANGED <<msg, backlog, ticking, tick, tickVars, clientVars, left>>

FreeAllTimers ==
  /\ mpc = "holdFree"
  /\ free' = free \o used /\ used' = <<>>
  /\ timer' = [e \in Entry |-> NoTimer]
  /\ fate' = [s \in Serial |-> IF fate[s] = "armed" THEN "dropped" ELSE fate[s]]
  /\ lock' = "none" /\ mpc' = "wantDelete"
  /\ UNCHANGED <<msg, backlog, ticking, tick, tickVars, clientVars, left>>

\* Free the free list and delete the OS timer.
DeleteTimer ==
  /\ mpc = "holdDelete"
  /\ free' = <<>> /\ ticking' = FALSE
  /\ lock' = "none" /\ mpc' = "exiting"
  /\ UNCHANGED <<msg, backlog, tick, used, timer, tickVars, clientVars, fate, left>>

\* SERVER_EXIT_NORMALLY ends main(); handlers still running end with it.
Exit ==
  /\ mpc = "exiting"
  /\ mpc' = "exited"
  /\ tpc' = [t \in Ticker |-> "idle"] /\ cur' = [t \in Ticker |-> PNULL]
  /\ lock' = "none" /\ msg' = NoMsg
  /\ UNCHANGED <<backlog, ticking, tick, listVars, load, clientVars, fate, left>>

ServerStep ==
  \/ AcceptRequest \/ ActionTimerServerStart \/ ServerStartFails \/ ServerLock
  \/ AllocTimer \/ AllocTimerFails \/ ActionTimerStop
  \/ FreeAllTimers \/ DeleteTimer \/ Exit

(***************************************************************************)
(* tickHandlerCallback.  gTimerTickDeciSeconds++ is a load and a store of  *)
(* a plain variable outside the mutex: threads that overlap may lose a     *)
(* tick or put the counter back.                                           *)
(***************************************************************************)
StartPending ==
  \E r \in ToSet(Append(backlog, msg)) : r.type = "start"

TickFire(t) ==
  /\ ticking /\ tpc[t] = "idle"
  /\ tick < MaxTick \/ ~StartPending          \* bound on the clock
  /\ tpc' = [tpc EXCEPT ![t] = "loaded"]
  /\ load' = [load EXCEPT ![t] = tick]
  /\ left' = [s \in Serial |-> IF left[s] > 0 THEN left[s] - 1 ELSE 0]
  /\ UNCHANGED <<serverVars, ticking, tick, lock, listVars, cur, clientVars, fate>>

TickStore(t) ==
  /\ tpc[t] = "loaded"
  /\ tick' = IF load[t] < Horizon THEN load[t] + 1 ELSE Horizon
  /\ tpc' = [tpc EXCEPT ![t] = "trylock"]
  /\ UNCHANGED <<serverVars, ticking, lock, listVars, load, cur, clientVars, fate, left>>

\* pthread_mutex_trylock(): a tick that finds the mutex taken is skipped.
TickTryLock(t) ==
  /\ tpc[t] = "trylock"
  /\ \/ /\ lock = "none"
        /\ lock' = t
        /\ cur' = [cur EXCEPT ![t] = HeadOf(used)]
        /\ tpc' = [tpc EXCEPT ![t] = "walk"]
     \/ /\ lock # "none"
        /\ tpc' = [tpc EXCEPT ![t] = "idle"]
        /\ UNCHANGED <<lock, cur>>
  /\ UNCHANGED <<serverVars, ticking, tick, listVars, load, clientVars, fate, left>>

Due(e) == timer[e].expiry <= tick

\* Mutant: the handler that has reached the end of the list keeps the mutex.
TickWalkKeepsMutex(t) ==
  /\ tpc[t] = "walk"
  /\ \/ /\ cur[t] = PNULL
        /\ tpc' = [tpc EXCEPT ![t] = "idle"]
        /\ UNCHANGED <<lock, cur>>
     \/ /\ cur[t] # PNULL /\ Due(cur[t])
        /\ tpc' = [tpc EXCEPT ![t] = "send"]
        /\ UNCHANGED <<lock, cur>>
     \/ /\ cur[t] # PNULL /\ ~Due(cur[t])
        /\ cur' = [cur EXCEPT ![t] = NextOf(cur[t])]
        /\ UNCHANGED <<lock, tpc>>
  /\ UNCHANGED <<serverVars, ticking, tick, listVars, load, clientVars, fate, left>>

TickWalk(t) ==
  /\ tpc[t] = "walk"
  /\ \/ /\ cur[t] = PNULL                     \* end of the list: unlock
        /\ lock' = "none"
        /\ tpc' = [tpc EXCEPT ![t] = "idle"]
        /\ UNCHANGED cur
     \/ /\ cur[t] # PNULL /\ Due(cur[t])
        /\ tpc' = [tpc EXCEPT ![t] = "send"]
        /\ UNCHANGED <<lock, cur>>
     \/ /\ cur[t] # PNULL /\ ~Due(cur[t])
        /\ cur' = [cur EXCEPT ![t] = NextOf(cur[t])]
        /\ UNCHANGED <<lock, tpc>>
  /\ UNCHANGED <<serverVars, ticking, tick, listVars, load, clientVars, fate, left>>

\* sendTimerExpiryMsg: a client that is not listening refuses, one whose
\* backlog stays full makes connect() time out.  The result is ignored.
SendTimerExpiryMsg(e, outcome) ==
  LET p == timer[e].port IN
  \/ /\ outcome = "expired"
     /\ p \in open /\ Len(mail[p]) < Backlog
     /\ mail' = [mail EXCEPT ![p] = Append(@, timer[e].serial)]
  \/ /\ outcome = "lost"
     /\ p \notin open \/ Len(mail[p]) = Backlog
     /\ UNCHANGED mail

\* Mutant: the timer is not freed once its message is sent.
TickSendKeeps(t) ==
  /\ tpc[t] = "send"
  /\ \E outcome \in {"expired", "lost"} :
       /\ SendTimerExpiryMsg(cur[t], outcome)
       /\ fate' = [fate EXCEPT ![timer[cur[t]].serial] = outcome]
  /\ cur' = [cur EXCEPT ![t] = NextOf(cur[t])]
  /\ tpc' = [tpc EXCEPT ![t] = "walk"]
  /\ UNCHANGED <<serverVars, ticking, tick, lock, listVars, load, open, left>>

TickSend(t) ==
  /\ tpc[t] = "send"
  /\ \E outcome \in {"expired", "lost"} :
       /\ SendTimerExpiryMsg(cur[t], outcome)
       /\ fate' = [fate EXCEPT ![timer[cur[t]].serial] = outcome]
  /\ FreeTimerUnprotected(cur[t])
  /\ cur' = [cur EXCEPT ![t] = NextOf(cur[t])]
  /\ tpc' = [tpc EXCEPT ![t] = "walk"]
  /\ UNCHANGED <<serverVars, ticking, tick, lock, load, open, left>>

TickStep(t) ==
  TickStore(t) \/ TickTryLock(t) \/ TickWalk(t) \/ TickSend(t)

(***************************************************************************)
(* The clients.  RoboOne starts the timer server before every other server *)
(* and stops it last; a client then goes away with timers still running.   *)
(***************************************************************************)
Connect(r) ==
  /\ Alive /\ Len(backlog) < Backlog
  /\ backlog' = Append(backlog, r)
  /\ UNCHANGED <<mpc, msg, ticking, tick, lock, listVars, tickVars, clientVars>>

SendStartTimer(r) ==
  /\ ticking /\ r.port \in open
  /\ tick < MaxTick                           \* bound on the clock
  /\ fate[r.serial] = "none"
  /\ fate' = [fate EXCEPT ![r.serial] = "requested"]
  /\ Connect(r) /\ UNCHANGED left

SendStopTimer(r) ==
  /\ ticking /\ r.port \in open
  /\ Connect(r) /\ UNCHANGED <<fate, left>>

StopTimerServer ==
  /\ ticking /\ mpc \in {"accept", "wantAlloc", "holdAlloc", "wantStop", "holdStop"}
  /\ \A r \in ToSet(backlog) : r.type # "serverStop"
  /\ Connect([type |-> "serverStop"]) /\ UNCHANGED <<fate, left>>

\* The client accepts the connection and reads the expiry message.
TakeExpiryMsg(p) ==
  /\ mail[p] # <<>>
  /\ mail' = [mail EXCEPT ![p] = Tail(@)]
  /\ UNCHANGED <<serverVars, ticking, tick, lock, listVars, tickVars, open, fate, left>>

ClientExit(p) ==
  /\ p \in open
  /\ open' = open \ {p} /\ mail' = [mail EXCEPT ![p] = <<>>]
  /\ UNCHANGED <<serverVars, ticking, tick, lock, listVars, tickVars, fate, left>>

ClientStep ==
  \/ \E r \in StartReq : SendStartTimer(r)
  \/ \E r \in StopReq : SendStopTimer(r)
  \/ StopTimerServer
  \/ \E p \in Port : TakeExpiryMsg(p) \/ ClientExit(p)

Next ==
  \/ ServerStep
  \/ \E t \in Ticker : TickFire(t) \/ TickStep(t)
  \/ ClientStep

Spec == Init /\ [][Next]_vars

(***************************************************************************)
(* The threads run and the OS timer keeps firing; nothing is assumed of    *)
(* the clients, and the mutex is not assumed to be fair.                   *)
(***************************************************************************)
Fairness ==
  /\ WF_vars(ServerStep)
  /\ \A t \in Ticker : WF_vars(TickFire(t)) /\ WF_vars(TickStep(t))

FairSpec == Spec /\ Fairness

(***************************************************************************)
(* Type invariant of the module.                                           *)
(***************************************************************************)
MsgPc == {"accept", "wantAlloc", "holdAlloc", "wantStop", "holdStop", "wantFree",
          "holdFree", "wantDelete", "holdDelete", "exiting", "exited", "aborted"}
TickPc == {"idle", "loaded", "trylock", "walk", "send"}
Fate == {"none", "requested", "armed"} \cup Final

ServerTypeOK ==
  /\ mpc \in MsgPc
  /\ msg \in Request \cup {NoMsg}
  /\ backlog \in Seq(Request)
  /\ ticking \in BOOLEAN
  /\ tick \in Nat
  /\ lock \in Ticker \cup {"none", "server"}
  /\ free \in Seq(Entry) /\ used \in Seq(Entry)
  /\ timer \in [Entry -> Timer]
  /\ tpc \in [Ticker -> TickPc]
  /\ load \in [Ticker -> Nat]
  /\ cur \in [Ticker -> Entry \cup {PNULL}]
  /\ open \in SUBSET Port
  /\ fate \in [Serial -> Fate]
  /\ left \in [Serial -> Nat]

\* What arrives at a client is the message of a timer somebody started.
TypeOK == ServerTypeOK /\ mail \in [Port -> Seq(Serial)]

(***************************************************************************)
(* Safety.                                                                 *)
(***************************************************************************)
\* Every entry malloc()ed at the start is in exactly one of the two lists,
\* once: no sequence of starts, stops and expiries, with any number of tick
\* threads about, leaks an entry or links it twice.
EntriesConserved ==
  /\ IsInjective(free) /\ IsInjective(used)
  /\ ToSet(free) \cap ToSet(used) = {}
  /\ ticking => Len(free) + Len(used) = Cardinality(Entry)

\* The used list is in order of expiry, the soonest first, whatever the
\* racing counter read by allocTimer was (sortUsedListUnprotected).
UsedSorted ==
  \A i, j \in 1..Len(used) :
     i < j => timer[used[i]].expiry <= timer[used[j]].expiry

\* A tick thread that walks the list holds the mutex and stands on an entry
\* of the used list: nobody frees or unlinks the entry under its feet, not
\* even actionTimerServerStop, which free()s the memory, and the assertion
\* of freeTimerUnprotected (the timer must exist) cannot fire.
NoUseAfterFree ==
  \A t \in Ticker : tpc[t] \in {"walk", "send"} =>
     /\ lock = t
     /\ cur[t] \in ToSet(used) \cup {PNULL}
     /\ tpc[t] = "send" => cur[t] # PNULL

\* The memory of the table: none lost, none linked twice, none touched once it
\* is freed, with ticks that overlap and a stop in the middle of one.
MemoryKept == EntriesConserved /\ NoUseAfterFree

\* A request whose timer was allocated and has not ended occupies exactly
\* one entry of the used list, and every entry there belongs to one.
Accounted ==
  /\ \A e \in ToSet(used) :
        timer[e] # NoTimer /\ fate[timer[e].serial] = "armed"
  /\ \A e, f \in ToSet(used) : timer[e].serial = timer[f].serial => e = f
  /\ \A s \in Serial : fate[s] = "armed" =>
        \E e \in ToSet(used) : timer[e].serial = s

(***************************************************************************)
(* The abstract lists.                                                     *)
(***************************************************************************)
Lists == INSTANCE TimerLists
  WITH expiry <- [e \in Entry |-> timer[e].expiry],
       MAX_NUM_TIMERS <- Cardinality(Entry), MaxExpiry <- 2 * Horizon

\* However requests, ticks and the stop of the server interleave, what they
\* do to the lists is one of the operations TimerLists allows: the lists are
\* created once, from nothing, and destroyed only when no timer is left.
ImplementsLists == Lists!Spec

(***************************************************************************)
(* What the invariants above need to be inductive.                         *)
(***************************************************************************)
\* The mutex is held by exactly the thread that is inside its region.
LockInv ==
  /\ \A t \in Ticker : tpc[t] \in {"walk", "send"} <=> lock = t
  /\ lock = "server" <=> mpc \in {"holdAlloc", "holdStop", "holdFree", "holdDelete"}

\* The message loop works on the request it dispatched on.
PhaseInv ==
  /\ mpc \in {"wantAlloc", "holdAlloc"} => msg.type = "start"
  /\ mpc \in {"wantStop", "holdStop"} => msg.type = "stop"

\* The start of the server is the first thing it is asked.
StartInv ==
  \A i \in 1..Len(backlog) : backlog[i].type = "serverStart" =>
     i = 1 /\ ~ticking /\ used = <<>> /\ mpc \in {"accept", "aborted"}

\* A start request is in one place until its timer is allocated.
RequestInv ==
  /\ \A i \in 1..Len(backlog) : backlog[i].type = "start" =>
        fate[backlog[i].serial] = "requested"
  /\ \A i, j \in 1..Len(backlog) :
        /\ backlog[i].type = "start" /\ backlog[j].type = "start"
        /\ backlog[i].serial = backlog[j].serial
        => i = j
  /\ mpc \in {"wantAlloc", "holdAlloc"} =>
        /\ fate[msg.serial] = "requested"
        /\ \A i \in 1..Len(backlog) :
              backlog[i].type = "start" => backlog[i].serial # msg.serial

\* An expiry message goes out only for a timer that runs at that moment:
\* never after actionTimerStop freed it, never twice.
ExpiryOnlyWhenArmed ==
  [][\A p \in Port : Len(mail'[p]) > Len(mail[p]) =>
        fate[Last(mail'[p])] = "armed" /\ fate'[Last(mail'[p])] # "armed"]_vars

Deadline(s) ==
  LET i == CHOOSE i \in 1..Len(used) : timer[used[i]].serial = s
  IN  timer[used[i]].expiry

\* While tick handlers do not overlap, timers end in the order of their
\* deadlines, across clients and across ticks skipped for the mutex: none
\* expires while one that is due before it still runs.  None ends more than
\* one OS tick early: the counter allocTimer reads outside the handler's
\* protection lags by at most the tick being handled.
EndsOnTime ==
  [][\A s \in Serial : fate[s] = "armed" /\ fate'[s] \in {"expired", "lost"} =>
        /\ left[s] <= 1
        /\ \A r \in Serial : fate[r] = "armed" => Deadline(s) <= Deadline(r)]_vars

(***************************************************************************)
(* Liveness.                                                               *)
(***************************************************************************)
\* Once the clients leave the server alone (it skips a tick each time a
\* request holds the mutex), every running timer comes to its end, although
\* clients may be gone or never read their messages.
QuietTimersEnd ==
  <>[](mpc = "accept") => \A s \in Serial : fate[s] = "armed" ~> fate[s] \in Final
=============================================================================
