------------------------------ MODULE TimerLists ------------------------------
(***************************************************************************)
(* What the timer server's two linked lists (timer/src/timer_server.c)     *)
(* promise to those who use them: a fixed number of entries, each free or  *)
(* in use, and the used ones in the order they expire.                     *)
(*                                                                         *)
(* TimerServer and TimerLinks both implement this module: the first        *)
(* concurrently, with sequences for lists, the second by pointers.         *)
(***************************************************************************)
EXTENDS Integers, Sequences, SequencesExt

CONSTANTS
  Entry,           \* the TimerEntry blocks
  MAX_NUM_TIMERS,  \* how many there are
  MaxExpiry        \* the last tick a timer may expire at

VARIABLES
  free,       \* the entries at pgFreeTimerListHead
  used,       \* those at pgUsedTimerListHead
  expiry      \* expiryTimeDeciSeconds of each

vars == <<free, used, expiry>>

Unused == [e \in Entry |-> 0]

Init == free = <<>> /\ used = <<>> /\ expiry = Unused

\* actionTimerServerStart: all entries become free.
Create ==
  /\ free = <<>> /\ used = <<>>
  /\ free' \in Seq(Entry) /\ IsInjective(free') /\ Len(free') = MAX_NUM_TIMERS
  /\ UNCHANGED <<used, expiry>>

\* Position i is behind every timer that is due no later than x.
BelongsAt(i, x) ==
  /\ \A j \in 1..i-1 : expiry[used[j]] <= x
  /\ \A j \in i..Len(used) : expiry[used[j]] > x

\* allocTimer.
Put(x) ==
  /\ free # <<>> /\ free' = Front(free)
  /\ \E i \in 1..Len(used)+1 :
       BelongsAt(i, x) /\ used' = InsertAt(used, i, Last(free))
  /\ expiry' = [expiry EXCEPT ![Last(free)] = x]

\* freeTimerUnprotected.
Take(i) ==
  /\ used' = RemoveAt(used, i)
  /\ free' = Append(free, used[i])
  /\ expiry' = [expiry EXCEPT ![used[i]] = 0]

\* freeAllTimers.
TakeAll ==
  /\ free' = free \o used /\ used' = <<>>
  /\ expiry' = Unused

\* actionTimerServerStop, after freeAllTimers.
Destroy ==
  /\ used = <<>> /\ free' = <<>>
  /\ UNCHANGED <<used, expiry>>

Next ==
  \/ Create \/ TakeAll \/ Destroy
  \/ \E x \in 0..MaxExpiry : Put(x)
  \/ \E i \in 1..Len(used) : Take(i)

Spec == Init /\ [][Next]_vars
=============================================================================
