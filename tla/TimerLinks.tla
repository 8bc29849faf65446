------------------------------ MODULE TimerLinks ------------------------------
(***************************************************************************)
(* The doubly linked lists of the timer server (timer/src/timer_server.c), *)
(* pointer by pointer: how entries are linked, unlinked, moved between the *)
(* two lists and sorted.                                                   *)
(*                                                                         *)
(* The mutex lets one thread at a time at the lists: what it is doing is   *)
(* an operation that runs loop iteration by loop iteration.  TimerServer   *)
(* says which thread comes when, and which timers a client stops.          *)
(***************************************************************************)
EXTENDS Integers, Sequences, FiniteSets, SequencesExt, Links

CONSTANTS
  Entry,     \* MAX_NUM_TIMERS blocks
  Period,    \* periods that are asked for
  MaxPeriod, \* the largest expiryDeciSeconds, a UInt32
  MaxTick,   \* bound on the clock
  PNULL

ASSUME TimerLinksAssumption ==
  /\ IsFiniteSet(Entry) /\ PNULL \notin Entry
  /\ MaxPeriod \in Nat /\ Period \subseteq 0..MaxPeriod /\ MaxTick \in Nat

MAX_NUM_TIMERS == Cardinality(Entry)

VARIABLES
  doing,     \* the operation under way
  pEntry,    \* its loop's pEntry ...
  x,         \* ... and count
  begun,     \* the tick at which the walk began
  blocks,    \* what is malloc()ed and not yet free()d
  freeHead,  \* pgFreeTimerListHead
  usedHead,  \* pgUsedTimerListHead
  next,      \* pNextEntry of each entry
  prev,      \* pPrevEntry
  expiry,    \* timer.expiryTimeDeciSeconds
  tick,      \* gTimerTickDeciSeconds
  stopped    \* freeAllTimers has run

loopVars == <<doing, pEntry, x, begun>>
linkVars == <<freeHead, usedHead, next, prev, expiry>>
vars == <<doing, pEntry, x, begun, blocks, freeHead, usedHead, next, prev,
          expiry, tick, stopped>>

Pointer == Entry \cup {PNULL}

Init ==
  /\ doing = "create" /\ pEntry = PNULL /\ x = 0 /\ begun = 0
  /\ blocks = {} /\ freeHead = PNULL /\ usedHead = PNULL
  /\ next = [e \in Entry |-> PNULL] /\ prev = [e \in Entry |-> PNULL]
  /\ expiry = [e \in Entry |-> 0]
  /\ tick = 0 /\ stopped = FALSE

\* The entries from head on, as the code's loops go through them.
Chain(head) == Following(head, next, PNULL, MAX_NUM_TIMERS)

LastOf(head) == IF head = PNULL THEN PNULL ELSE Last(Chain(head))

\* p->field = e, if p is not PNULL.
Put(field, p, e) == IF p = PNULL THEN field ELSE [field EXCEPT ![p] = e]

(***************************************************************************)
(* actionTimerServerStart: a block is linked behind the others.            *)
(***************************************************************************)
Malloc(e) ==
  /\ doing = "create" /\ e \notin blocks
  /\ blocks' = blocks \cup {e}
  /\ next' = Put([next EXCEPT ![e] = PNULL], LastOf(freeHead), e)
  /\ prev' = [prev EXCEPT ![e] = LastOf(freeHead)]
  /\ freeHead' = IF freeHead = PNULL THEN e ELSE freeHead
  /\ doing' = IF blocks' = Entry THEN "nothing" ELSE "create"
  /\ UNCHANGED <<pEntry, x, begun, usedHead, expiry, tick, stopped>>

MallocFails ==
  /\ doing = "create" /\ doing' = "aborted"
  /\ UNCHANGED <<pEntry, x, begun, blocks, linkVars, tick, stopped>>

(***************************************************************************)
(* allocTimer: the last free entry goes to the end of the used list, and   *)
(* the list is sorted.                                                     *)
(***************************************************************************)
Deadline(period) == tick + period

AllocTimer(period) ==
  /\ doing = "nothing" /\ ~stopped /\ freeHead # PNULL
  /\ LET pWantedEntry == LastOf(freeHead)
         last == LastOf(usedHead)
     IN /\ freeHead' = IF pWantedEntry = freeHead THEN PNULL ELSE freeHead
        /\ usedHead' = IF usedHead = PNULL THEN pWantedEntry ELSE usedHead
        /\ next' = Put([Put(next, prev[pWantedEntry], next[pWantedEntry])
                          EXCEPT ![pWantedEntry] = PNULL],
                       last, pWantedEntry)
        /\ prev' = [prev EXCEPT ![pWantedEntry] = last]
        /\ expiry' = [expiry EXCEPT ![pWantedEntry] = Deadline(period)]
  /\ doing' = "sort" /\ pEntry' = usedHead' /\ x' = 0
  /\ UNCHANGED <<begun, blocks, tick, stopped>>

\* There is no free entry: actionTimerStart asserts.
AllocTimerFails ==
  /\ doing = "nothing" /\ ~stopped /\ freeHead = PNULL
  /\ doing' = "aborted"
  /\ UNCHANGED <<pEntry, x, begun, blocks, linkVars, tick, stopped>>

(***************************************************************************)
(* sortUsedListUnprotected: one iteration.                                 *)
(***************************************************************************)
\* Mutant: what follows the two is not linked back.
SwapForgetsBack(this, behind) ==
  /\ next' = [Put(next, prev[this], behind)
                EXCEPT ![this] = next[behind], ![behind] = this]
  /\ prev' = [prev EXCEPT ![behind] = prev[this], ![this] = behind]
  /\ usedHead' = IF this = usedHead THEN behind ELSE usedHead

Swap(this, behind) ==
  /\ next' = [Put(next, prev[this], behind)
                EXCEPT ![this] = next[behind], ![behind] = this]
  /\ prev' = [Put(prev, next[behind], this)
                EXCEPT ![behind] = prev[this], ![this] = behind]
  /\ usedHead' = IF this = usedHead THEN behind ELSE usedHead

\* Mutant: as many iterations as there are timers.
SortBoundLinear == MAX_NUM_TIMERS

SortBound == MAX_NUM_TIMERS * MAX_NUM_TIMERS

OutOfOrder(e) == next[e] # PNULL /\ expiry[e] > expiry[next[e]]

SortUsedList ==
  /\ doing = "sort" /\ pEntry # PNULL /\ x < SortBound
  /\ \/ /\ OutOfOrder(pEntry)
        /\ Swap(pEntry, next[pEntry])
        /\ pEntry' = usedHead'                    \* from the beginning again
     \/ /\ ~OutOfOrder(pEntry)
        /\ pEntry' = next[pEntry]
        /\ UNCHANGED <<next, prev, usedHead>>
  /\ x' = x + 1
  /\ UNCHANGED <<doing, begun, blocks, freeHead, expiry, tick, stopped>>

SortEnds ==
  /\ doing = "sort"
  /\ pEntry = PNULL \/ x >= SortBound
  /\ doing' = "nothing" /\ pEntry' = PNULL /\ x' = 0
  /\ UNCHANGED <<begun, blocks, linkVars, tick, stopped>>

(***************************************************************************)
(* freeTimerUnprotected: e, an entry of the used list, is unlinked and put *)
(* at the end of the free list.                                            *)
(***************************************************************************)
FreeTimerUnprotected(e) ==
  LET last == LastOf(freeHead) IN
  /\ expiry' = [expiry EXCEPT ![e] = 0]
  /\ usedHead' = IF e = usedHead THEN next[e] ELSE usedHead
  /\ freeHead' = IF freeHead = PNULL THEN e ELSE freeHead
  /\ next' = Put([Put(next, prev[e], next[e]) EXCEPT ![e] = PNULL], last, e)
  /\ prev' = [Put(prev, next[e], prev[e]) EXCEPT ![e] = last]

\* actionTimerStop, of whichever timer the request is about.
ActionTimerStop(e) ==
  /\ doing = "nothing" /\ ~stopped
  /\ e \in ToSet(Chain(usedHead))
  /\ FreeTimerUnprotected(e)
  /\ UNCHANGED <<loopVars, blocks, tick, stopped>>

(***************************************************************************)
(* tickHandlerCallback, from the moment it has the mutex.                  *)
(***************************************************************************)
TickStarts ==
  /\ doing = "nothing" /\ doing' = "walk"
  /\ pEntry' = usedHead /\ x' = 0 /\ begun' = tick
  /\ UNCHANGED <<blocks, linkVars, tick, stopped>>

\* Mutant: the next entry is looked up after this one has been freed.
TickWalkFreesFirst ==
  /\ doing = "walk" /\ pEntry # PNULL /\ x < MAX_NUM_TIMERS
  /\ \/ /\ expiry[pEntry] <= tick
        /\ FreeTimerUnprotected(pEntry)
        /\ pEntry' = next'[pEntry]
     \/ /\ expiry[pEntry] > tick
        /\ pEntry' = next[pEntry]
        /\ UNCHANGED linkVars
  /\ x' = x + 1
  /\ UNCHANGED <<doing, begun, blocks, tick, stopped>>

TickWalk ==
  /\ doing = "walk" /\ pEntry # PNULL /\ x < MAX_NUM_TIMERS
  /\ pEntry' = next[pEntry]
  /\ \/ expiry[pEntry] <= tick /\ FreeTimerUnprotected(pEntry)
     \/ expiry[pEntry] > tick /\ UNCHANGED linkVars
  /\ x' = x + 1
  /\ UNCHANGED <<doing, begun, blocks, tick, stopped>>

TickEnds ==
  /\ doing = "walk"
  /\ pEntry = PNULL \/ x >= MAX_NUM_TIMERS
  /\ doing' = "nothing" /\ pEntry' = PNULL /\ x' = 0 /\ begun' = 0
  /\ UNCHANGED <<blocks, linkVars, tick, stopped>>

(***************************************************************************)
(* actionTimerServerStop: freeAllTimers, and then, under the mutex again,  *)
(* free() of every block.                                                  *)
(***************************************************************************)
FreeAllStarts ==
  /\ doing = "nothing" /\ ~stopped /\ doing' = "freeAll"
  /\ pEntry' = usedHead /\ x' = 0
  /\ UNCHANGED <<begun, blocks, linkVars, tick, stopped>>

FreeAllTimers ==
  /\ doing = "freeAll" /\ pEntry # PNULL /\ x < MAX_NUM_TIMERS
  /\ pEntry' = next[pEntry]
  /\ FreeTimerUnprotected(pEntry)
  /\ x' = x + 1
  /\ UNCHANGED <<doing, begun, blocks, tick, stopped>>

FreeAllEnds ==
  /\ doing = "freeAll"
  /\ pEntry = PNULL \/ x >= MAX_NUM_TIMERS
  /\ usedHead' = PNULL
  /\ doing' = "nothing" /\ pEntry' = PNULL /\ x' = 0 /\ stopped' = TRUE
  /\ UNCHANGED <<begun, blocks, freeHead, next, prev, expiry, tick>>

DestroyStarts ==
  /\ doing = "nothing" /\ stopped /\ doing' = "destroy"
  /\ pEntry' = freeHead /\ x' = 0
  /\ UNCHANGED <<begun, blocks, linkVars, tick, stopped>>

FreeBlock ==
  /\ doing = "destroy" /\ pEntry # PNULL /\ x < MAX_NUM_TIMERS
  /\ pEntry' = next[pEntry]
  /\ blocks' = blocks \ {pEntry}
  /\ x' = x + 1
  /\ UNCHANGED <<doing, begun, linkVars, tick, stopped>>

DestroyEnds ==
  /\ doing = "destroy"
  /\ pEntry = PNULL \/ x >= MAX_NUM_TIMERS
  /\ freeHead' = PNULL
  /\ doing' = "gone" /\ pEntry' = PNULL /\ x' = 0
  /\ UNCHANGED <<begun, blocks, usedHead, next, prev, expiry, tick, stopped>>

\* The counter goes up without the mutex.
Tick ==
  /\ doing \notin {"create", "gone", "aborted"}
  /\ tick < MaxTick /\ tick' = tick + 1
  /\ UNCHANGED <<loopVars, blocks, linkVars, stopped>>

Next ==
  \/ \E e \in Entry : Malloc(e) \/ ActionTimerStop(e)
  \/ MallocFails
  \/ \E period \in Period : AllocTimer(period)
  \/ AllocTimerFails \/ SortUsedList \/ SortEnds
  \/ TickStarts \/ TickWalk \/ TickEnds \/ Tick
  \/ FreeAllStarts \/ FreeAllTimers \/ FreeAllEnds
  \/ DestroyStarts \/ FreeBlock \/ DestroyEnds

Spec == Init /\ [][Next]_vars

(***************************************************************************)
(* Type invariant of the module.                                           *)
(***************************************************************************)
TypeOK ==
  /\ doing \in {"create", "nothing", "sort", "walk", "freeAll", "destroy",
                "gone", "aborted"}
  /\ pEntry \in Pointer /\ x \in 0..SortBound /\ begun \in 0..MaxTick
  /\ blocks \in SUBSET Entry
  /\ freeHead \in Pointer /\ usedHead \in Pointer
  /\ next \in [Entry -> Pointer] /\ prev \in [Entry -> Pointer]
  /\ expiry \in [Entry -> Nat]
  /\ tick \in 0..MaxTick /\ stopped \in BOOLEAN

(***************************************************************************)
(* The pointers implement the lists.  Sorting does not show: from the      *)
(* moment the new entry is linked in, the used list is the one that the    *)
(* sort is to produce.                                                     *)
(***************************************************************************)
\* The position in the sorted list of what is at position i of list.
Rank(list, i) ==
  Cardinality({j \in 1..Len(list) :
                 \/ expiry[list[j]] < expiry[list[i]]
                 \/ expiry[list[j]] = expiry[list[i]] /\ j <= i})

InOrder(list) ==
  [n \in 1..Len(list) |-> list[CHOOSE i \in 1..Len(list) : Rank(list, i) = n]]

\* A list that is being made or destroyed is nobody's yet, or any more.
FreeList ==
  IF blocks # Entry \/ doing = "destroy" THEN <<>> ELSE Chain(freeHead)

UsedList ==
  IF doing = "sort" THEN InOrder(Chain(usedHead)) ELSE Chain(usedHead)

Lists == INSTANCE TimerLists
  WITH free <- FreeList, used <- UsedList, MaxExpiry <- MaxTick + MaxPeriod

\* The pointer manipulations of allocTimer, freeTimerUnprotected and
\* sortUsedListUnprotected, iterations bounded by counts that must suffice,
\* keep every entry on one list, and the used list in the order of expiry.
ImplementsLists == Lists!Spec

(***************************************************************************)
(* Safety.                                                                 *)
(***************************************************************************)
\* Each entry's pPrevEntry is the one it follows: the code never goes back
\* along a list, so that a wrong one shows only when a later unlinking cuts
\* the list in the wrong place.  No pointer that could still be followed leads
\* to a block that was freed.
LinksSound ==
  /\ TypeOK
  /\ \A head \in {freeHead, usedHead} :
       LET list == Chain(head) IN
         doing \notin {"destroy", "gone"} =>
           \A i \in 1..Len(list) : prev[list[i]] = IF i = 1 THEN PNULL ELSE list[i-1]
  /\ pEntry # PNULL => pEntry \in blocks
  /\ ToSet(Chain(usedHead)) \subseteq blocks
  /\ doing # "destroy" => ToSet(Chain(freeHead)) \subseteq blocks

\* A tick that has the mutex sees every timer that was due when it began,
\* although it moves entries to the other list while it goes through this
\* one (tickHandlerCallback).
WalkTakesAllDue ==
  [][doing = "walk" /\ doing' # "walk" =>
       \A e \in ToSet(Chain(usedHead)) : expiry[e] > begun]_vars
=============================================================================
