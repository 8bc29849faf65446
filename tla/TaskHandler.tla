----------------------------- MODULE TaskHandler -----------------------------
(***************************************************************************)
(* The task handler server (RoboOneTaskHandler/src/task_handler.c): tasks  *)
(* that the state machine forwards wait in a linked list; a tick, sent by  *)
(* the monitor of RoboOne, does those not done yet, tells who asked, and   *)
(* walks the list to free the ones that are finished with.                 *)
(*                                                                         *)
(* The server takes one message at a time.  A tick takes as long as the    *)
(* Hindbrain takes over the strings it is sent, so it is a step for every  *)
(* entry of the list; the other messages are one step each.                *)
(***************************************************************************)
EXTENDS Integers, Sequences, FiniteSets, SequencesExt, Links

CONSTANTS
  Block,              \* what malloc() has for tasks
  Request,            \* the tasks that are asked for
  MAX_GUARD_COUNTER,  \* 150
  MaxTasks,           \* bound on the tasks sent
  MaxStarved,         \* bound on the results that malloc() has no room for
  Root,               \* gTaskListRoot
  PNULL

TaskReq == [headerPresent : BOOLEAN, protocol : {"HD", "MOTION"}]

ASSUME TaskHandlerAssumption ==
  /\ IsFiniteSet(Block) /\ Root \notin Block /\ PNULL \notin Block /\ Root # PNULL
  /\ Request \subseteq TaskReq
  /\ MAX_GUARD_COUNTER \in Nat \ {0} /\ MaxTasks \in Nat /\ MaxStarved \in Nat

VARIABLES
  doing,      \* what the server is at
  pThis,      \* pT and pThis of the loops ...
  pPrevious,  \* ... and pPrevious of walkTaskList
  next,       \* pNextTask of the root and of every block
  prev,       \* pPreviousTask of every block
  item,       \* the rest of every block
  malloced,   \* blocks malloc()ed and not free()d
  sent,       \* taskCounter of RoboOne: the handle of the next task
  accepted,   \* handles of the tasks that were confirmed, in order
  done,       \* handles of the tasks that were done, in order
  told,       \* indications that got through, in order
  starved     \* results that malloc() had no room for

list == <<next, prev, item, malloced>>
history == <<sent, accepted, done, told>>
vars == <<doing, pThis, pPrevious, next, prev, item, malloced,
          sent, accepted, done, told, starved>>

Handle == 0..MaxTasks-1
Result == {"SUCCESS", "SEND_FAILURE", "GENERAL_FAILURE"}
TaskItem == [handle : Handle, task : TaskReq, taskCompleted : BOOLEAN,
             pResult : Result \cup {PNULL}]
Stage == {"launched", "idle", "ticking", "walking", "stopped", "aborted",
          "undefined"}

\* The entries behind gTaskListRoot, in order.
Tasks == Following(next[Root], next, PNULL, Cardinality(Block))

LastTask == IF Tasks = <<>> THEN Root ELSE Last(Tasks)

Init ==
  /\ doing = "launched" /\ pThis = Root /\ pPrevious = Root
  /\ next = [p \in Block \cup {Root} |-> PNULL] /\ prev = [p \in Block |-> PNULL]
  /\ item = [p \in Block |-> PNULL] /\ malloced = {}
  /\ sent = 0 /\ accepted = <<>> /\ done = <<>> /\ told = <<>> /\ starved = 0

\* TASK_HANDLER_SERVER_START.
InitTaskList ==
  /\ doing = "launched" /\ doing' = "idle"
  /\ next' = [next EXCEPT ![Root] = PNULL]
  /\ UNCHANGED <<pThis, pPrevious, prev, item, malloced, history, starved>>

(***************************************************************************)
(* TASK_HANDLER_NEW_TASK, sent for the menu by the state machine.          *)
(***************************************************************************)
HandleNewTaskReq(req, p) ==
  /\ doing = "idle" /\ sent < MaxTasks /\ sent' = sent + 1
  /\ p \notin malloced /\ malloced' = malloced \cup {p}
  /\ item' = [item EXCEPT ![p] =
       [handle |-> sent, task |-> req, taskCompleted |-> FALSE, pResult |-> PNULL]]
  \* addTaskToList counts the entries it passes
  /\ IF Len(Tasks) < MAX_GUARD_COUNTER
     THEN /\ prev' = [prev EXCEPT ![p] = LastTask]
          /\ next' = [next EXCEPT ![p] = PNULL, ![LastTask] = p]
          /\ accepted' = Append(accepted, sent)
          /\ UNCHANGED doing
     ELSE doing' = "aborted" /\ UNCHANGED <<prev, next, accepted>>
  /\ UNCHANGED <<pThis, pPrevious, done, told, starved>>

NewTaskReqFails ==
  /\ doing = "idle" /\ sent < MaxTasks /\ sent' = sent + 1
  /\ UNCHANGED <<doing, pThis, pPrevious, list, accepted, done, told, starved>>

(***************************************************************************)
(* TASK_HANDLER_TICK.                                                      *)
(***************************************************************************)
\* walkTaskList (false, false) counts the entries for the debug print.
TickTaskHandler ==
  /\ doing = "idle"
  /\ doing' = IF Len(Tasks) < MAX_GUARD_COUNTER THEN "ticking" ELSE "aborted"
  /\ pThis' = Root
  /\ UNCHANGED <<pPrevious, list, history, starved>>

\* What the handler of the protocol can make of a task.
Outcome(task) == IF task.protocol = "HD" THEN Result ELSE {"GENERAL_FAILURE"}

\* Mutant: the indication is sent before the task is done, too.
DoTaskCompletedEarly(p, completed, res) ==
  /\ item' = [item EXCEPT ![p].taskCompleted = completed, ![p].pResult = PNULL]
  /\ told' \in {told, Append(told, [handle |-> item[p].handle, result |->
                  IF res = PNULL THEN "GENERAL_FAILURE" ELSE res])}

\* doTaskCompleted, for an entry whose pResult is res: an indication is sent,
\* whether it gets there or not, and the result is freed.
DoTaskCompleted(p, completed, res) ==
  LET asked == item[p].task.headerPresent /\ res # PNULL
  IN  /\ item' = [item EXCEPT ![p].taskCompleted = completed,
                              ![p].pResult = IF asked THEN PNULL ELSE res]
      /\ told' \in {told} \cup
           (IF asked THEN {Append(told, [handle |-> item[p].handle, result |-> res])}
            ELSE {})

\* Mutant: a task is only done once its result was sent.
DoTaskUnless ==
  /\ doing = "ticking" /\ next[pThis] # PNULL
  /\ LET p == next[pThis]
     IN  /\ ~item[p].taskCompleted
         /\ pThis' = p
         /\ \E res \in Outcome(item[p].task) : DoTaskCompleted(p, res = "SUCCESS", res)
         /\ done' = Append(done, item[p].handle)
  /\ UNCHANGED <<doing, pPrevious, next, prev, malloced, sent, accepted, starved>>

\* doHDTask, doMotionTask: result is malloc()ed, then the task is done.
DoTask ==
  /\ doing = "ticking" /\ next[pThis] # PNULL
  /\ LET p == next[pThis]
     IN  /\ ~item[p].taskCompleted
         /\ pThis' = p
         /\ \E res \in Outcome(item[p].task) : DoTaskCompleted(p, TRUE, res)
         /\ done' = Append(done, item[p].handle)
  /\ UNCHANGED <<doing, pPrevious, next, prev, malloced, sent, accepted, starved>>

\* Mutant: a task whose result there is no room for counts as completed.
DoTaskFailsForGood ==
  /\ doing = "ticking" /\ next[pThis] # PNULL
  /\ LET p == next[pThis]
     IN  ~item[p].taskCompleted /\ pThis' = p /\ DoTaskCompleted(p, TRUE, PNULL)
  /\ starved < MaxStarved /\ starved' = starved + 1
  /\ UNCHANGED <<doing, pPrevious, next, prev, malloced, sent, accepted, done>>

\* There is no room for the result: the task is left for the next tick.
DoTaskFails ==
  /\ doing = "ticking" /\ next[pThis] # PNULL
  /\ LET p == next[pThis]
     IN  ~item[p].taskCompleted /\ pThis' = p /\ DoTaskCompleted(p, FALSE, PNULL)
  /\ starved < MaxStarved /\ starved' = starved + 1
  /\ UNCHANGED <<doing, pPrevious, next, prev, malloced, sent, accepted, done>>

PassCompletedTask ==
  /\ doing = "ticking" /\ next[pThis] # PNULL
  /\ LET p == next[pThis]
     IN  item[p].taskCompleted /\ pThis' = p /\ DoTaskCompleted(p, TRUE, item[p].pResult)
  /\ UNCHANGED <<doing, pPrevious, next, prev, malloced, sent, accepted, done, starved>>

TasksDone ==
  /\ doing = "ticking" /\ next[pThis] = PNULL
  /\ doing' = "walking" /\ pThis' = next[Root] /\ pPrevious' = Root
  /\ UNCHANGED <<list, history, starved>>

(***************************************************************************)
(* walkTaskList (true, false).                                             *)
(***************************************************************************)
Unused(p) == item[p].taskCompleted /\ item[p].pResult = PNULL

\* free (): what a block held is gone (PNULL stands for whatever is there).
Free(blocks) ==
  /\ malloced' = malloced \ blocks
  /\ item' = [p \in Block |-> IF p \in blocks THEN PNULL ELSE item[p]]

\* Mutant: the entry behind still points back at what is freed.
RemoveTaskHalf ==
  /\ doing = "walking" /\ pThis # PNULL /\ Unused(pThis)
  /\ prev' = [prev EXCEPT ![pThis] = PNULL]
  /\ Free({pThis})
  /\ IF pPrevious = pThis
     THEN doing' = "undefined" /\ UNCHANGED <<pThis, next>>
     ELSE /\ next' = [next EXCEPT ![pPrevious] = next[pThis], ![pThis] = PNULL]
          /\ pThis' = next'[pPrevious] /\ UNCHANGED doing
  /\ UNCHANGED <<pPrevious, history, starved>>

\* Once the entry before it was kept, pPrevious is pThis itself: the link that
\* is mended is its own, and it is read after free ().
RemoveTask ==
  /\ doing = "walking" /\ pThis # PNULL /\ Unused(pThis)
  /\ prev' = [p \in Block |-> IF p = pThis THEN PNULL
                              ELSE IF p = next[pThis] THEN prev[pThis] ELSE prev[p]]
  /\ Free({pThis})
  /\ IF pPrevious = pThis
     THEN doing' = "undefined" /\ UNCHANGED <<pThis, next>>
     ELSE /\ next' = [next EXCEPT ![pPrevious] = next[pThis], ![pThis] = PNULL]
          /\ pThis' = next'[pPrevious] /\ UNCHANGED doing
  /\ UNCHANGED <<pPrevious, history, starved>>

KeepTask ==
  /\ doing = "walking" /\ pThis # PNULL /\ ~Unused(pThis)
  /\ pThis' = next[pThis] /\ pPrevious' = next[pThis]
  /\ UNCHANGED <<doing, list, history, starved>>

WalkDone ==
  /\ doing = "walking" /\ pThis = PNULL /\ doing' = "idle"
  /\ UNCHANGED <<pThis, pPrevious, list, history, starved>>

\* TASK_HANDLER_SERVER_STOP: walkTaskList (false, true), then the server ends.
ClearTaskList ==
  /\ doing = "idle"
  /\ doing' = IF Len(Tasks) < MAX_GUARD_COUNTER THEN "stopped" ELSE "aborted"
  /\ Free(Range(Tasks))
  /\ next' = [next EXCEPT ![Root] = PNULL]
  /\ UNCHANGED <<pThis, pPrevious, prev, history, starved>>

Ticking == DoTask \/ DoTaskFails \/ PassCompletedTask \/ TasksDone
Walking == RemoveTask \/ KeepTask \/ WalkDone

Next ==
  \/ InitTaskList \/ NewTaskReqFails
  \/ \E req \in Request, p \in Block : HandleNewTaskReq(req, p)
  \/ TickTaskHandler \/ Ticking \/ Walking \/ ClearTaskList

\* The loops run on; the monitor ticks after every window it updates, for as
\* long as it is shown.
Fairness == WF_vars(Ticking) /\ WF_vars(Walking) /\ WF_vars(TickTaskHandler)
            /\ WF_vars(InitTaskList)

Spec == Init /\ [][Next]_vars
FairSpec == Spec /\ Fairness

(***************************************************************************)
(* Properties.                                                             *)
(***************************************************************************)
Down == doing \in {"stopped", "aborted", "undefined"}
Pending == {item[p].handle : p \in {q \in Range(Tasks) : ~item[q].taskCompleted}}

\* The state of the server is of its types; nothing is believed of a freed block.
TypeOK ==
  /\ doing \in Stage /\ pThis \in Block \cup {Root, PNULL}
  /\ pPrevious \in Block \cup {Root, PNULL}
  /\ next \in [Block \cup {Root} -> Block \cup {PNULL}]
  /\ prev \in [Block -> Block \cup {Root, PNULL}]
  /\ item \in [Block -> TaskItem \cup {PNULL}] /\ malloced \subseteq Block
  /\ sent \in 0..MaxTasks /\ starved \in 0..MaxStarved
  /\ accepted \in Seq(Handle) /\ done \in Seq(Handle)
  /\ told \in Seq([handle : Handle, result : Result])

\* A task that was confirmed is waiting or was done, never both, and the
\* Hindbrain is given none twice, however often doing it was put off; the
\* oldest comes first unless there was once no room for the result of one
\* (handleNewTaskReq, tickTaskHandler).
NothingLostOrRepeated ==
  /\ ~Down => /\ IsInjective(done)
              /\ Range(done) \cap Pending = {}
              /\ Range(done) \cup Pending = Range(accepted)
  /\ starved = 0 => IsPrefix(done, accepted)

\* Who asked is told of a task once at most and only when it was done, in the
\* order they were done (doTaskCompleted).
ToldOnce ==
  \A n \in DOMAIN told :
    /\ told[n].handle \in Range(done)
    /\ \A m \in 1..n-1 : \E i, j \in DOMAIN done :
         i < j /\ done[i] = told[m].handle /\ done[j] = told[n].handle

\* The list holds what is malloc()ed, each entry linked both ways, and between
\* two messages none that is finished with.  Memory that was freed is read only
\* when the walk has passed an entry that stays: one that nobody asked to hear
\* of, or one that could not be done yet (addTaskToList, walkTaskList).
ListSound ==
  /\ TypeOK
  /\ ~Down => /\ malloced = Range(Tasks)
              /\ \A n \in DOMAIN Tasks :
                   prev[Tasks[n]] = IF n = 1 THEN Root ELSE Tasks[n-1]
  /\ doing = "idle" => \A p \in Range(Tasks) : ~Unused(p)
  /\ doing = "undefined" => \E p \in malloced : ~Unused(p)

\* While the monitor ticks, each task that was confirmed is done, unless the
\* server is stopped, reads freed memory, or ends by the assertion on a list of
\* MAX_GUARD_COUNTER entries: it took the last of them, and no tick gets past.
TasksAreDone ==
  \A h \in Handle :
    h \in Range(accepted) ~>
      \/ h \in Range(done) \/ doing \in {"stopped", "undefined"}
      \/ doing = "aborted" /\ Len(accepted) >= MAX_GUARD_COUNTER
=============================================================================
