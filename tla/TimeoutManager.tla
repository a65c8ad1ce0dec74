-------------------------- MODULE TimeoutManager --------------------------
(* TimeoutManager and its TimeoutTasks: the thread that takes the task due  *)
(* first from a priority queue and sleeps until it is due, and the threads  *)
(* that plan, replan and cancel tasks meanwhile.  A step is one access to   *)
(* the queue, one to guardedLock, or one to the fields of a task.           *)
(*                                                                          *)
(* Time is discrete and passes only while no thread has anything to do: a   *)
(* call of addTimerTask takes no time.  left is dueTime as seen from now.   *)
EXTENDS Integers, FiniteSets

CONSTANTS
  Task,
  timeout,        \* the constructor's argument of each task
  Caller,         \* the threads that call addTimerTask and cancel
  Holder,         \* the one of them that has the monitor of the Connection
  ManuallyRun,    \* the tasks that a handler also runs by executeManually
  CallsPerTick    \* bound: calls that begin in one unit of time

ASSUME TimeoutAssumption == timeout \in [Task -> Nat \ {0}]
ASSUME TaskAssumption == IsFiniteSet(Task) /\ Task # {} /\ IsFiniteSet(Caller)
ASSUME CallerAssumption == Holder \in Caller /\ ManuallyRun \subseteq Task
ASSUME CallsAssumption == CallsPerTick \in Nat

Longest == CHOOSE n \in {timeout[t] : t \in Task} :
             \A t \in Task : timeout[t] <= n

VARIABLES
  left,             \* dueTime less the current time, of each task
  scheduled,        \* the tasks whose dueTime is not 0
  canceled, done,   \* the tasks of which these are true
  queue,            \* how often each task is in the queue
  pc, adding, was,  \* each caller: where it is in addTimerTask, the task, and
                    \* what its left was before
  tm, current,      \* where the TimeoutManager is in run(), and currentTask
  sleep,            \* what is left of its wait(sleepMillis)
  calls             \* calls begun since time last passed

taskVars == <<left, scheduled, canceled, done>>
callerVars == <<pc, adding, was>>
tmVars == <<tm, current, sleep>>
vars == <<taskVars, queue, callerVars, tmVars, calls>>

AnyTask == CHOOSE t \in Task : TRUE

Init ==
  /\ left = [t \in Task |-> 0]
  /\ scheduled = {}
  /\ canceled = {}
  /\ done = {}
  /\ queue = [t \in Task |-> 0]
  /\ pc = [c \in Caller |-> "idle"]
  /\ adding = [c \in Caller |-> AnyTask]
  /\ was = [c \in Caller |-> 0]
  /\ tm = "take"
  /\ current = AnyTask
  /\ sleep = 0
  /\ calls = 0

isPlanned(t) == t \in scheduled \ (canceled \cup done)

equalsMutant(t, u) == left[t] = left[u]      \* as compareTo has it
(* TimeoutTask.equals, by which PriorityBlockingQueue.remove finds a task *)
equals(t, u) ==
  /\ left[t] = left[u] /\ timeout[t] = timeout[u]
  /\ t \in canceled <=> u \in canceled
  /\ t \in done <=> u \in done

----------------------------------------------------------------------------
(* The callers.  While the manager executes a task it holds the monitor:    *)
(* a call of Holder is then one that execute() makes.                       *)

UpdateDueTime(c, t) ==
  /\ pc[c] = "idle"
  /\ calls < CallsPerTick
  /\ pc' = [pc EXCEPT ![c] = "updated"]
  /\ adding' = [adding EXCEPT ![c] = t]
  /\ was' = [was EXCEPT ![c] = IF queue[t] > 0 THEN left[t] ELSE timeout[t]]
  /\ left' = [left EXCEPT ![t] = timeout[t]]
  /\ scheduled' = scheduled \cup {t}
  /\ canceled' = canceled \ {t}
  /\ done' = done \ {t}
  /\ calls' = calls + 1
  /\ UNCHANGED <<queue, tmVars>>

RemovedMutant(t) == {}      \* nothing removed
Removed(t) == {u \in Task : equals(t, u)}

RemoveDuplicates(c) ==
  /\ pc[c] = "updated"
  /\ pc' = [pc EXCEPT ![c] = "removed"]
  /\ queue' = [u \in Task |-> IF u \in Removed(adding[c]) THEN 0 ELSE queue[u]]
  /\ UNCHANGED <<taskVars, adding, was, tmVars, calls>>

AddToQueue(c) ==
  /\ pc[c] = "removed"
  /\ pc' = [pc EXCEPT ![c] = "added"]
  /\ queue' = [queue EXCEPT ![adding[c]] = @ + 1]
  /\ UNCHANGED <<taskVars, adding, was, tmVars, calls>>

(* notifyAll wakes a manager that waits; there is no other memory of it.    *)
(* What the caller no longer needs is forgotten.                            *)
NotifyLock(c) ==
  /\ pc[c] = "added"
  /\ pc' = [pc EXCEPT ![c] = "idle"]
  /\ adding' = [adding EXCEPT ![c] = AnyTask]
  /\ was' = [was EXCEPT ![c] = 0]
  /\ \/ tm = "waiting" /\ tm' = "take" /\ sleep' = 0
     \/ tm # "waiting" /\ UNCHANGED <<tm, sleep>>
  /\ UNCHANGED <<taskVars, queue, current, calls>>

(* Most handlers examine isPlanned() first; that of TESTFR_CON does not. *)
Cancel(c, t) ==
  /\ pc[c] = "idle"
  /\ calls < CallsPerTick
  /\ canceled' = canceled \cup {t}
  /\ calls' = calls + 1
  /\ UNCHANGED <<left, scheduled, done, queue, callerVars, tmVars>>

(* executeManually called by a handler: the task stays in the queue. *)
RunManually(t) ==
  /\ pc[Holder] = "idle" /\ tm # "executing"
  /\ t \in (ManuallyRun \cap scheduled) \ canceled
  /\ calls < CallsPerTick
  /\ done' = done \cup {t}
  /\ calls' = calls + 1
  /\ UNCHANGED <<left, scheduled, canceled, queue, callerVars, tmVars>>

----------------------------------------------------------------------------
(* The manager's run() *)

(* While a task in the queue is replanned, the heap may still be ordered by *)
(* the due time it had, or by its new one.                                  *)
Keys(t) ==
  {left[t]} \cup {was[c] : c \in {d \in Caller : pc[d] = "updated" /\ adding[d] = t}}
IsHead(t) ==
  \E k \in Keys(t) :
    \A u \in Task \ {t} : queue[u] > 0 => \E j \in Keys(u) : k <= j

Take(t) ==
  /\ tm = "take"
  /\ queue[t] > 0 /\ IsHead(t)
  /\ queue' = [queue EXCEPT ![t] = @ - 1]
  /\ current' = t
  /\ tm' = "check"
  /\ UNCHANGED <<taskVars, callerVars, sleep, calls>>

sleepTimeFromDueTimeMutant(t) == timeout[t]      \* from the start
sleepTimeFromDueTime(t) == left[t]

CheckDueTime ==
  LET s == sleepTimeFromDueTime(current)
  IN  /\ tm = "check"
      /\ \/ s > 0 /\ tm' = "put" /\ sleep' = s
         \/ s <= 0 /\ tm' = "ready" /\ UNCHANGED sleep
      /\ UNCHANGED <<taskVars, queue, callerVars, current, calls>>

PutBackMutant(t) == queue      \* as if take had only looked at it
PutBack(t) == [queue EXCEPT ![t] = @ + 1]
Put ==
  /\ tm = "put"
  /\ queue' = PutBack(current)
  /\ tm' = "wait"
  /\ UNCHANGED <<taskVars, callerVars, current, sleep, calls>>

Wait ==
  /\ tm = "wait"
  /\ tm' = "waiting"
  /\ UNCHANGED <<taskVars, queue, callerVars, current, sleep, calls>>

WaitEnds ==
  /\ tm = "waiting" /\ sleep = 0
  /\ tm' = "take"
  /\ UNCHANGED <<taskVars, queue, callerVars, current, sleep, calls>>

(* executeManually: canceled is read, execute() gets the monitor, gives it  *)
(* back, and done is set.                                                   *)
ReadCanceled ==
  /\ tm = "ready"
  /\ tm' = IF current \in canceled THEN "take" ELSE "entering"
  /\ UNCHANGED <<taskVars, queue, callerVars, current, sleep, calls>>

Enter ==
  /\ tm = "entering" /\ pc[Holder] = "idle"
  /\ tm' = "executing"
  /\ UNCHANGED <<taskVars, queue, callerVars, current, sleep, calls>>

Leave ==
  /\ tm = "executing" /\ pc[Holder] = "idle"
  /\ tm' = "ran"
  /\ UNCHANGED <<taskVars, queue, callerVars, current, sleep, calls>>

SetDone ==
  /\ tm = "ran"
  /\ done' = done \cup {current}
  /\ tm' = "take"
  /\ UNCHANGED <<left, scheduled, canceled, queue, callerVars, current, sleep,
                 calls>>

----------------------------------------------------------------------------
(* Time.  left is followed only of tasks in the queue, and not past         *)
(* -MaxDelay.                                                               *)
MaxDelay == Longest * (Cardinality(Task) - 1)

Blocked ==
  \/ tm = "waiting" /\ sleep > 0
  \/ tm = "take" /\ \A t \in Task : queue[t] = 0

Tick ==
  /\ Blocked
  /\ \A c \in Caller : pc[c] = "idle"
  /\ left' = [t \in Task |-> IF queue[t] > 0 /\ left[t] >= - MaxDelay
                            THEN left[t] - 1 ELSE left[t]]
  /\ sleep' = IF tm = "waiting" THEN sleep - 1 ELSE sleep
  /\ calls' = 0
  /\ UNCHANGED <<scheduled, canceled, done, queue, callerVars, tm, current>>

ManagerThread ==
  \/ \E t \in Task : Take(t)
  \/ CheckDueTime
  \/ Put
  \/ Wait
  \/ WaitEnds
  \/ ReadCanceled
  \/ Enter
  \/ Leave
  \/ SetDone

Adding(c) == RemoveDuplicates(c) \/ AddToQueue(c) \/ NotifyLock(c)

Next ==
  \/ ManagerThread
  \/ \E c \in Caller :
       \/ Adding(c)
       \/ \E t \in Task : UpdateDueTime(c, t) \/ Cancel(c, t)
  \/ \E t \in Task : RunManually(t)
  \/ Tick

Spec == Init /\ [][Next]_vars

(* The threads run and time passes; nobody has to call anything. *)
Fairness ==
  /\ WF_vars(ManagerThread)
  /\ \A c \in Caller : WF_vars(Adding(c))
  /\ WF_vars(Tick)

FairSpec == Spec /\ Fairness

----------------------------------------------------------------------------
(* Properties *)

(* Every variable has the values it can have.                               *)
TypeOK ==
  /\ left \in [Task -> Int]
  /\ scheduled \subseteq Task /\ canceled \subseteq Task /\ done \subseteq Task
  /\ queue \in [Task -> Nat]
  /\ pc \in [Caller -> {"idle", "updated", "removed", "added"}]
  /\ adding \in [Caller -> Task]
  /\ was \in [Caller -> Int]
  /\ tm \in {"take", "check", "put", "wait", "waiting", "ready", "entering",
             "executing", "ran"}
  /\ current \in Task
  /\ sleep \in Int
  /\ calls \in Nat

InHand(t) ==
  /\ current = t
  /\ tm \in {"check", "put", "ready", "entering", "executing", "ran"}
BeingAdded(t) ==
  \E c \in Caller : pc[c] \in {"updated", "removed"} /\ adding[c] = t

NotLost(t) == isPlanned(t) => queue[t] > 0 \/ InHand(t) \/ BeingAdded(t)

(* A task that says it is planned is in the queue, with the manager or with *)
(* the thread that is planning it: the handlers trust isPlanned() and do    *)
(* not plan a task again that says so.                                      *)
PlannedIsQueued == \A t \in Task : NotLost(t)

Alone(t) == \A u \in Task \ {t} : timeout[u] # timeout[t]

(* It takes two tasks of the same timeout to break that, as the two of t1   *)
(* do: whatever those do to each other, a task whose timeout no other has,  *)
(* like that of t2 or t3, is not lost.                                      *)
UniqueIsQueued == \A t \in Task : Alone(t) => NotLost(t)

(* The task the manager has taken can be added again before it is put back, *)
(* so removeDuplicates leaves duplicates after all: but not more of them    *)
(* than threads that add.                                                   *)
DuplicatesBounded ==
  \A t \in Task :
    queue[t] + (IF InHand(t) THEN 1 ELSE 0) <= 1 + Cardinality(Caller)

(* A notification between put and wait is lost, and then a task that is due *)
(* first has to wait for another one, which a replanned task that the heap   *)
(* still has at its head may be taken before.  It is late, but by no more    *)
(* than one longest timeout for each other task.                             *)
DelayBounded ==
  \A t \in Task : queue[t] > 0 => left[t] >= - MaxDelay

(* A planned task does not stay planned: it is executed, cancelled or       *)
(* planned anew, if its timeout is its own.                                 *)
PlannedComesDue ==
  \A t \in {u \in Task : Alone(u)} :
    isPlanned(t) /\ ~BeingAdded(t) ~> ~isPlanned(t) \/ BeingAdded(t)
===========================================================================
