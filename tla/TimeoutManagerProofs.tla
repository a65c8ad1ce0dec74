----------------------- MODULE TimeoutManagerProofs -----------------------
(* Theorems about TimeoutManager, for any tasks, any number of threads that *)
(* add them and any number of calls.                                        *)
EXTENDS TimeoutManager, FiniteSetTheorems, WellFoundedInduction, TLAPS

LEMMA InitType == Init => TypeOK
  <1> SUFFICES ASSUME Init PROVE TypeOK
    OBVIOUS
  <1>1. AnyTask \in Task
    BY TaskAssumption DEF AnyTask
  <1> QED
    BY <1>1 DEF Init, TypeOK

LEMMA StepType == TypeOK /\ [Next]_vars => TypeOK'
  <1> SUFFICES ASSUME TypeOK, [Next]_vars PROVE TypeOK'
    OBVIOUS
  <1> USE DEF TypeOK
  <1>1. AnyTask \in Task
    BY TaskAssumption DEF AnyTask
  <1>2. ASSUME NEW c \in Caller, NEW t \in Task, UpdateDueTime(c, t)
        PROVE  TypeOK'
    <2>0. timeout[t] \in Int /\ left[t] \in Int
      BY TimeoutAssumption
    <2>1. left' \in [Task -> Int]
      BY <1>2, <2>0 DEF UpdateDueTime
    <2>2. was' \in [Caller -> Int]
      BY <1>2, <2>0 DEF UpdateDueTime
    <2>3. /\ pc' \in [Caller -> {"idle", "updated", "removed", "added"}]
          /\ adding' \in [Caller -> Task]
      BY <1>2 DEF UpdateDueTime
    <2> QED
      BY <1>2, <2>1, <2>2, <2>3 DEF UpdateDueTime, tmVars
  <1>3. ASSUME NEW c \in Caller, RemoveDuplicates(c)
        PROVE  TypeOK'
    BY <1>3 DEF RemoveDuplicates, taskVars, tmVars
  <1>4. ASSUME NEW c \in Caller, AddToQueue(c)
        PROVE  TypeOK'
    BY <1>4 DEF AddToQueue, taskVars, tmVars
  <1>5. ASSUME NEW c \in Caller, NotifyLock(c)
        PROVE  TypeOK'
    BY <1>5, <1>1 DEF NotifyLock, taskVars
  <1>6. ASSUME NEW c \in Caller, NEW t \in Task, Cancel(c, t)
        PROVE  TypeOK'
    BY <1>6 DEF Cancel, callerVars, tmVars
  <1>7. ASSUME NEW t \in Task, RunManually(t)
        PROVE  TypeOK'
    BY <1>7 DEF RunManually, callerVars, tmVars
  <1>8. ASSUME NEW t \in Task, Take(t)
        PROVE  TypeOK'
    BY <1>8 DEF Take, taskVars, callerVars
  <1>9. CASE CheckDueTime
    BY <1>9 DEF CheckDueTime, sleepTimeFromDueTime, taskVars, callerVars
  <1>10. CASE Put
    BY <1>10 DEF Put, PutBack, taskVars, callerVars
  <1>11. CASE Wait
    BY <1>11 DEF Wait, taskVars, callerVars
  <1>12. CASE WaitEnds
    BY <1>12 DEF WaitEnds, taskVars, callerVars
  <1>13. CASE ReadCanceled
    BY <1>13 DEF ReadCanceled, taskVars, callerVars
  <1>14. CASE Enter
    BY <1>14 DEF Enter, taskVars, callerVars
  <1>15. CASE Leave
    BY <1>15 DEF Leave, taskVars, callerVars
  <1>16. CASE SetDone
    BY <1>16 DEF SetDone, callerVars
  <1>17. CASE Tick
    BY <1>17 DEF Tick, callerVars
  <1>18. CASE UNCHANGED vars
    BY <1>18 DEF vars, taskVars, callerVars, tmVars
  <1> QED
    BY <1>2, <1>3, <1>4, <1>5, <1>6, <1>7, <1>8, <1>9, <1>10, <1>11, <1>12,
       <1>13, <1>14, <1>15, <1>16, <1>17, <1>18
       DEF Next, ManagerThread, Adding

(* Every variable of the TimeoutManager keeps its type.                     *)
THEOREM ManagerTypeCorrect == Spec => []TypeOK
  BY InitType, StepType, PTL DEF Spec

----------------------------------------------------------------------------
(* What a step does to where a planned task is *)

LEMMA StepKeepsPlanned ==
  ASSUME NEW p \in Task,
         Alone(p), TypeOK, NotLost(p), [Next]_vars
  PROVE  NotLost(p)'
  <1> SUFFICES ASSUME isPlanned(p)'
               PROVE  (queue[p] > 0 \/ InHand(p) \/ BeingAdded(p))'
    BY DEF NotLost
  <1> USE DEF TypeOK
  (* a step that leaves the three places of p, and plans nothing *)
  <1>1. ASSUME isPlanned(p), queue'[p] = queue[p], InHand(p) => InHand(p)',
               BeingAdded(p) => BeingAdded(p)'
        PROVE  (queue[p] > 0 \/ InHand(p) \/ BeingAdded(p))'
    BY <1>1 DEF NotLost
  <1>2. ASSUME NEW c \in Caller, NEW t \in Task, UpdateDueTime(c, t)
        PROVE  (queue[p] > 0 \/ InHand(p) \/ BeingAdded(p))'
    <2>1. CASE p = t
      BY <2>1, <1>2 DEF UpdateDueTime, BeingAdded
    <2>2. CASE p # t
      BY <2>2, <1>1, <1>2 DEF UpdateDueTime, BeingAdded, InHand, isPlanned, tmVars
    <2> QED
      BY <2>1, <2>2
  <1>3. ASSUME NEW c \in Caller, RemoveDuplicates(c)
        PROVE  (queue[p] > 0 \/ InHand(p) \/ BeingAdded(p))'
    <2>1. CASE p = adding[c]
      BY <2>1, <1>3 DEF RemoveDuplicates, BeingAdded
    <2>2. CASE p # adding[c]
      <3>1. p \notin Removed(adding[c])
        BY <2>2 DEF Removed, equals, Alone
      <3> QED
        BY <3>1, <2>2, <1>1, <1>3
           DEF RemoveDuplicates, BeingAdded, InHand, isPlanned, taskVars, tmVars
    <2> QED
      BY <2>1, <2>2
  <1>4. ASSUME NEW c \in Caller, AddToQueue(c)
        PROVE  (queue[p] > 0 \/ InHand(p) \/ BeingAdded(p))'
    <2>1. CASE p = adding[c]
      BY <2>1, <1>4 DEF AddToQueue
    <2>2. CASE p # adding[c]
      BY <2>2, <1>1, <1>4
         DEF AddToQueue, BeingAdded, InHand, isPlanned, taskVars, tmVars
    <2> QED
      BY <2>1, <2>2
  <1>5. ASSUME NEW c \in Caller, NotifyLock(c)
        PROVE  (queue[p] > 0 \/ InHand(p) \/ BeingAdded(p))'
    BY <1>1, <1>5 DEF NotifyLock, BeingAdded, InHand, isPlanned, taskVars
  <1>6. ASSUME NEW c \in Caller, NEW t \in Task, Cancel(c, t)
        PROVE  (queue[p] > 0 \/ InHand(p) \/ BeingAdded(p))'
    BY <1>1, <1>6 DEF Cancel, BeingAdded, InHand, isPlanned, callerVars, tmVars
  <1>7. ASSUME NEW t \in Task, RunManually(t)
        PROVE  (queue[p] > 0 \/ InHand(p) \/ BeingAdded(p))'
    BY <1>1, <1>7 DEF RunManually, BeingAdded, InHand, isPlanned, callerVars, tmVars
  <1>8. ASSUME NEW t \in Task, Take(t)
        PROVE  (queue[p] > 0 \/ InHand(p) \/ BeingAdded(p))'
    <2>1. CASE p = t
      BY <2>1, <1>8 DEF Take, InHand
    <2>2. CASE p # t
      BY <2>2, <1>1, <1>8 DEF Take, BeingAdded, InHand, isPlanned, taskVars, callerVars
    <2> QED
      BY <2>1, <2>2
  <1>9. CASE CheckDueTime
    BY <1>1, <1>9 DEF CheckDueTime, BeingAdded, InHand, isPlanned, taskVars, callerVars
  <1>10. CASE Put
    <2>1. CASE p = current
      BY <2>1, <1>10 DEF Put, PutBack
    <2>2. CASE p # current
      BY <2>2, <1>1, <1>10
         DEF Put, PutBack, BeingAdded, InHand, isPlanned, taskVars, callerVars
    <2> QED
      BY <2>1, <2>2
  <1>11. CASE Wait
    BY <1>1, <1>11 DEF Wait, BeingAdded, InHand, isPlanned, taskVars, callerVars
  <1>12. CASE WaitEnds
    BY <1>1, <1>12 DEF WaitEnds, BeingAdded, InHand, isPlanned, taskVars, callerVars
  <1>13. CASE ReadCanceled      \* drops only what is not planned
    BY <1>1, <1>13 DEF ReadCanceled, BeingAdded, InHand, isPlanned, taskVars, callerVars
  <1>14. CASE Enter
    BY <1>1, <1>14 DEF Enter, BeingAdded, InHand, isPlanned, taskVars, callerVars
  <1>15. CASE Leave
    BY <1>1, <1>15 DEF Leave, BeingAdded, InHand, isPlanned, taskVars, callerVars
  <1>16. CASE SetDone           \* what it has run is no longer planned
    BY <1>1, <1>16 DEF SetDone, BeingAdded, InHand, isPlanned, callerVars
  <1>17. CASE Tick
    BY <1>1, <1>17 DEF Tick, Blocked, BeingAdded, InHand, isPlanned, callerVars
  <1>18. CASE UNCHANGED vars
    BY <1>1, <1>18 DEF vars, BeingAdded, InHand, isPlanned, taskVars, callerVars, tmVars
  <1> QED
    BY <1>2, <1>3, <1>4, <1>5, <1>6, <1>7, <1>8, <1>9, <1>10, <1>11, <1>12,
       <1>13, <1>14, <1>15, <1>16, <1>17, <1>18
       DEF Next, ManagerThread, Adding

(* A task whose timeout no other task has is never lost while isPlanned()   *)
(* reports it as planned, whatever tasks of equal timeouts there are beside *)
(* it: removeDuplicates finds no other task equal to it.  So the timers of  *)
(* t2 and t3 are safe; the two of t1 are not, and nothing is said of them.  *)
THEOREM AloneIsNotLost ==
  Spec => []UniqueIsQueued
  <1>1. Init => UniqueIsQueued
    BY DEF Init, UniqueIsQueued, NotLost, isPlanned
  <1>2. TypeOK /\ UniqueIsQueued /\ [Next]_vars => UniqueIsQueued'
    <2> SUFFICES ASSUME TypeOK, UniqueIsQueued, [Next]_vars,
                        NEW t \in Task, Alone(t)
                 PROVE  NotLost(t)'
      BY DEF UniqueIsQueued, Alone
    <2> QED
      BY StepKeepsPlanned DEF UniqueIsQueued
  <1> QED
    BY <1>1, <1>2, ManagerTypeCorrect, PTL DEF Spec

----------------------------------------------------------------------------
(* Duplicates.  Each thread that has removed the copies of t and is about   *)
(* to add one may find that another has been added or put back since.       *)

AboutToAdd(t) == {c \in Caller : pc[c] = "removed" /\ adding[c] = t}
InHandCount(t) == IF InHand(t) THEN 1 ELSE 0
CopiesBounded(t) ==
  queue[t] + InHandCount(t) + Cardinality(AboutToAdd(t)) <= 1 + Cardinality(Caller)

LEMMA AboutToAddIsFinite ==
  ASSUME NEW t \in Task
  PROVE  /\ IsFiniteSet(AboutToAdd(t))
         /\ Cardinality(AboutToAdd(t)) \in Nat
         /\ Cardinality(Caller) \in Nat
         /\ Cardinality(AboutToAdd(t)) <= Cardinality(Caller)
  <1>1. AboutToAdd(t) \subseteq Caller
    BY DEF AboutToAdd
  <1> QED
    BY <1>1, TaskAssumption, FS_Subset, FS_CardinalityType

LEMMA StepKeepsCopies ==
  ASSUME NEW p \in Task, TypeOK, CopiesBounded(p), [Next]_vars
  PROVE  CopiesBounded(p)'
  <1> USE DEF TypeOK
  <1> DEFINE n == Cardinality(AboutToAdd(p))
             m == Cardinality(Caller)
  <1>0. n \in Nat /\ m \in Nat /\ n <= m
    BY AboutToAddIsFinite
  <1> HIDE DEF m, n
  <1>1. ASSUME AboutToAdd(p)' = AboutToAdd(p), queue'[p] \in Nat,
               queue'[p] + InHandCount(p)' <= queue[p] + InHandCount(p)
        PROVE  CopiesBounded(p)'
    <2>1. queue[p] + InHandCount(p) + n <= 1 + m
      BY DEF CopiesBounded, n, m
    <2>2. queue'[p] + InHandCount(p)' + n <= 1 + m
      BY <2>1, <1>0, <1>1 DEF InHandCount
    <2> QED
      BY <2>2, <1>1 DEF CopiesBounded, n, m
  <1>2. ASSUME NEW c \in Caller, NEW t \in Task, UpdateDueTime(c, t)
        PROVE  CopiesBounded(p)'
    <2>1. AboutToAdd(p)' = AboutToAdd(p)
      BY <1>2 DEF UpdateDueTime, AboutToAdd
    <2> QED
      BY <2>1, <1>1, <1>2 DEF UpdateDueTime, InHandCount, InHand, tmVars
  <1>3. ASSUME NEW c \in Caller, RemoveDuplicates(c)
        PROVE  CopiesBounded(p)'
    <2>1. CASE p = adding[c]
      <3>1. p \in Removed(adding[c])
        BY <2>1 DEF Removed, equals
      <3>2. queue'[p] = 0
        BY <3>1, <1>3 DEF RemoveDuplicates
      <3>3. /\ Cardinality(AboutToAdd(p)') \in Nat
            /\ Cardinality(AboutToAdd(p)') <= m
        <4>1. AboutToAdd(p)' \subseteq Caller
          BY DEF AboutToAdd
        <4> QED
          BY <4>1, TaskAssumption, FS_Subset, FS_CardinalityType DEF m
      <3> QED
        BY <3>2, <3>3, <1>0 DEF CopiesBounded, InHandCount, m
    <2>2. CASE p # adding[c]
      <3>1. AboutToAdd(p)' = AboutToAdd(p)
        BY <2>2, <1>3 DEF RemoveDuplicates, AboutToAdd
      <3>2. queue'[p] \in Nat /\ queue'[p] <= queue[p]
        BY <1>3 DEF RemoveDuplicates
      <3> QED
        BY <3>1, <3>2, <1>1, <1>3 DEF RemoveDuplicates, InHandCount, InHand, tmVars
    <2> QED
      BY <2>1, <2>2
  <1>4. ASSUME NEW c \in Caller, AddToQueue(c)
        PROVE  CopiesBounded(p)'
    <2>1. CASE p = adding[c]
      <3>1. /\ c \in AboutToAdd(p)
            /\ AboutToAdd(p)' = AboutToAdd(p) \ {c}
        BY <2>1, <1>4 DEF AddToQueue, AboutToAdd
      <3>2. Cardinality(AboutToAdd(p)') = n - 1
        BY <3>1, AboutToAddIsFinite, FS_RemoveElement DEF n
      <3>3. queue'[p] = queue[p] + 1
        BY <2>1, <1>4 DEF AddToQueue
      <3>4. InHandCount(p)' = InHandCount(p) /\ InHandCount(p) \in Nat
        BY <1>4 DEF AddToQueue, InHandCount, InHand, tmVars
      <3>5. queue[p] + InHandCount(p) + n <= 1 + m
        BY DEF CopiesBounded, n, m
      <3>6. queue'[p] + InHandCount(p)' + (n - 1) <= 1 + m
        BY <3>3, <3>4, <3>5, <1>0
      <3> QED
        BY <3>2, <3>6 DEF CopiesBounded, m
    <2>2. CASE p # adding[c]
      <3>1. AboutToAdd(p)' = AboutToAdd(p)
        BY <2>2, <1>4 DEF AddToQueue, AboutToAdd
      <3> QED
        BY <2>2, <3>1, <1>1, <1>4 DEF AddToQueue, InHandCount, InHand, tmVars
    <2> QED
      BY <2>1, <2>2
  <1>5. ASSUME NEW c \in Caller, NotifyLock(c)
        PROVE  CopiesBounded(p)'
    <2>1. AboutToAdd(p)' = AboutToAdd(p)
      BY <1>5 DEF NotifyLock, AboutToAdd
    <2> QED
      BY <2>1, <1>1, <1>5 DEF NotifyLock, InHandCount, InHand
  <1>6. ASSUME queue'[p] \in Nat, UNCHANGED callerVars,
               queue'[p] + InHandCount(p)' <= queue[p] + InHandCount(p)
        PROVE  CopiesBounded(p)'
    BY <1>1, <1>6 DEF AboutToAdd, callerVars
  <1>7. ASSUME NEW c \in Caller, NEW t \in Task, Cancel(c, t)
        PROVE  CopiesBounded(p)'
    BY <1>6, <1>7 DEF Cancel, InHandCount, InHand, tmVars
  <1>8. ASSUME NEW t \in Task, RunManually(t)
        PROVE  CopiesBounded(p)'
    BY <1>6, <1>8 DEF RunManually, InHandCount, InHand, tmVars
  <1>9. ASSUME NEW t \in Task, Take(t)
        PROVE  CopiesBounded(p)'
    BY <1>6, <1>9 DEF Take, InHandCount, InHand
  <1>10. CASE CheckDueTime
    BY <1>6, <1>10 DEF CheckDueTime, InHandCount, InHand
  <1>11. CASE Put
    BY <1>6, <1>11 DEF Put, PutBack, InHandCount, InHand
  <1>12. CASE Wait \/ WaitEnds \/ ReadCanceled \/ Enter \/ Leave
    BY <1>6, <1>12
       DEF Wait, WaitEnds, ReadCanceled, Enter, Leave, InHandCount, InHand
  <1>13. CASE SetDone
    BY <1>6, <1>13 DEF SetDone, InHandCount, InHand
  <1>14. CASE Tick
    BY <1>6, <1>14 DEF Tick, InHandCount, InHand
  <1>15. CASE UNCHANGED vars
    BY <1>6, <1>15 DEF vars, tmVars, InHandCount, InHand
  <1> QED
    BY <1>2, <1>3, <1>4, <1>5, <1>7, <1>8, <1>9, <1>10, <1>11, <1>12, <1>13,
       <1>14, <1>15
       DEF Next, ManagerThread, Adding

(* There are never more duplicates of a task than threads that add tasks:   *)
(* the races of addTimerTask with the manager's put do not pile up.         *)
THEOREM FewDuplicates == Spec => []DuplicatesBounded
  <1> DEFINE Inv == \A t \in Task : CopiesBounded(t)
  <1>1. Init => Inv
    <2> SUFFICES ASSUME Init, NEW t \in Task PROVE CopiesBounded(t)
      OBVIOUS
    <2>1. AboutToAdd(t) = {}
      BY DEF Init, AboutToAdd
    <2>2. Cardinality(AboutToAdd(t)) = 0
      BY <2>1, FS_EmptySet
    <2>3. queue[t] = 0 /\ InHandCount(t) = 0
      BY DEF Init, InHandCount, InHand
    <2> QED
      BY <2>2, <2>3, AboutToAddIsFinite DEF CopiesBounded
  <1>2. TypeOK /\ Inv /\ [Next]_vars => Inv'
    BY StepKeepsCopies
  <1>3. TypeOK /\ Inv => DuplicatesBounded
    <2> SUFFICES ASSUME TypeOK, Inv, NEW t \in Task
                 PROVE  queue[t] + InHandCount(t) <= 1 + Cardinality(Caller)
      BY DEF DuplicatesBounded, InHandCount
    <2>1. CopiesBounded(t) /\ queue[t] \in Nat /\ InHandCount(t) \in Nat
      BY DEF TypeOK, InHandCount
    <2> QED
      BY <2>1, AboutToAddIsFinite DEF CopiesBounded
  <1> QED
    BY <1>1, <1>2, <1>3, ManagerTypeCorrect, PTL DEF Spec

----------------------------------------------------------------------------
(* Delays.  The longest timeout exists because the tasks are finitely many: *)
(* of the sets of values that have no greatest one, none is smallest.       *)

HasGreatest(S) == \E n \in S : \A m \in S : m <= n

LEMMA FiniteSetHasGreatest ==
  ASSUME NEW S \in SUBSET Nat, IsFiniteSet(S), S # {}
  PROVE  HasGreatest(S)
  <1> DEFINE Bad == {U \in FiniteSubsetsOf(S) : U # {} /\ ~HasGreatest(U)}
  <1>1. SUFFICES ASSUME Bad # {} PROVE FALSE
    BY DEF FiniteSubsetsOf
  <1>2. PICK U \in Bad : \A V \in Bad : <<V, U>> \notin StrictSubsetOrdering(S)
    <2>1. Bad \subseteq FiniteSubsetsOf(S)
      OBVIOUS
    <2> HIDE DEF Bad
    <2> QED
      BY <1>1, <2>1, FS_StrictSubsetOrderingWellFounded, WFMin
  <1>3. PICK x \in U : TRUE
    OBVIOUS
  <1>4. IsFiniteSet(U) /\ U \subseteq S /\ x \in Nat
    BY DEF FiniteSubsetsOf
  <1>5. CASE U \ {x} = {}
    BY <1>3, <1>4, <1>5 DEF HasGreatest
  <1>6. CASE U \ {x} # {}
    <2>1. IsFiniteSet(U \ {x})
      BY <1>4, FS_RemoveElement
    <2>2. HasGreatest(U \ {x})
      <3> DEFINE V == U \ {x}
      <3>1. V \in FiniteSubsetsOf(S) /\ V \subseteq U /\ V # U
        BY <1>3, <1>4, <2>1 DEF FiniteSubsetsOf
      <3>2. <<V, U>> \in StrictSubsetOrdering(S)
        BY <3>1, <1>4 DEF StrictSubsetOrdering, FiniteSubsetsOf
      <3>3. V \notin Bad
        BY <1>2, <3>2
      <3> QED
        BY <3>1, <3>3, <1>6
    <2>3. PICK n \in U \ {x} : \A m \in U \ {x} : m <= n
      BY <2>2 DEF HasGreatest
    <2>4. \A m \in U : m \in Nat
      BY <1>4
    <2>5. CASE x <= n
      BY <2>3, <2>5 DEF HasGreatest
    <2>6. CASE ~(x <= n)
      BY <2>3, <2>4, <2>6 DEF HasGreatest
    <2> QED
      BY <2>5, <2>6
  <1> QED
    BY <1>5, <1>6

LEMMA LongestTimeout ==
  /\ Longest \in Nat \ {0}
  /\ \A t \in Task : timeout[t] <= Longest
  <1> DEFINE S == {timeout[t] : t \in Task}
  <1>1. S \in SUBSET Nat /\ S # {}
    BY TimeoutAssumption, TaskAssumption
  <1>2. IsFiniteSet(S)
    <2> DEFINE f == [t \in Task |-> timeout[t]]
    <2>1. f \in Surjection(Task, S)
      BY DEF Surjection
    <2> QED
      BY <2>1, TaskAssumption, FS_Surjection
  <1>3. \E n \in S : \A t \in Task : timeout[t] <= n
    <2> HIDE DEF S
    <2>1. HasGreatest(S)
      BY <1>1, <1>2, FiniteSetHasGreatest
    <2> QED
      BY <2>1 DEF HasGreatest, S
  <1>4. Longest \in S /\ \A t \in Task : timeout[t] <= Longest
    BY <1>3 DEF Longest
  <1> QED
    BY <1>4, TimeoutAssumption

----------------------------------------------------------------------------
(* The tasks that the manager may still take before t, because the heap is  *)
(* ordered by the due times they have or had.  Of a task that is overdue    *)
(* they only become fewer, and for each of them it waits once.              *)

InHandOrQueued(u) == queue[u] > 0 \/ (current = u /\ tm \in {"check", "put"})
Ahead(u, t) ==
  \/ InHandOrQueued(u) /\ left[u] <= left[t]
  \/ \E c \in Caller : pc[c] = "updated" /\ adding[c] = u /\ was[c] <= left[t]
AheadOf(t) == {u \in Task \ {t} : Ahead(u, t)}

(* One longest timeout for each other task that is not in R, and no more.   *)
Within(d, R) == d >= - (Longest * (Cardinality(Task) - 1 - Cardinality(R)))

GoesToSleep == tm \in {"put", "wait", "waiting"}

(* The manager has waited for the tasks that are not ahead of t any more.   *)
(* While it sleeps, what is left of that has still to be added; when it has *)
(* taken a task, that one is ahead of t no longer once it has waited for it. *)
Delayed(t) ==
  /\ Within(left[t], AheadOf(t))
  /\ GoesToSleep => Within(left[t] - sleep, AheadOf(t) \ {current})
  /\ tm = "check" /\ current # t => Within(left[t], AheadOf(t) \cup {current})

(* The manager does not sleep past the due time of the task it sleeps for.  *)
DueTimes ==
  /\ \A t \in Task : left[t] <= timeout[t]
  /\ GoesToSleep => 0 <= sleep /\ sleep <= left[current]
  /\ \A c \in Caller : pc[c] # "idle" => left[adding[c]] = timeout[adding[c]]

LEMMA Monotone ==
  ASSUME NEW a \in Int, NEW b \in Int, NEW n \in Nat, a <= b
  PROVE  n * a <= n * b
  <1>1. n * b = n * a + n * (b - a)
    OBVIOUS
  <1>2. n * (b - a) >= 0
    <2>1. \A i, j \in Nat : i * j >= 0
      OBVIOUS
    <2>2. b - a \in Nat
      OBVIOUS
    <2> QED
      BY <2>1, <2>2
  <1> QED
    BY <1>1, <1>2

LEMMA OtherTasks ==
  ASSUME NEW t \in Task, NEW R \in SUBSET (Task \ {t})
  PROVE  /\ IsFiniteSet(R)
         /\ Cardinality(R) \in Nat /\ Cardinality(Task) \in Nat
         /\ Cardinality(R) <= Cardinality(Task) - 1
  <1>1. IsFiniteSet(Task \ {t}) /\ Cardinality(Task \ {t}) = Cardinality(Task) - 1
    BY TaskAssumption, FS_RemoveElement
  <1>2. IsFiniteSet(R) /\ Cardinality(R) <= Cardinality(Task \ {t})
    BY <1>1, FS_Subset
  <1> QED
    BY <1>1, <1>2, TaskAssumption, FS_CardinalityType

LEMMA FewerAhead ==
  ASSUME NEW t \in Task, NEW R \in SUBSET (Task \ {t}), NEW Q \in SUBSET R,
         NEW d \in Int, NEW e \in Int, d <= e, Within(d, R)
  PROVE  Within(e, Q)
  <1>1. Cardinality(Q) <= Cardinality(R)
    BY OtherTasks, FS_Subset
  <1>2. Cardinality(Q) \in Nat /\ Cardinality(R) \in Nat /\ Cardinality(Task) \in Nat
    BY OtherTasks
  <1>3. Longest \in Nat
    BY LongestTimeout
  <1> DEFINE a == Cardinality(Task) - 1 - Cardinality(R)
             b == Cardinality(Task) - 1 - Cardinality(Q)
  <1>4. a \in Int /\ b \in Int /\ a <= b
    BY <1>1, <1>2
  <1>5. d >= - (Longest * a)
    BY DEF Within
  <1> HIDE DEF a, b
  <1>6. Longest * a <= Longest * b /\ Longest * a \in Int /\ Longest * b \in Int
    BY <1>3, <1>4, Monotone
  <1>7. e >= - (Longest * b)
    BY <1>5, <1>6
  <1> QED
    BY <1>7 DEF Within, b

LEMMA OnTime ==
  ASSUME NEW t \in Task, NEW R \in SUBSET (Task \ {t}), NEW d \in Int, d >= 0
  PROVE  Within(d, R)
  <1>1. /\ Longest \in Nat
        /\ Cardinality(R) \in Nat /\ Cardinality(Task) \in Nat
        /\ Cardinality(R) <= Cardinality(Task) - 1
    BY OtherTasks, LongestTimeout
  <1> DEFINE b == Cardinality(Task) - 1 - Cardinality(R)
  <1>2. b \in Int /\ 0 <= b
    BY <1>1
  <1> HIDE DEF b
  <1>3. 0 <= Longest * b /\ Longest * b \in Int
    BY <1>1, <1>2, Monotone, Longest * 0 = 0
  <1>4. d >= - (Longest * b)
    BY <1>3
  <1> QED
    BY <1>4 DEF Within, b

(* Waiting once for a task that need not be waited for again. *)
LEMMA WaitsOnce ==
  ASSUME NEW t \in Task, NEW R \in SUBSET (Task \ {t}), NEW u \in Task \ {t},
         NEW d \in Int, Within(d, R \cup {u}),
         NEW s \in Int, s <= Longest
  PROVE  Within(d - s, R \ {u})
  <1>1. (R \ {u}) \cup {u} = R \cup {u}
    OBVIOUS
  <1>2. IsFiniteSet(R \ {u}) /\ Cardinality(R \ {u}) \in Nat /\ Cardinality(Task) \in Nat
    BY OtherTasks
  <1>3. Cardinality(R \cup {u}) = Cardinality(R \ {u}) + 1
    BY <1>1, <1>2, FS_AddElement
  <1> DEFINE a == Cardinality(Task) - 1 - (Cardinality(R \ {u}) + 1)
             b == Cardinality(Task) - 1 - Cardinality(R \ {u})
  <1>4. a \in Int /\ b = a + 1
    BY <1>2
  <1>5. d >= - (Longest * a)
    BY <1>3 DEF Within
  <1> HIDE DEF a, b
  <1>6. Longest * b = Longest * a + Longest /\ Longest * a \in Int /\ Longest \in Int
    BY <1>4, LongestTimeout
  <1>7. d - s >= - (Longest * b)
    BY <1>5, <1>6
  <1> QED
    BY <1>7 DEF Within, b
----------------------------------------------------------------------------
(* What a step does to the delays *)

DelayInv == DueTimes /\ \A t \in Task : queue[t] > 0 => Delayed(t)

LEMMA AheadIsOther ==
  \A t \in Task : AheadOf(t) \in SUBSET (Task \ {t})
  BY DEF AheadOf

(* A task that is not overdue has as much time as there can be delays. *)
LEMMA NotOverdue ==
  TypeOK /\ DueTimes => \A t \in Task : left[t] >= 0 => Delayed(t)
  <1> SUFFICES ASSUME TypeOK, DueTimes, NEW t \in Task, left[t] >= 0
               PROVE  Delayed(t)
    OBVIOUS
  <1> USE DEF TypeOK
  <1>1. Within(left[t], AheadOf(t))
    BY AheadIsOther, OnTime
  <1>2. ASSUME GoesToSleep
        PROVE  Within(left[t] - sleep, AheadOf(t) \ {current})
    <2>1. CASE current = t
      <3>1. left[t] - sleep >= 0 /\ left[t] - sleep \in Int
        BY <1>2, <2>1 DEF DueTimes
      <3>2. AheadOf(t) \ {current} \in SUBSET (Task \ {t})
        BY AheadIsOther
      <3> QED
        BY <3>1, <3>2, OnTime
    <2>2. CASE current # t
      <3>1. AheadOf(t) \cup {current} \in SUBSET (Task \ {t})
        BY <2>2, AheadIsOther
      <3>2. Within(left[t], AheadOf(t) \cup {current})
        BY <3>1, OnTime
      <3>3. sleep <= Longest
        BY <1>2, LongestTimeout, TimeoutAssumption DEF DueTimes
      <3> QED
        BY <2>2, <3>2, <3>3, AheadIsOther, WaitsOnce
    <2> QED
      BY <2>1, <2>2
  <1>3. ASSUME current # t
        PROVE  Within(left[t], AheadOf(t) \cup {current})
    <2>1. AheadOf(t) \cup {current} \in SUBSET (Task \ {t})
      BY <1>3, AheadIsOther
    <2> QED
      BY <2>1, OnTime
  <1> QED
    BY <1>1, <1>2, <1>3 DEF Delayed

LEMMA NotOverdueNext ==
  (TypeOK /\ DueTimes => \A t \in Task : left[t] >= 0 => Delayed(t))'
  BY NotOverdue, PTL

(* A step that leaves an overdue task where it is and puts nothing ahead of *)
(* it does not delay it.                                                    *)
LEMMA NothingPutAhead ==
  ASSUME TypeOK, TypeOK', NEW t \in Task, Delayed(t),
         left'[t] = left[t], AheadOf(t)' \subseteq AheadOf(t),
         GoesToSleep' => GoesToSleep /\ UNCHANGED <<sleep, current>>,
         (tm = "check")' => tm = "check" /\ UNCHANGED current
  PROVE  Delayed(t)'
  <1> USE DEF TypeOK
  <1>1. Within(left[t], AheadOf(t)')
    BY AheadIsOther, FewerAhead DEF Delayed
  <1>2. ASSUME GoesToSleep'
        PROVE  Within(left[t] - sleep, AheadOf(t)' \ {current})
    <2>1. AheadOf(t) \ {current} \in SUBSET (Task \ {t})
      BY AheadIsOther
    <2>2. Within(left[t] - sleep, AheadOf(t) \ {current})
      BY <1>2 DEF Delayed
    <2>3. left[t] - sleep \in Int
      OBVIOUS
    <2> QED
      BY <2>1, <2>2, <2>3, FewerAhead
  <1>3. ASSUME (tm = "check")', current' # t
        PROVE  Within(left[t], AheadOf(t)' \cup {current})
    <2>1. current # t /\ tm = "check"
      BY <1>3
    <2>2. AheadOf(t) \cup {current} \in SUBSET (Task \ {t})
      BY <2>1, AheadIsOther
    <2>3. Within(left[t], AheadOf(t) \cup {current})
      BY <2>1 DEF Delayed
    <2> QED
      BY <2>2, <2>3, FewerAhead
  <1> QED
    BY <1>1, <1>2, <1>3 DEF Delayed

LEMMA DueTimesInit == Init => DueTimes
  BY TimeoutAssumption DEF Init, DueTimes, GoesToSleep

LEMMA DueTimesStep ==
  ASSUME TypeOK, DueTimes, [Next]_vars
  PROVE  DueTimes'
  <1> USE TimeoutAssumption DEF TypeOK, DueTimes, GoesToSleep
  <1>1. ASSUME NEW c \in Caller, NEW t \in Task, UpdateDueTime(c, t)
        PROVE  DueTimes'
    <2>1. \A u \in Task : left'[u] = IF u = t THEN timeout[t] ELSE left[u]
      BY <1>1 DEF UpdateDueTime
    <2>2. left[current] <= left'[current]
      BY <2>1
    <2>3. GoesToSleep' => (0 <= sleep /\ sleep <= left[current])'
      BY <1>1, <2>2 DEF UpdateDueTime, tmVars
    <2>4. \A d \in Caller : pc'[d] # "idle" => left'[adding'[d]] = timeout[adding'[d]]
      BY <1>1, <2>1 DEF UpdateDueTime
    <2> QED
      BY <2>1, <2>3, <2>4
  <1>2. ASSUME NEW c \in Caller, Adding(c)
        PROVE  DueTimes'
    BY <1>2 DEF Adding, RemoveDuplicates, AddToQueue, NotifyLock, taskVars, tmVars
  <1>3. ASSUME NEW c \in Caller, NEW t \in Task, Cancel(c, t)
        PROVE  DueTimes'
    BY <1>3 DEF Cancel, callerVars, tmVars
  <1>4. ASSUME NEW t \in Task, RunManually(t)
        PROVE  DueTimes'
    BY <1>4 DEF RunManually, callerVars, tmVars
  <1>5. ASSUME NEW t \in Task, Take(t)
        PROVE  DueTimes'
    BY <1>5 DEF Take, taskVars, callerVars
  <1>6. CASE CheckDueTime
    BY <1>6 DEF CheckDueTime, sleepTimeFromDueTime, taskVars, callerVars
  <1>7. CASE Put \/ Wait \/ WaitEnds
    BY <1>7 DEF Put, Wait, WaitEnds, taskVars, callerVars
  <1>8. CASE ReadCanceled \/ Enter \/ Leave \/ SetDone
    BY <1>8 DEF ReadCanceled, Enter, Leave, SetDone, taskVars, callerVars
  <1>9. CASE Tick
    <2>1. \A u \in Task : left'[u] \in Int /\ left'[u] <= left[u] /\ left[u] - 1 <= left'[u]
      BY <1>9 DEF Tick
    <2>2. GoesToSleep' => tm = "waiting" /\ sleep > 0
      BY <1>9 DEF Tick, Blocked
    <2>3. GoesToSleep' => (0 <= sleep /\ sleep <= left[current])'
      BY <1>9, <2>1, <2>2 DEF Tick
    <2>4. \A u \in Task : left'[u] <= timeout[u]
      BY <2>1
    <2> QED
      BY <1>9, <2>3, <2>4 DEF Tick, callerVars
  <1>10. CASE UNCHANGED vars
    BY <1>10 DEF vars, taskVars, callerVars, tmVars
  <1> QED
    BY <1>1, <1>2, <1>3, <1>4, <1>5, <1>6, <1>7, <1>8, <1>9, <1>10
       DEF Next, ManagerThread
LEMMA TimeoutsArePositive ==
  \A t \in Task : timeout[t] \in Int /\ timeout[t] > 0
  BY TimeoutAssumption

LEMMA NobodyAhead == Cardinality(Task) - 1 - Cardinality({}) = Cardinality(Task) - 1
  <1>1. Cardinality({}) = 0 /\ Cardinality(Task) \in Nat
    BY FS_EmptySet, TaskAssumption, FS_CardinalityType
  <1> QED
    BY <1>1

LEMMA DelayStep ==
  ASSUME TypeOK, TypeOK', DueTimes, DueTimes', [Next]_vars,
         NEW t \in Task, queue[t] > 0 => Delayed(t), queue'[t] > 0
  PROVE  Delayed(t)'
  <1> USE DEF TypeOK
  <1>1. CASE left'[t] >= 0
    BY <1>1, NotOverdueNext
  <1>2. CASE left'[t] < 0
    <2>1. ASSUME NEW c \in Caller, NEW u \in Task, UpdateDueTime(c, u)
          PROVE  Delayed(t)'
      <3>0. /\ \A v \in Task : left'[v] = IF v = u THEN timeout[u] ELSE left[v]
            /\ pc' = [pc EXCEPT ![c] = "updated"] /\ adding' = [adding EXCEPT ![c] = u]
            /\ was'[c] = IF queue[u] > 0 THEN left[u] ELSE timeout[u]
            /\ \A d \in Caller \ {c} : was'[d] = was[d]
            /\ UNCHANGED <<queue, tm, current, sleep>>
        BY <2>1 DEF UpdateDueTime, tmVars
      <3>1. u # t /\ left'[t] = left[t] /\ queue[t] > 0 /\ left[t] < 0
        BY <1>2, <3>0, TimeoutsArePositive
      <3>2. ASSUME NEW v \in Task \ {t}, Ahead(v, t)'
            PROVE  Ahead(v, t)
        <4>1. CASE (InHandOrQueued(v) /\ left[v] <= left[t])'
          <5>1. v # u
            BY <3>0, <3>1, <4>1, TimeoutsArePositive
          <5> QED
            BY <3>0, <3>1, <4>1, <5>1 DEF Ahead, InHandOrQueued
        <4>2. CASE \E d \in Caller : (pc[d] = "updated" /\ adding[d] = v /\ was[d] <= left[t])'
          <5>1. PICK d \in Caller : (pc[d] = "updated" /\ adding[d] = v /\ was[d] <= left[t])'
            BY <4>2
          <5>2. CASE d = c
            <6>1. v = u /\ queue[u] > 0 /\ left[u] <= left[t]
              BY <3>0, <3>1, <5>1, <5>2, TimeoutsArePositive
            <6> QED
              BY <6>1 DEF Ahead, InHandOrQueued
          <5>3. CASE d # c
            BY <3>0, <3>1, <5>1, <5>3 DEF Ahead
          <5> QED
            BY <5>2, <5>3
        <4> QED
          BY <3>2, <4>1, <4>2 DEF Ahead
      <3>3. AheadOf(t)' \subseteq AheadOf(t)
        BY <3>2 DEF AheadOf
      <3> QED
        BY <3>0, <3>1, <3>3, NothingPutAhead DEF GoesToSleep
    <2>2. ASSUME NEW c \in Caller, RemoveDuplicates(c)
          PROVE  Delayed(t)'
      <3>1. left' = left /\ queue[t] > 0 /\ \A v \in Task : queue'[v] > 0 => queue[v] > 0
        BY <2>2 DEF RemoveDuplicates, taskVars
      <3>2. AheadOf(t)' \subseteq AheadOf(t)
        BY <2>2, <3>1 DEF RemoveDuplicates, AheadOf, Ahead, InHandOrQueued, tmVars
      <3> QED
        BY <2>2, <3>1, <3>2, NothingPutAhead DEF RemoveDuplicates, tmVars, GoesToSleep
    <2>3. ASSUME NEW c \in Caller, AddToQueue(c)
          PROVE  Delayed(t)'
      <3>1. left' = left /\ left[t] < 0
        BY <1>2, <2>3 DEF AddToQueue, taskVars
      <3>2. left[adding[c]] > 0
        <4>1. pc[c] # "idle"
          BY <2>3 DEF AddToQueue
        <4>2. left[adding[c]] = timeout[adding[c]]
          BY <4>1 DEF DueTimes
        <4> QED
          BY <4>2, TimeoutsArePositive
      <3>3. adding[c] # t /\ queue[t] > 0
        BY <2>3, <3>1, <3>2 DEF AddToQueue
      <3>4. \A v \in Task : queue'[v] > 0 => queue[v] > 0 \/ v = adding[c]
        BY <2>3 DEF AddToQueue
      <3>5. AheadOf(t)' \subseteq AheadOf(t)
        BY <2>3, <3>1, <3>2, <3>4 DEF AddToQueue, AheadOf, Ahead, InHandOrQueued, tmVars
      <3> QED
        BY <2>3, <3>1, <3>3, <3>5, NothingPutAhead DEF AddToQueue, tmVars, GoesToSleep
    <2>4. ASSUME NEW c \in Caller, NotifyLock(c)
          PROVE  Delayed(t)'
      <3>1. left' = left /\ queue' = queue /\ queue[t] > 0
        BY <2>4 DEF NotifyLock, taskVars
      <3>2. AheadOf(t)' \subseteq AheadOf(t)
        BY <2>4, <3>1 DEF NotifyLock, AheadOf, Ahead, InHandOrQueued
      <3> QED
        BY <2>4, <3>1, <3>2, NothingPutAhead DEF NotifyLock, GoesToSleep
    <2>5. ASSUME NEW u \in Task, Take(u)      \* the head is ahead of t, or t itself
          PROVE  Delayed(t)'
      <3>1. /\ left' = left /\ UNCHANGED callerVars /\ tm = "take" /\ queue[u] > 0
            /\ current' = u /\ tm' = "check"
            /\ \A v \in Task : queue'[v] = IF v = u THEN queue[v] - 1 ELSE queue[v]
        BY <2>5 DEF Take, taskVars
      <3>2. queue[t] > 0
        BY <3>1
      <3>3. AheadOf(t)' \subseteq AheadOf(t)
        BY <3>1 DEF AheadOf, Ahead, InHandOrQueued, callerVars
      <3>4. ASSUME u # t PROVE u \in AheadOf(t)
        <4>1. PICK k \in Keys(u), j \in Keys(t) : k <= j
          BY <2>5, <3>2, <3>4 DEF Take, IsHead
        <4>2. j = left[t]
          <5>1. ASSUME NEW c \in Caller, pc[c] = "updated", adding[c] = t
                PROVE  FALSE
            BY <1>2, <3>1, <5>1, TimeoutsArePositive DEF DueTimes
          <5> QED
            BY <5>1 DEF Keys
        <4> QED
          BY <3>1, <3>4, <4>1, <4>2 DEF Keys, AheadOf, Ahead, InHandOrQueued
      <3>5. Within(left[t], AheadOf(t))
        BY <3>2 DEF Delayed
      <3>6. Within(left[t], AheadOf(t)')
        BY <3>3, <3>5, AheadIsOther, FewerAhead
      <3>7. ASSUME u # t
            PROVE  Within(left[t], AheadOf(t)' \cup {u})
        <4>1. AheadOf(t)' \cup {u} \in SUBSET AheadOf(t)
          BY <3>3, <3>4, <3>7
        <4> QED
          BY <4>1, <3>5, AheadIsOther, FewerAhead
      <3> QED
        BY <3>1, <3>6, <3>7 DEF Delayed, GoesToSleep
    <2>6. CASE CheckDueTime
      <3>1. /\ left' = left /\ queue' = queue /\ UNCHANGED callerVars
            /\ tm = "check" /\ current' = current /\ queue[t] > 0 /\ left[t] < 0
        BY <1>2, <2>6 DEF CheckDueTime, taskVars
      <3>2. AheadOf(t)' \subseteq AheadOf(t)
        BY <2>6, <3>1 DEF CheckDueTime, AheadOf, Ahead, InHandOrQueued, callerVars
      <3>3. CASE tm' = "ready"
        BY <3>1, <3>2, <3>3, NothingPutAhead DEF GoesToSleep
      <3>4. CASE tm' = "put" /\ sleep' = left[current] /\ left[current] > 0
        <4>1. current # t
          BY <3>1, <3>4
        <4>2. Within(left[t], AheadOf(t) \cup {current})
          BY <3>1, <4>1 DEF Delayed
        <4>3. sleep' <= Longest
          BY <3>4, LongestTimeout, TimeoutsArePositive DEF DueTimes
        <4>4. Within(left[t] - sleep', AheadOf(t) \ {current})
          BY <4>1, <4>2, <4>3, AheadIsOther, WaitsOnce, LongestTimeout
        <4>5. Within(left[t] - sleep', AheadOf(t)' \ {current})
          <5>1. AheadOf(t)' \ {current} \in SUBSET (AheadOf(t) \ {current})
            BY <3>2
          <5>2. AheadOf(t) \ {current} \in SUBSET (Task \ {t})
            BY AheadIsOther
          <5>3. left[t] - sleep' \in Int
            OBVIOUS
          <5> QED
            BY <5>1, <5>2, <5>3, <4>4, FewerAhead
        <4>6. Within(left[t], AheadOf(t)')
          BY <3>1, <3>2, AheadIsOther, FewerAhead DEF Delayed
        <4> QED
          BY <3>1, <3>4, <4>5, <4>6 DEF Delayed, GoesToSleep
      <3> QED
        BY <2>6, <3>3, <3>4 DEF CheckDueTime, sleepTimeFromDueTime
    <2>7. CASE Put
      <3>1. /\ left' = left /\ UNCHANGED callerVars /\ tm = "put" /\ tm' = "wait"
            /\ UNCHANGED <<current, sleep>>
            /\ \A v \in Task : queue'[v] = IF v = current THEN queue[v] + 1 ELSE queue[v]
        BY <2>7 DEF Put, PutBack, taskVars
      <3>2. current # t /\ queue[t] > 0
        BY <1>2, <3>1 DEF DueTimes, GoesToSleep
      <3>3. AheadOf(t)' \subseteq AheadOf(t)
        BY <3>1 DEF AheadOf, Ahead, InHandOrQueued, callerVars
      <3> QED
        BY <3>1, <3>2, <3>3, NothingPutAhead DEF GoesToSleep
    <2>8. CASE Wait \/ WaitEnds \/ ReadCanceled \/ Enter \/ Leave \/ SetDone
      <3>1. /\ left' = left /\ queue' = queue /\ UNCHANGED <<callerVars, current, sleep>>
            /\ tm' \notin {"check", "put"} /\ queue[t] > 0
            /\ tm' \in {"wait", "waiting"} => tm \in {"wait", "waiting"}
        BY <2>8 DEF Wait, WaitEnds, ReadCanceled, Enter, Leave, SetDone, taskVars
      <3>2. AheadOf(t)' \subseteq AheadOf(t)
        BY <3>1 DEF AheadOf, Ahead, InHandOrQueued, callerVars
      <3> QED
        BY <3>1, <3>2, NothingPutAhead DEF GoesToSleep
    <2>9. ASSUME \/ \E c \in Caller, u \in Task : Cancel(c, u)
                 \/ \E u \in Task : RunManually(u)
                 \/ UNCHANGED vars
          PROVE  Delayed(t)'
      <3>1. UNCHANGED <<left, queue, callerVars, tmVars>>
        BY <2>9 DEF Cancel, RunManually, vars, taskVars
      <3>2. AheadOf(t)' \subseteq AheadOf(t)
        BY <3>1 DEF AheadOf, Ahead, InHandOrQueued, callerVars, tmVars
      <3> QED
        BY <3>1, <3>2, NothingPutAhead DEF GoesToSleep, tmVars
    <2>10. CASE Tick      \* what sleeps for a task ahead of t is not overdue
      <3>1. /\ queue' = queue /\ UNCHANGED <<callerVars, tm, current>>
            /\ \A c \in Caller : pc[c] = "idle"
            /\ queue[t] > 0
        BY <2>10 DEF Tick
      <3>2. tm = "waiting" /\ sleep > 0 /\ sleep' = sleep - 1
        BY <2>10, <3>1 DEF Tick, Blocked
      <3>3. Within(left[t], {})
        <4>1. {} \in SUBSET AheadOf(t)
          OBVIOUS
        <4> QED
          BY <3>1, <4>1, AheadIsOther, FewerAhead DEF Delayed
      <3>4. left[t] >= - MaxDelay
        <4>1. Cardinality(Task) - 1 - Cardinality({}) = Cardinality(Task) - 1
          BY NobodyAhead
        <4> QED
          BY <3>3, <4>1 DEF Within, MaxDelay
      <3>5. left'[t] = left[t] - 1
        BY <2>10, <3>1, <3>4 DEF Tick
      <3>6. \A u \in Task : left'[u] \in Int /\ left[u] - 1 <= left'[u]
        BY <2>10 DEF Tick
      <3>7. AheadOf(t)' \subseteq AheadOf(t)
        <4>1. ASSUME NEW u \in Task, Ahead(u, t)'
              PROVE  Ahead(u, t)
          BY <3>1, <3>2, <3>5, <3>6, <4>1 DEF Ahead, InHandOrQueued, callerVars
        <4> QED
          BY <4>1 DEF AheadOf
      <3>8. current \notin AheadOf(t)
        <4>1. left[current] > left[t]
          BY <1>2, <3>2, <3>5 DEF DueTimes, GoesToSleep
        <4> QED
          BY <3>1, <3>2, <4>1 DEF AheadOf, Ahead, InHandOrQueued
      <3>9. Within(left[t] - sleep, AheadOf(t))
        <4>1. AheadOf(t) \ {current} = AheadOf(t)
          BY <3>8
        <4> QED
          BY <3>1, <3>2, <4>1 DEF Delayed, GoesToSleep
      <3>10. Within(left'[t], AheadOf(t)')
        <4>1. left[t] - sleep \in Int /\ left[t] - sleep <= left'[t]
          BY <3>2, <3>5
        <4> QED
          BY <3>6, <3>7, <3>9, <4>1, AheadIsOther, FewerAhead
      <3>11. Within(left'[t] - sleep', AheadOf(t)' \ {current})
        <4>1. left'[t] - sleep' = left[t] - sleep /\ left[t] - sleep \in Int
          BY <3>2, <3>5
        <4>2. AheadOf(t)' \ {current} \in SUBSET AheadOf(t)
          BY <3>7
        <4>3. Within(left[t] - sleep, AheadOf(t)' \ {current})
          <5>1. left[t] - sleep <= left[t] - sleep
            BY <4>1
          <5> DEFINE d == left[t] - sleep
          <5> HIDE DEF d
          <5>2. d \in Int /\ d <= d /\ Within(d, AheadOf(t))
            BY <3>9, <4>1, <5>1 DEF d
          <5>3. Within(d, AheadOf(t)' \ {current})
            BY <4>2, <5>2, AheadIsOther, FewerAhead
          <5> QED
            BY <5>3 DEF d
        <4> QED
          BY <4>1, <4>3
      <3> QED
        BY <3>1, <3>2, <3>10, <3>11 DEF Delayed
    <2> QED
      BY <2>1, <2>2, <2>3, <2>4, <2>5, <2>6, <2>7, <2>8, <2>9, <2>10
         DEF Next, ManagerThread, Adding
  <1> QED
    BY <1>1, <1>2

(* However often a notification is lost, a task in the queue is late by no  *)
(* more than one longest timeout for each other task.                       *)
THEOREM DelayIsBounded == Spec => []DelayBounded
  <1>1. Init => DelayInv
    BY DueTimesInit DEF Init, DelayInv
  <1>2. TypeOK /\ TypeOK' /\ DelayInv /\ [Next]_vars => DelayInv'
    BY DueTimesStep, DelayStep DEF DelayInv
  <1>3. TypeOK /\ DelayInv => DelayBounded
    <2> SUFFICES ASSUME TypeOK, DelayInv, NEW t \in Task, queue[t] > 0
                 PROVE  left[t] >= - MaxDelay
      BY DEF DelayBounded
    <2>1. left[t] \in Int
      BY DEF TypeOK
    <2>2. Within(left[t], AheadOf(t))
      BY DEF DelayInv, Delayed
    <2>3. {} \in SUBSET AheadOf(t)
      OBVIOUS
    <2>4. Within(left[t], {})
      BY <2>1, <2>2, <2>3, AheadIsOther, FewerAhead
    <2>5. Cardinality(Task) - 1 - Cardinality({}) = Cardinality(Task) - 1
      BY NobodyAhead
    <2> QED
      BY <2>4, <2>5 DEF Within, MaxDelay
  <1> QED
    BY <1>1, <1>2, <1>3, ManagerTypeCorrect, PTL DEF Spec
===========================================================================
