-------------------------- MODULE ThreadPoolProofs --------------------------
(* Theorems about ThreadPool, for every finite set of workers. *)
EXTENDS ThreadPool, FiniteSetTheorems, TLAPS

(* Sets of workers are finite, and adding or removing one worker changes
   their cardinality by one: what the counting argument below needs.       *)
LEMMA WorkerSets ==
    ASSUME NEW S \in SUBSET Worker
    PROVE  /\ Cardinality(S) \in Nat
           /\ \A w \in Worker \ S : Cardinality(S \cup {w}) = Cardinality(S) + 1
           /\ \A w \in S : Cardinality(S \ {w}) = Cardinality(S) - 1
  <1>1. IsFiniteSet(S)
    BY PoolAssumption, FS_Subset
  <1>2. Cardinality(S) \in Nat
    BY <1>1, FS_CardinalityType
  <1>3. \A w \in Worker \ S : Cardinality(S \cup {w}) = Cardinality(S) + 1
    BY <1>1, FS_AddElement
  <1>4. \A w \in S : Cardinality(S \ {w}) = Cardinality(S) - 1
    BY <1>1, FS_RemoveElement
  <1>5. QED
    BY <1>2, <1>3, <1>4

(* Initially no task exists and no worker is blocked. *)
LEMMA InitIInv == Init => IInv
  <1> SUFFICES ASSUME Init PROVE IInv
    OBVIOUS
  <1> USE DEF Init
  <1>1. TypeOK
    BY PoolAssumption DEF TypeOK, Location
  <1>2. QueueIsTail /\ TakenIsRest
    BY PoolAssumption DEF QueueIsTail, TakenIsRest
  <1>3. HeldOnce /\ MutexOwner /\ HeldWhileHandling
    BY PoolAssumption DEF HeldOnce, MutexOwner, HeldWhileHandling, Owner
  <1>4. SleepOnEmptyQueue /\ PopFindsTask
    BY DEF SleepOnEmptyQueue, PopFindsTask
  <1>5. NoSleeperWhileTasksWait
    BY DEF NoSleeperWhileTasksWait, Waiting
  <1>6. QED
    BY <1>1, <1>2, <1>3, <1>4, <1>5 DEF IInv

(* Submitting a task: the queue grows by one id, and so does Awake when a
   worker was blocked.                                                      *)
LEMMA NewTaskIInv == ASSUME IInv, NewTask PROVE IInv'
  <1> USE PoolAssumption
  <1>0. PICK woken \in SUBSET Worker :
          /\ \A w \in woken : pc[w] = "waiting"
          /\ \A w \in Worker : pc'[w] = IF w \in woken THEN "lock" ELSE pc[w]
          /\ pc' \in [Worker -> Location]
          /\ Waiting = {} => woken = {}
          /\ Waiting # {} => \E w \in Waiting : woken = {w}
    <2>1. CASE Waiting = {}
      <3>1. pc' = pc
        BY <2>1 DEF NewTask, NotifyOne
      <3>2. WITNESS {} \in SUBSET Worker
      <3>3. QED
        BY <2>1, <3>1 DEF IInv, TypeOK
    <2>2. CASE Waiting # {}
      <3>1. PICK w \in Waiting : pc' = [pc EXCEPT ![w] = "lock"]
        BY <2>2 DEF NewTask, NotifyOne, Goto
      <3>2. {w} \in SUBSET Worker
        BY <3>1 DEF Waiting
      <3>3. WITNESS {w} \in SUBSET Worker
      <3>4. QED
        BY <2>2, <3>1 DEF IInv, TypeOK, Waiting, Location
    <2>3. QED
      BY <2>1, <2>2
  <1>1. TypeOK'
    BY <1>0 DEF IInv, TypeOK, NewTask
  <1>2. /\ Len(tasks') = Len(tasks) + 1
        /\ tasks' \in Seq(Nat)
        /\ \A i \in 1 .. Len(tasks) : tasks'[i] = tasks[i]
        /\ tasks'[Len(tasks) + 1] = taskID
        /\ tasks' # <<>>
    BY DEF IInv, TypeOK, NewTask
  <1>3. QueueIsTail'
    BY <1>2 DEF IInv, TypeOK, QueueIsTail, NewTask
  <1>4. TakenIsRest'
    BY <1>2 DEF IInv, TypeOK, TakenIsRest, NewTask
  <1>5. HeldOnce'
    BY DEF IInv, HeldOnce, NewTask
  <1>6. MutexOwner' /\ HeldWhileHandling' /\ SleepOnEmptyQueue' /\ PopFindsTask'
    BY <1>0, <1>2 DEF IInv, MutexOwner, HeldWhileHandling, SleepOnEmptyQueue,
                      PopFindsTask, Owner, NewTask
  <1>7. NoSleeperWhileTasksWait'
    <2>1. CASE Waiting = {}
      <3>1. Waiting' = {}
        BY <1>0, <2>1 DEF Waiting
      <3>2. QED
        BY <3>1 DEF NoSleeperWhileTasksWait
    <2>2. CASE Waiting # {}
      <3>1. PICK w \in Waiting : woken = {w}
        BY <1>0, <2>2
      <3>2. w \in Worker \ Awake /\ Awake \in SUBSET Worker
        BY <3>1 DEF Waiting, Awake
      <3>3. Awake' = Awake \cup {w}
        BY <1>0, <3>1 DEF Waiting, Awake
      <3>4. Cardinality(Awake') = Cardinality(Awake) + 1 /\ Cardinality(Awake) \in Nat
        BY <3>2, <3>3, WorkerSets
      <3>5. running' = running
        BY DEF NewTask
      <3>6. QED
        BY <1>2, <2>2, <3>4, <3>5 DEF IInv, TypeOK, NoSleeperWhileTasksWait
    <2>3. QED
      BY <2>1, <2>2
  <1>8. QED
    BY <1>1, <1>3, <1>4, <1>5, <1>6, <1>7 DEF IInv

(* The steps of the main thread in shutdown. *)
LEMMA StopIInv == ASSUME IInv, ClearRunning \/ Stop PROVE IInv'
  <1> USE PoolAssumption
  <1>1. CASE ClearRunning \/ Join
    <2>1. /\ UNCHANGED <<tasks, taskID, inputMutex, pc, task, finished>>
          /\ running' = running \/ running' = FALSE
          /\ main' \in {"notify", "joined"}
      BY <1>1 DEF ClearRunning, Join
    <2>2. TypeOK'
      BY <2>1 DEF IInv, TypeOK
    <2>3. QueueIsTail' /\ TakenIsRest' /\ HeldOnce'
      BY <2>1 DEF IInv, QueueIsTail, TakenIsRest, HeldOnce
    <2>4. MutexOwner' /\ HeldWhileHandling' /\ SleepOnEmptyQueue' /\ PopFindsTask'
      BY <2>1 DEF IInv, MutexOwner, HeldWhileHandling, SleepOnEmptyQueue,
                  PopFindsTask
    <2>5. Waiting' = Waiting /\ Awake' = Awake
      BY <2>1 DEF Waiting, Awake
    <2>6. NoSleeperWhileTasksWait'
      BY <2>1, <2>5 DEF IInv, NoSleeperWhileTasksWait
    <2>7. QED
      BY <2>2, <2>3, <2>4, <2>6 DEF IInv
  <1>2. CASE NotifyAll
    <2>1. /\ UNCHANGED <<tasks, taskID, running, inputMutex, task, finished>>
          /\ main' = "join"
          /\ pc' \in [Worker -> Location]
          /\ \A w \in Worker :
               pc'[w] = IF pc[w] = "waiting" THEN "lock" ELSE pc[w]
      BY <1>2 DEF NotifyAll, NotifyAllWaiting, Waiting, IInv, TypeOK, Location
    <2>2. TypeOK' /\ QueueIsTail' /\ TakenIsRest' /\ HeldOnce'
      BY <2>1 DEF IInv, TypeOK, QueueIsTail, TakenIsRest, HeldOnce
    <2>3. MutexOwner' /\ HeldWhileHandling' /\ SleepOnEmptyQueue' /\ PopFindsTask'
      BY <2>1 DEF IInv, MutexOwner, HeldWhileHandling, SleepOnEmptyQueue,
                  PopFindsTask, Owner
    <2>4. Waiting' = {}
      BY <2>1 DEF Waiting
    <2>5. QED
      BY <2>2, <2>3, <2>4 DEF IInv, NoSleeperWhileTasksWait
  <1>3. QED
    BY <1>1, <1>2 DEF Stop

(* The steps of a worker that move it in its loop and touch no task. *)
LEMMA MoveIInv ==
    ASSUME IInv, NEW w \in Worker,
           \/ TestRunning(w) \/ Lock(w) \/ TestPredicate(w)
           \/ Sleep(w) \/ Throw(w) \/ SpuriousWakeup(w)
    PROVE  IInv'
  <1> USE PoolAssumption
  <1>0. /\ UNCHANGED <<tasks, taskID, running, task, finished, main>>
        /\ \E l \in Location \ {"handle"} : pc' = [pc EXCEPT ![w] = l]
        /\ pc[w] # "handle"
    BY DEF TestRunning, Lock, TestPredicate, Sleep, Throw, SpuriousWakeup, Goto,
           Location
  <1>1. TypeOK'
    <2>1. inputMutex' \in Worker \cup {None}
      BY DEF TestRunning, Lock, TestPredicate, Sleep, Throw, SpuriousWakeup,
             IInv, TypeOK
    <2>2. QED
      BY <1>0, <2>1 DEF IInv, TypeOK
  <1>2. QueueIsTail' /\ TakenIsRest' /\ HeldOnce' /\ HeldWhileHandling'
    BY <1>0 DEF IInv, TypeOK, QueueIsTail, TakenIsRest, HeldOnce, HeldWhileHandling
  <1>3. MutexOwner'
    BY DEF TestRunning, Lock, TestPredicate, Sleep, Throw, SpuriousWakeup, Goto,
           IInv, TypeOK, MutexOwner, Owner
  <1>4. SleepOnEmptyQueue'
    BY <1>0 DEF TestRunning, Lock, TestPredicate, Sleep, Throw, SpuriousWakeup,
           Goto, IInv, TypeOK, SleepOnEmptyQueue
  <1>5. PopFindsTask'
    BY <1>0 DEF TestRunning, Lock, TestPredicate, Sleep, Throw, SpuriousWakeup,
           Goto, IInv, TypeOK, PopFindsTask
  <1>6. NoSleeperWhileTasksWait'
    <2>1. CASE tasks = <<>>
      <3>1. Awake' \in SUBSET Worker
        BY DEF Awake
      <3>2. Cardinality(Awake') \in Nat
        BY <3>1, WorkerSets
      <3>3. tasks' = tasks /\ Len(tasks) = 0
        BY <1>0, <2>1
      <3>4. QED
        BY <3>2, <3>3 DEF NoSleeperWhileTasksWait
    <2>2. CASE ~running
      BY <1>0, <2>2 DEF NoSleeperWhileTasksWait
    <2>3. CASE tasks # <<>> /\ running
      <3>1. ~Throw(w) /\ ~Sleep(w)
        BY <2>3 DEF Throw, Sleep, IInv, SleepOnEmptyQueue
      <3>2. CASE TestRunning(w) \/ Lock(w) \/ TestPredicate(w)
        <4>1. Awake' = Awake /\ Waiting' = Waiting
          BY <2>3, <3>2 DEF TestRunning, Lock, TestPredicate, Goto, IInv,
                            TypeOK, Awake, Waiting
        <4>2. QED
          BY <1>0, <4>1 DEF IInv, NoSleeperWhileTasksWait
      <3>3. CASE SpuriousWakeup(w)
        <4>1. /\ Awake \in SUBSET Worker /\ w \in Worker \ Awake
              /\ Awake' = Awake \cup {w} /\ Waiting # {}
          BY <3>3 DEF SpuriousWakeup, Goto, IInv, TypeOK, Awake, Waiting
        <4>2. Cardinality(Awake') = Cardinality(Awake) + 1 /\ Cardinality(Awake) \in Nat
          BY <4>1, WorkerSets
        <4>3. QED
          BY <1>0, <4>1, <4>2 DEF IInv, TypeOK, NoSleeperWhileTasksWait
      <3>4. QED
        BY <3>1, <3>2, <3>3
    <2>4. QED
      BY <2>1, <2>2, <2>3
  <1>7. QED
    BY <1>1, <1>2, <1>3, <1>4, <1>5, <1>6 DEF IInv

(* Taking a task: the oldest id leaves the queue for the worker, and the
   worker leaves Awake, so both sides of the counting bound go down by one. *)
LEMMA PopIInv == ASSUME IInv, NEW w \in Worker, Pop(w) PROVE IInv'
  <1> USE PoolAssumption
  <1>1. /\ tasks # <<>> /\ tasks \in Seq(Nat) /\ taskID \in Nat
        /\ running = TRUE /\ pc[w] = "take" /\ task[w] = None /\ inputMutex = w
    BY DEF Pop, IInv, TypeOK, PopFindsTask, HeldWhileHandling, MutexOwner, Owner
  <1>2. /\ Len(tasks) \in Nat \ {0} /\ Head(tasks) = tasks[1]
        /\ Head(tasks) \in Nat
        /\ Tail(tasks) \in Seq(Nat) /\ Len(Tail(tasks)) = Len(tasks) - 1
        /\ \A i \in 1 .. (Len(tasks) - 1) : Tail(tasks)[i] = tasks[i + 1]
    BY <1>1
  <1>3. Head(tasks) = taskID - Len(tasks) /\ Len(tasks) <= taskID
    BY <1>1, <1>2 DEF IInv, QueueIsTail
  <1>4. /\ tasks' = Tail(tasks) /\ task' = [task EXCEPT ![w] = Head(tasks)]
        /\ pc' = [pc EXCEPT ![w] = "handle"] /\ inputMutex' = None
        /\ UNCHANGED <<taskID, running, finished, main>>
    BY DEF Pop, Goto
  <1>5. /\ pc \in [Worker -> Location] /\ task \in [Worker -> Nat \cup {None}]
        /\ finished \in SUBSET Nat
        /\ \A v \in Worker : task'[v] = IF v = w THEN taskID - Len(tasks) ELSE task[v]
        /\ \A v \in Worker : pc'[v] = IF v = w THEN "handle" ELSE pc[v]
    BY <1>3, <1>4 DEF IInv, TypeOK
  <1>6. TypeOK'
    BY <1>2, <1>4 DEF IInv, TypeOK, Location
  <1>7. QueueIsTail'
    BY <1>1, <1>2, <1>4 DEF IInv, QueueIsTail
  <1>8. TakenIsRest'
    <2>1. taskID' - Len(tasks') = (taskID - Len(tasks)) + 1
      BY <1>1, <1>2, <1>4
    <2>2. \A n \in Nat : n < taskID - Len(tasks) + 1 <=>
                          n < taskID - Len(tasks) \/ n = taskID - Len(tasks)
      BY <1>1, <1>2, <1>3
    <2>3. \A n \in Nat : (\E v \in Worker : task'[v] = n) <=>
            n = taskID - Len(tasks) \/ \E v \in Worker : task[v] = n
      BY <1>1, <1>5
    <2>4. QED
      BY <2>1, <2>2, <2>3, <1>4 DEF IInv, TakenIsRest
  <1>9. HeldOnce'
    <2>1. taskID - Len(tasks) \in Nat
      BY <1>1, <1>2, <1>3
    <2>2. /\ taskID - Len(tasks) \notin finished
          /\ \A v \in Worker : task[v] # taskID - Len(tasks)
      BY <2>1 DEF IInv, TakenIsRest
    <2>3. QED
      BY <2>2, <1>4, <1>5 DEF IInv, HeldOnce
  <1>10. MutexOwner'
    BY <1>1, <1>4, <1>5 DEF IInv, MutexOwner, Owner
  <1>11. HeldWhileHandling'
    BY <1>1, <1>2, <1>3, <1>5 DEF IInv, HeldWhileHandling
  <1>12. SleepOnEmptyQueue' /\ PopFindsTask'
    BY <1>1, <1>5 DEF IInv, MutexOwner, SleepOnEmptyQueue, PopFindsTask, Owner
  <1>13. NoSleeperWhileTasksWait'
    <2>1. Waiting' = Waiting /\ Awake' = Awake \ {w} /\ w \in Awake
      BY <1>1, <1>5 DEF Waiting, Awake
    <2>2. Awake \in SUBSET Worker
      BY DEF Awake
    <2>3. Cardinality(Awake') = Cardinality(Awake) - 1 /\ Cardinality(Awake) \in Nat
      BY <2>1, <2>2, WorkerSets
    <2>4. QED
      BY <1>1, <1>2, <1>4, <2>1, <2>3 DEF IInv, NoSleeperWhileTasksWait
  <1>14. QED
    BY <1>6, <1>7, <1>8, <1>9, <1>10, <1>11, <1>12, <1>13 DEF IInv

(* Finishing a task. *)
LEMMA HandleIInv == ASSUME IInv, NEW w \in Worker, Handle(w) PROVE IInv'
  <1> USE PoolAssumption
  <1>1. /\ pc[w] = "handle" /\ task[w] # None /\ task[w] \in Nat
        /\ pc \in [Worker -> Location] /\ task \in [Worker -> Nat \cup {None}]
        /\ finished \in SUBSET Nat
    BY DEF Handle, IInv, TypeOK, HeldWhileHandling
  <1>2. /\ UNCHANGED <<tasks, taskID, running, inputMutex, main>>
        /\ finished' = finished \cup {task[w]}
        /\ task' = [task EXCEPT ![w] = None] /\ pc' = [pc EXCEPT ![w] = "loop"]
    BY DEF Handle, Goto
  <1>3. /\ \A v \in Worker : task'[v] = IF v = w THEN None ELSE task[v]
        /\ \A v \in Worker : pc'[v] = IF v = w THEN "loop" ELSE pc[v]
    BY <1>1, <1>2
  <1>4. TypeOK'
    BY <1>1, <1>2 DEF IInv, TypeOK, Location
  <1>5. QueueIsTail'
    BY <1>2 DEF IInv, QueueIsTail
  <1>6. TakenIsRest'
    <2>1. \A n \in Nat : (n \in finished' \/ \E v \in Worker : task'[v] = n) <=>
                          (n \in finished \/ \E v \in Worker : task[v] = n)
      BY <1>1, <1>2, <1>3
    <2>2. QED
      BY <1>2, <2>1 DEF IInv, TakenIsRest
  <1>7. HeldOnce'
    BY <1>1, <1>2, <1>3 DEF IInv, HeldOnce
  <1>8. MutexOwner' /\ HeldWhileHandling' /\ SleepOnEmptyQueue' /\ PopFindsTask'
    BY <1>1, <1>2, <1>3 DEF IInv, MutexOwner, HeldWhileHandling,
                            SleepOnEmptyQueue, PopFindsTask, Owner
  <1>9. NoSleeperWhileTasksWait'
    <2>1. Waiting' = Waiting /\ Awake' = Awake \cup {w} /\ w \in Worker \ Awake
      BY <1>1, <1>3 DEF Waiting, Awake
    <2>2. Awake \in SUBSET Worker
      BY DEF Awake
    <2>3. Cardinality(Awake') = Cardinality(Awake) + 1 /\ Cardinality(Awake) \in Nat
      BY <2>1, <2>2, WorkerSets
    <2>4. QED
      BY <1>2, <2>1, <2>3 DEF IInv, TypeOK, NoSleeperWhileTasksWait
  <1>10. QED
    BY <1>4, <1>5, <1>6, <1>7, <1>8, <1>9 DEF IInv

(* Every step of the pool preserves the invariant. *)
LEMMA NextIInv == IInv /\ [Next]_vars => IInv'
  <1> SUFFICES ASSUME IInv, [Next]_vars PROVE IInv'
    OBVIOUS
  <1>1. CASE NewTask
    BY <1>1, NewTaskIInv
  <1>2. CASE ClearRunning \/ Stop
    BY <1>2, StopIInv
  <1>3. ASSUME NEW w \in Worker, Run(w) \/ SpuriousWakeup(w) PROVE IInv'
    BY <1>3, MoveIInv, PopIInv, HandleIInv DEF Run
  <1>4. CASE UNCHANGED vars
    BY <1>4 DEF vars, IInv, TypeOK, QueueIsTail, TakenIsRest, HeldOnce,
                MutexOwner, HeldWhileHandling, SleepOnEmptyQueue, PopFindsTask,
                NoSleeperWhileTasksWait, Waiting, Awake
  <1>5. QED
    BY <1>1, <1>2, <1>3, <1>4 DEF Next

(* The invariant holds all the time. *)
LEMMA Invariance == Spec => []IInv
  <1>1. QED
    BY InitIInv, NextIInv, PTL DEF Spec

(* The variables keep their types. *)
THEOREM TypeCorrect == Spec => []TypeOK
  <1>1. IInv => TypeOK
    BY DEF IInv
  <1>2. QED
    BY <1>1, Invariance, PTL

(* A worker past its wait finds a task: the queue is never popped empty. *)
THEOREM PopSafe == Spec => []PopFindsTask
  <1>1. IInv => PopFindsTask
    BY DEF IInv
  <1>2. QED
    BY <1>1, Invariance, PTL

(* No notification is lost while the pool runs. *)
THEOREM NoLostWakeup == Spec => []NoSleeperWhileTasksWait
  <1>1. IInv => NoSleeperWhileTasksWait
    BY DEF IInv
  <1>2. QED
    BY <1>1, Invariance, PTL

(* Tasks are neither lost nor repeated between newTask and the end of their
   handling.                                                                *)
THEOREM Conservation == Spec => []EachTaskInOnePlace
  <1>1. ASSUME IInv PROVE EachTaskInOnePlace
    <2> USE PoolAssumption
    <2>1. /\ tasks \in Seq(Nat) /\ Len(tasks) \in Nat /\ taskID \in Nat
          /\ DOMAIN tasks = 1 .. Len(tasks) /\ Len(tasks) <= taskID
          /\ \A i \in 1 .. Len(tasks) : tasks[i] = taskID - Len(tasks) + i - 1
          /\ task \in [Worker -> Nat \cup {None}] /\ finished \in SUBSET Nat
      BY <1>1 DEF IInv, TypeOK, QueueIsTail
    <2>2. Queued = (taskID - Len(tasks)) .. (taskID - 1)
      <3>1. ASSUME NEW n \in (taskID - Len(tasks)) .. (taskID - 1) PROVE n \in Queued
        <4>1. /\ n - (taskID - Len(tasks)) + 1 \in 1 .. Len(tasks)
              /\ tasks[n - (taskID - Len(tasks)) + 1] = n
          BY <2>1
        <4>2. QED
          BY <2>1, <4>1 DEF Queued
      <3>2. Queued \subseteq (taskID - Len(tasks)) .. (taskID - 1)
        BY <2>1 DEF Queued
      <3>3. QED
        BY <3>1, <3>2
    <2>3. Held \cup finished = 0 .. (taskID - Len(tasks) - 1)
      <3>1. Held \cup finished \subseteq Nat
        BY <2>1 DEF Held
      <3>2. \A n \in Nat : n \in Held \cup finished <=> n < taskID - Len(tasks)
        BY <1>1 DEF IInv, TakenIsRest, Held
      <3>3. QED
        BY <2>1, <3>1, <3>2
    <2>4. Queued \cap (Held \cup finished) = {}
      BY <2>1, <2>2, <2>3
    <2>5. Queued \cup Held \cup finished = 0 .. (taskID - 1)
      <3>1. Queued \cup Held \cup finished = Queued \cup (Held \cup finished)
        OBVIOUS
      <3>2. QED
        BY <2>1, <2>2, <2>3, <3>1
    <2>6. Held \cap finished = {}
      BY <1>1 DEF IInv, HeldOnce, Held
    <2>7. \A i, j \in DOMAIN tasks : tasks[i] = tasks[j] => i = j
      BY <2>1
    <2>8. QED
      BY <1>1, <2>4, <2>5, <2>6, <2>7 DEF IInv, HeldOnce, EachTaskInOnePlace
  <1>2. QED
    BY <1>1, Invariance, PTL

(* Workers start tasks in submission order. *)
THEOREM Order == Spec => StartedInOrder
  <1>1. ASSUME IInv, [Next]_vars
        PROVE  [\A w \in Worker :
                  task'[w] # task[w] /\ task'[w] # None =>
                    \A id \in Held \cup finished : id < task'[w]]_vars
    <2> USE PoolAssumption
    <2>1. SUFFICES ASSUME NEW w \in Worker, task'[w] # task[w], task'[w] # None,
                          NEW id \in Held \cup finished
                   PROVE  id < task'[w]
      OBVIOUS
    <2>2. Pop(w)
      BY <1>1, <2>1 DEF Next, Run, Stop, NewTask, ClearRunning, NotifyAll, Join,
           TestRunning, Lock, TestPredicate, Sleep, Throw, SpuriousWakeup, Pop,
           Handle, vars, IInv, TypeOK
    <2>3. /\ tasks \in Seq(Nat) /\ tasks # <<>> /\ taskID \in Nat
          /\ task'[w] = Head(tasks)
      BY <1>1, <2>2 DEF Pop, IInv, TypeOK, PopFindsTask
    <2>4. task'[w] = taskID - Len(tasks)
      BY <1>1, <2>3 DEF IInv, QueueIsTail
    <2>5. id \in Nat /\ (id \in finished \/ \E v \in Worker : task[v] = id)
      BY <1>1 DEF Held, IInv, TypeOK
    <2>6. QED
      BY <1>1, <2>4, <2>5 DEF IInv, TakenIsRest
  <1>2. QED
    BY <1>1, Invariance, PTL DEF Spec, StartedInOrder

(* The pool implements TaskQueue, the specification its clients rely on. *)
THEOREM Refinement == Spec => ImplementsTaskQueue
  <1>1. Init => Promise!Init
    BY DEF Init, Promise!Init
  <1>2. ASSUME IInv, [Next]_vars
        PROVE  [Promise!Next]_(Promise!queueVars)
    <2>1. CASE NewTask
      BY <2>1 DEF NewTask, Promise!Next, Promise!Submit
    <2>2. CASE ClearRunning \/ Stop
      BY <2>2 DEF ClearRunning, Stop, NotifyAll, Join, Promise!queueVars
    <2>3. ASSUME NEW w \in Worker, Run(w) \/ SpuriousWakeup(w)
          PROVE  [Promise!Next]_(Promise!queueVars)
      <3>1. CASE Pop(w)
        <4>1. task[w] = None /\ tasks # <<>>
          BY <1>2, <3>1 DEF Pop, IInv, PopFindsTask, HeldWhileHandling
        <4>2. QED
          BY <3>1, <4>1 DEF Pop, Promise!Next, Promise!Take
      <3>2. CASE Handle(w)
        <4>1. task[w] # None
          BY <1>2, <3>2 DEF Handle, IInv, HeldWhileHandling
        <4>2. QED
          BY <3>2, <4>1 DEF Handle, Promise!Next, Promise!Handle
      <3>3. CASE ~Pop(w) /\ ~Handle(w)
        BY <2>3, <3>3 DEF Run, TestRunning, Lock, TestPredicate, Sleep, Throw,
                          SpuriousWakeup, Promise!queueVars
      <3>4. QED
        BY <3>1, <3>2, <3>3
    <2>4. CASE UNCHANGED vars
      BY <2>4 DEF vars, Promise!queueVars
    <2>5. QED
      BY <1>2, <2>1, <2>2, <2>3, <2>4 DEF Next
  <1>3. QED
    BY <1>1, <1>2, Invariance, PTL DEF Spec, ImplementsTaskQueue, Promise!Spec
=============================================================================
