------------------------------ MODULE ThreadPool ------------------------------
(***************************************************************************)
(* The thread pool of src/threadpool.h: worker threads that loop over      *)
(* execute(), and the main thread that queues tasks with newTask() and     *)
(* stops the pool with shutdown().  A step of this module is what a thread *)
(* does between two points where another thread can get in: acquiring      *)
(* inputMutex, the unprotected reads and writes of `running', and blocking *)
(* on taskCondition.  What a task does is TaskQueue's client's business.   *)
(***************************************************************************)
EXTENDS Naturals, Sequences, FiniteSets

CONSTANTS Worker,   \* the threads started by setThreadCount
          None,     \* no task, no mutex owner
          MaxTask   \* bound on the tasks submitted (taskID is a uint32_t)

ASSUME PoolAssumption ==
    /\ Worker # {}
    /\ IsFiniteSet(Worker)
    /\ None \notin Worker
    /\ None \notin Nat
    /\ MaxTask \in Nat

VARIABLES
    tasks,       \* the queue: ids of the tasks no worker has taken
    taskID,      \* the id newTask gives next
    running,     \* cleared by shutdown, without the mutex
    inputMutex,  \* the worker that owns it, or None
    pc,          \* where each worker is in its loop
    task,        \* the task a worker has popped, or None
    finished,    \* ids handled and deleted (history)
    main         \* the main thread: serving, then the steps of shutdown

vars == <<tasks, taskID, running, inputMutex, pc, task, finished, main>>

(* loop     about to read `running' in the while of setThreadCount's lambda
   lock     about to (re)acquire inputMutex
   test     owns the mutex, about to evaluate the wait predicate
   sleep    owns the mutex, predicate false, not yet blocked
   waiting  blocked on taskCondition
   take     owns the mutex, past the wait
   handle   outside the mutex, working on its task
   exited   the thread function returned                                  *)
Location == {"loop", "lock", "test", "sleep", "waiting", "take",
             "handle", "exited"}

Owner == {"test", "sleep", "take"}

Init ==
    /\ tasks = <<>>
    /\ taskID = 0
    /\ running = TRUE
    /\ inputMutex = None
    /\ pc = [w \in Worker |-> "loop"]
    /\ task = [w \in Worker |-> None]
    /\ finished = {}
    /\ main = "serve"

Waiting == {w \in Worker : pc[w] = "waiting"}

Goto(w, l) == pc' = [pc EXCEPT ![w] = l]

-----------------------------------------------------------------------------
(* The main thread *)

\* Faulty: a notification that wakes nobody up.
NotifyNobody == pc' = pc

\* notify_one: some blocked worker, if there is one, goes for the mutex.
NotifyOne ==
    IF Waiting = {} THEN pc' = pc ELSE \E w \in Waiting : Goto(w, "lock")

\* notify_all: every worker blocked at this instant goes for the mutex.
NotifyAllWaiting ==
    pc' = [w \in Worker |-> IF w \in Waiting THEN "lock" ELSE pc[w]]

\* Faulty: the task is queued without the mutex.
NewTaskUnlocked ==
    /\ main = "serve"
    /\ taskID < MaxTask
    /\ tasks' = Append(tasks, taskID)
    /\ taskID' = taskID + 1
    /\ NotifyOne
    /\ UNCHANGED <<running, inputMutex, task, finished, main>>

\* newTask holds inputMutex throughout, so nothing comes between its steps.
NewTask ==
    /\ main = "serve"
    /\ taskID < MaxTask
    /\ inputMutex = None
    /\ tasks' = Append(tasks, taskID)
    /\ taskID' = taskID + 1
    /\ NotifyOne
    /\ UNCHANGED <<running, inputMutex, task, finished, main>>

\* shutdown clears `running' without taking inputMutex ...
ClearRunning ==
    /\ main = "serve"
    /\ running' = FALSE
    /\ main' = "notify"
    /\ UNCHANGED <<tasks, taskID, inputMutex, pc, task, finished>>

\* ... then notifies ...
NotifyAll ==
    /\ main = "notify"
    /\ NotifyAllWaiting
    /\ main' = "join"
    /\ UNCHANGED <<tasks, taskID, running, inputMutex, task, finished>>

\* ... and joins the threads: it returns when all of them have exited.
Join ==
    /\ main = "join"
    /\ \A w \in Worker : pc[w] = "exited"
    /\ main' = "joined"
    /\ UNCHANGED <<tasks, taskID, running, inputMutex, pc, task, finished>>

-----------------------------------------------------------------------------
(* A worker *)

\* while (running)
TestRunning(w) ==
    /\ pc[w] = "loop"
    /\ Goto(w, IF running THEN "lock" ELSE "exited")
    /\ UNCHANGED <<tasks, taskID, running, inputMutex, task, finished, main>>

\* The lock at the top of execute, or the one wait takes back on waking up.
Lock(w) ==
    /\ pc[w] = "lock"
    /\ inputMutex = None
    /\ inputMutex' = w
    /\ Goto(w, "test")
    /\ UNCHANGED <<tasks, taskID, running, task, finished, main>>

\* !tasks.empty() || !running
TestPredicate(w) ==
    /\ pc[w] = "test"
    /\ Goto(w, IF tasks # <<>> \/ ~running THEN "take" ELSE "sleep")
    /\ UNCHANGED <<tasks, taskID, running, inputMutex, task, finished, main>>

\* Releases the mutex and blocks, in one step with respect to that mutex.
Sleep(w) ==
    /\ pc[w] = "sleep"
    /\ inputMutex' = None
    /\ Goto(w, "waiting")
    /\ UNCHANGED <<tasks, taskID, running, task, finished, main>>

\* A condition variable may wake up a thread nobody notified.
SpuriousWakeup(w) ==
    /\ pc[w] = "waiting"
    /\ Goto(w, "lock")
    /\ UNCHANGED <<tasks, taskID, running, inputMutex, task, finished, main>>

\* The exception thrown once `running' is false unlocks the mutex and is
\* swallowed by the loop.
Throw(w) ==
    /\ pc[w] = "take"
    /\ ~running
    /\ inputMutex' = None
    /\ Goto(w, "loop")
    /\ UNCHANGED <<tasks, taskID, running, task, finished, main>>

\* Faulty: front() without pop().
PopNothing(w) ==
    /\ pc[w] = "take"
    /\ running
    /\ task' = [task EXCEPT ![w] = Head(tasks)]
    /\ inputMutex' = None
    /\ Goto(w, "handle")
    /\ UNCHANGED <<tasks, taskID, running, finished, main>>

\* Pop the oldest task, unlock, and go to work.
Pop(w) ==
    /\ pc[w] = "take"
    /\ running
    /\ task' = [task EXCEPT ![w] = Head(tasks)]
    /\ tasks' = Tail(tasks)
    /\ inputMutex' = None
    /\ Goto(w, "handle")
    /\ UNCHANGED <<taskID, running, finished, main>>

\* The task is handled, reported and deleted; back to the loop.
Handle(w) ==
    /\ pc[w] = "handle"
    /\ finished' = finished \cup {task[w]}
    /\ task' = [task EXCEPT ![w] = None]
    /\ Goto(w, "loop")
    /\ UNCHANGED <<tasks, taskID, running, inputMutex, main>>

-----------------------------------------------------------------------------
Run(w) ==
    \/ TestRunning(w) \/ Lock(w) \/ TestPredicate(w) \/ Sleep(w)
    \/ Throw(w) \/ Pop(w) \/ Handle(w)

Stop == NotifyAll \/ Join

Next ==
    \/ NewTask \/ ClearRunning \/ Stop
    \/ \E w \in Worker : Run(w) \/ SpuriousWakeup(w)

Spec == Init /\ [][Next]_vars

\* A runnable thread is eventually scheduled, and handling a task ends.
\* Nothing is assumed of spurious wake-ups, of submissions or of the
\* decision to shut down.
FairSpec ==
    /\ Spec
    /\ WF_vars(Stop)
    /\ \A w \in Worker : WF_vars(Run(w))

-----------------------------------------------------------------------------
(* Properties *)

Queued == {tasks[i] : i \in DOMAIN tasks}

Held == {task[w] : w \in {v \in Worker : task[v] # None}}

\* The variables have their types.
TypeOK ==
    /\ tasks \in Seq(Nat)
    /\ taskID \in Nat
    /\ running \in BOOLEAN
    /\ inputMutex \in Worker \cup {None}
    /\ pc \in [Worker -> Location]
    /\ task \in [Worker -> Nat \cup {None}]
    /\ finished \in SUBSET Nat
    /\ main \in {"serve", "notify", "join", "joined"}

\* Every task submitted is in exactly one place: in the queue (once), with
\* one worker, or finished.  Popping and unlocking lose and repeat
\* nothing.  Runs check it as a part of implementing TaskQueue.
EachTaskInOnePlace ==
    /\ Queued \cup Held \cup finished = 0 .. (taskID - 1)
    /\ Queued \cap Held = {}
    /\ Queued \cap finished = {}
    /\ Held \cap finished = {}
    /\ \A i, j \in DOMAIN tasks : tasks[i] = tasks[j] => i = j
    /\ \A v, w \in Worker : task[v] = task[w] /\ task[v] # None => v = w

\* tasks.front() is never called on an empty queue: a worker past its wait
\* while the pool runs has a task to take, whatever the others did.
PopFindsTask ==
    \A w \in Worker : pc[w] = "take" /\ running => tasks # <<>>

Awake == {w \in Worker : pc[w] \in {"loop", "lock", "test", "take"}}

\* No worker sleeps while there are more tasks queued than workers on their
\* way to take one: no notify_one is lost or spent on a busy thread.
NoSleeperWhileTasksWait ==
    running /\ Waiting # {} => Len(tasks) <= Cardinality(Awake)

\* Tasks are started in the order they were submitted.
StartedInOrder ==
    [][\A w \in Worker :
         task'[w] # task[w] /\ task'[w] # None =>
           \A id \in Held \cup finished : id < task'[w]]_vars

\* A queued task is taken by some worker unless the pool is shut down.
QueuedTaskStarts ==
    \A id \in 0 .. (MaxTask - 1) :
        id \in Queued /\ running ~> id \notin Queued \/ ~running

\* "Clean up the threads" (threadpool.h): a shutdown that has started
\* returns, with every thread joined.
ShutdownReturns == main = "notify" ~> main = "joined"

-----------------------------------------------------------------------------
(* The inductive invariant behind the safety properties *)

\* The queue holds the ids issued last, in order.
QueueIsTail ==
    /\ Len(tasks) <= taskID
    /\ \A i \in 1 .. Len(tasks) : tasks[i] = taskID - Len(tasks) + i - 1

\* An id was taken exactly if it is older than those in the queue.
TakenIsRest ==
    \A n \in Nat : n < taskID - Len(tasks) <=>
                     n \in finished \/ \E w \in Worker : task[w] = n

\* A task is with one worker, and not finished yet.
HeldOnce ==
    /\ \A w \in Worker : task[w] \notin finished
    /\ \A v, w \in Worker : task[v] = task[w] /\ task[v] # None => v = w

\* The worker inside execute's critical section owns the mutex.
MutexOwner == \A w \in Worker : pc[w] \in Owner <=> inputMutex = w

HeldWhileHandling == \A w \in Worker : task[w] # None <=> pc[w] = "handle"

\* Nothing is queued between a false predicate and blocking.
SleepOnEmptyQueue == \A w \in Worker : pc[w] = "sleep" => tasks = <<>>

IInv ==
    /\ TypeOK
    /\ QueueIsTail
    /\ TakenIsRest
    /\ HeldOnce
    /\ MutexOwner
    /\ HeldWhileHandling
    /\ SleepOnEmptyQueue
    /\ PopFindsTask
    /\ NoSleeperWhileTasksWait

-----------------------------------------------------------------------------
(* The promise to the submitters *)

Promise == INSTANCE TaskQueue
    WITH issued <- taskID, queue <- tasks, held <- task, handled <- finished

\* Every behaviour of the pool is one of TaskQueue.
ImplementsTaskQueue == Promise!Spec

=============================================================================
