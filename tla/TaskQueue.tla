------------------------------ MODULE TaskQueue ------------------------------
(***************************************************************************)
(* What the thread pool promises to the code that submits work to it:      *)
(* tasks are numbered in submission order, each is handed to at most one   *)
(* worker, in that order, and each one handed out is handled once.  The    *)
(* mutex, the condition variable and the worker loop are in ThreadPool,    *)
(* which implements this module; Session is built on this module.          *)
(***************************************************************************)
EXTENDS Naturals, Sequences

CONSTANTS Worker,  \* the threads started by setThreadCount
          None     \* held by a worker that handles nothing; not a number

VARIABLES issued,   \* how many tasks were submitted; ids are 0 .. issued - 1
          queue,    \* ids waiting for a worker, oldest first
          held,     \* the id each worker is handling, or None
          handled   \* ids whose handling is over

queueVars == <<issued, queue, held, handled>>

Init ==
    /\ issued = 0
    /\ queue = <<>>
    /\ held = [w \in Worker |-> None]
    /\ handled = {}

\* newTask: the task gets the next id and goes to the end of the queue.
Submit ==
    /\ issued' = issued + 1
    /\ queue' = Append(queue, issued)
    /\ UNCHANGED <<held, handled>>

\* A free worker takes the oldest task.
Take(w) ==
    /\ held[w] = None
    /\ queue # <<>>
    /\ held' = [held EXCEPT ![w] = Head(queue)]
    /\ queue' = Tail(queue)
    /\ UNCHANGED <<issued, handled>>

\* The worker is done with its task.
Handle(w) ==
    /\ held[w] # None
    /\ handled' = handled \cup {held[w]}
    /\ held' = [held EXCEPT ![w] = None]
    /\ UNCHANGED <<issued, queue>>

Next == Submit \/ \E w \in Worker : Take(w) \/ Handle(w)

Spec == Init /\ [][Next]_queueVars
=============================================================================
