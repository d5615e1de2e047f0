CONSTANTS
    Worker = {w1, w2, w3}
    None = None
    MaxTask = 3
SPECIFICATION FairSpec
INVARIANTS NoSleeperWhileTasksWait
PROPERTIES QueuedTaskStarts ImplementsTaskQueue
\* The pool ends when shutdown has joined its threads.
CHECK_DEADLOCK FALSE
