\* Three workers and four tasks: more tasks than workers, so that tasks queue up.
\* No symmetry, which is unsound for liveness.
SPECIFICATION FairSpec
CONSTANTS
    Workers = {w1, w2, w3}
    NumTasks = 4
INVARIANTS
    TypeOK
    IInv
    ExactlyOnceInOrder
    NoStrandedTask
    WorkConserving
    UsageIsExact
    ShutdownDrains
PROPERTIES
    ImplementsTaskPool
    SubmittedTasksFinish
\* The pool stops for good once the destructor has returned, or has lost a wakeup.
CHECK_DEADLOCK FALSE
