\* The destructor, called while a worker is about to sleep, never returns.
SPECIFICATION FairSpec
CONSTANTS
    Workers = {w1, w2}
    NumTasks = 1
PROPERTY DestructorReturns
CHECK_DEADLOCK FALSE
