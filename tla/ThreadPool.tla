----------------------------- MODULE ThreadPool -----------------------------
(***************************************************************************)
(* The thread pool of src/src/system/thread_pool.cpp: a task queue guarded *)
(* by queueMutex, worker threads that sleep on a condition variable, the   *)
(* one thread that submits (Server::AcceptConnections, server.cpp:218) and *)
(* the destructor, run by the main thread once the submitter has returned  *)
(* (main.cpp:46-50).                                                       *)
(*                                                                         *)
(* A step is what one thread does between two points where another thread  *)
(* can see the difference: a section under queueMutex is one step, except  *)
(* that evaluating the wait predicate and going to sleep are two, because  *)
(* the destructor sets stop and notifies without taking the mutex.         *)
(***************************************************************************)
EXTENDS Integers, Sequences, FiniteSets

CONSTANTS
    Workers,    \* the worker threads (ThreadPool(10) in server.cpp:88)
    NumTasks    \* bound on the number of tasks the accept loop submits

ASSUME PoolAssumption == Workers # {} /\ IsFiniteSet(Workers) /\ NumTasks \in Nat

Tasks == 1..NumTasks    \* task i is the i-th one submitted
NoTask == 0             \* the empty std::function of a worker without a task
Nobody == "nobody"      \* queueMutex is free

ASSUME NobodyAssumption == Nobody \notin Workers

VARIABLES
    submitted,      \* how many tasks have been pushed so far
    taskQueue,      \* taskQueue
    mutex,          \* the worker that holds queueMutex across a step, or Nobody
    worker,         \* where each worker is in WorkerThread
    task,           \* the local variable task of each worker
    finished,       \* the tasks whose call has returned
    stop,           \* the flag stop
    activeThreads,  \* the counter activeThreads
    submitter,      \* where the accept thread is in SubmitTask
    destructor      \* where the main thread is in ~ThreadPool

vars == <<submitted, taskQueue, mutex, worker, task, finished, stop,
          activeThreads, submitter, destructor>>

\* "lock": about to take queueMutex; "test": holds it, predicate not evaluated;
\* "sleep": holds it, predicate was false, not yet asleep; "waiting": asleep on
\* condition; "run": executing a task; "ended": the task returned, activeThreads
\* not yet decremented; "exited": WorkerThread has returned.
WorkerStates == {"lock", "test", "sleep", "waiting", "run", "ended", "exited"}

Init ==
    /\ submitted = 0
    /\ taskQueue = <<>>
    /\ mutex = Nobody
    /\ worker = [w \in Workers |-> "lock"]
    /\ task = [w \in Workers |-> NoTask]
    /\ finished = {}
    /\ stop = FALSE
    /\ activeThreads = 0
    /\ submitter = "idle"
    /\ destructor = "none"

-----------------------------------------------------------------------------
(* WorkerThread *)

Lock(w) ==
    /\ worker[w] = "lock"
    /\ mutex = Nobody
    /\ mutex' = w
    /\ worker' = [worker EXCEPT ![w] = "test"]
    /\ UNCHANGED <<submitted, taskQueue, task, finished, stop, activeThreads,
                   submitter, destructor>>

\* The predicate of condition.wait is false: the worker will go to sleep.
PredicateFalse(w) ==
    /\ worker[w] = "test"
    /\ ~stop
    /\ taskQueue = <<>>
    /\ worker' = [worker EXCEPT ![w] = "sleep"]
    /\ UNCHANGED <<submitted, taskQueue, mutex, task, finished, stop,
                   activeThreads, submitter, destructor>>

\* Slip: the worker falls asleep with the mutex in its hands.
SleepWithLock(w) ==
    /\ worker[w] = "sleep"
    /\ worker' = [worker EXCEPT ![w] = "waiting"]
    /\ UNCHANGED <<submitted, taskQueue, mutex, task, finished, stop, activeThreads,
                   submitter, destructor>>

\* condition.wait releases the mutex and puts the worker to sleep atomically.
Sleep(w) ==
    /\ worker[w] = "sleep"
    /\ worker' = [worker EXCEPT ![w] = "waiting"]
    /\ mutex' = Nobody
    /\ UNCHANGED <<submitted, taskQueue, task, finished, stop, activeThreads,
                   submitter, destructor>>

\* A condition variable may wake a thread nobody notified.
SpuriousWakeup(w) ==
    /\ worker[w] = "waiting"
    /\ worker' = [worker EXCEPT ![w] = "lock"]
    /\ UNCHANGED <<submitted, taskQueue, mutex, task, finished, stop,
                   activeThreads, submitter, destructor>>

\* Slip: a stopped worker does not look whether tasks are left.
ExitWithTasksLeft(w) ==
    /\ worker[w] = "test"
    /\ stop
    /\ worker' = [worker EXCEPT ![w] = "exited"]
    /\ mutex' = Nobody
    /\ UNCHANGED <<submitted, taskQueue, task, finished, stop, activeThreads,
                   submitter, destructor>>

Exit(w) ==
    /\ worker[w] = "test"
    /\ stop
    /\ taskQueue = <<>>
    /\ worker' = [worker EXCEPT ![w] = "exited"]
    /\ mutex' = Nobody
    /\ UNCHANGED <<submitted, taskQueue, task, finished, stop, activeThreads,
                   submitter, destructor>>

\* A worker leaves with task t, and the queue keeps the rest.
TakeAs(w, t, rest) ==
    /\ worker[w] = "test"
    /\ taskQueue # <<>>
    /\ task' = [task EXCEPT ![w] = t]
    /\ taskQueue' = rest
    /\ activeThreads' = activeThreads + 1
    /\ worker' = [worker EXCEPT ![w] = "run"]
    /\ mutex' = Nobody
    /\ UNCHANGED <<submitted, finished, stop, submitter, destructor>>

\* Slips: the task is not moved out, not popped, or taken from the wrong end.
TakeWithoutMove(w) == TakeAs(w, NoTask, Tail(taskQueue))
TakeWithoutPop(w) == TakeAs(w, Head(taskQueue), taskQueue)
TakeYoungest(w) ==
    TakeAs(w, taskQueue[Len(taskQueue)], SubSeq(taskQueue, 1, Len(taskQueue) - 1))

Take(w) == TakeAs(w, Head(taskQueue), Tail(taskQueue))

\* task() returns: Server::HandleClient has ended its connection.
TaskReturns(w) ==
    /\ worker[w] = "run"
    /\ finished' = finished \cup {task[w]}
    /\ worker' = [worker EXCEPT ![w] = "ended"]
    /\ UNCHANGED <<submitted, taskQueue, mutex, task, stop, activeThreads,
                   submitter, destructor>>

\* Slip: a finished task stays counted.
LoopUncounted(w) ==
    /\ worker[w] = "ended"
    /\ task' = [task EXCEPT ![w] = NoTask]
    /\ worker' = [worker EXCEPT ![w] = "lock"]
    /\ UNCHANGED <<submitted, taskQueue, mutex, finished, stop, activeThreads,
                   submitter, destructor>>

\* activeThreads--, and the loop starts over with a fresh local task.
Loop(w) ==
    /\ worker[w] = "ended"
    /\ activeThreads' = activeThreads - 1
    /\ task' = [task EXCEPT ![w] = NoTask]
    /\ worker' = [worker EXCEPT ![w] = "lock"]
    /\ UNCHANGED <<submitted, taskQueue, mutex, finished, stop, submitter,
                   destructor>>

-----------------------------------------------------------------------------
(* SubmitTask, called by the accept thread only *)

Push ==
    /\ submitter = "idle"
    /\ submitted < NumTasks
    /\ mutex = Nobody
    /\ submitted' = submitted + 1
    /\ taskQueue' = Append(taskQueue, submitted + 1)
    /\ submitter' = "notify"
    /\ UNCHANGED <<mutex, worker, task, finished, stop, activeThreads, destructor>>

\* Slips: the notification is forgotten, or sent only for the first task of a queue.
NotifyNobody ==
    /\ submitter = "notify"
    /\ submitter' = "idle"
    /\ UNCHANGED <<submitted, taskQueue, mutex, worker, task, finished, stop,
                   activeThreads, destructor>>

NotifyFirstOnly ==
    /\ submitter = "notify"
    /\ submitter' = "idle"
    /\ \/ Len(taskQueue) > 1 /\ UNCHANGED worker
       \/ Len(taskQueue) <= 1 /\ \E w \in Workers :
            worker' = [worker EXCEPT ![w] = IF @ = "waiting" THEN "lock" ELSE @]
    /\ UNCHANGED <<submitted, taskQueue, mutex, task, finished, stop,
                   activeThreads, destructor>>

\* notify_one, after the mutex was released: one sleeper wakes, if there is one.
NotifyOne ==
    /\ submitter = "notify"
    /\ submitter' = "idle"
    /\ \/ \E w \in Workers :
             /\ worker[w] = "waiting"
             /\ worker' = [worker EXCEPT ![w] = "lock"]
       \/ /\ \A w \in Workers : worker[w] # "waiting"
          /\ UNCHANGED worker
    /\ UNCHANGED <<submitted, taskQueue, mutex, task, finished, stop,
                   activeThreads, destructor>>

\* The accept loop ends (running is false): nothing is submitted any more.
AcceptLoopReturns ==
    /\ submitter = "idle"
    /\ submitter' = "returned"
    /\ UNCHANGED <<submitted, taskQueue, mutex, worker, task, finished, stop,
                   activeThreads, destructor>>

-----------------------------------------------------------------------------
(* ~ThreadPool, called by ~Server in the main thread, after the accept thread was joined *)

DestructorStop ==
    /\ submitter = "returned"
    /\ destructor = "none"
    /\ stop' = TRUE
    /\ destructor' = "notify"
    /\ UNCHANGED <<submitted, taskQueue, mutex, worker, task, finished,
                   activeThreads, submitter>>

DestructorNotifyAll ==
    /\ destructor = "notify"
    /\ destructor' = "join"
    /\ worker' = [w \in Workers |-> IF worker[w] = "waiting" THEN "lock" ELSE worker[w]]
    /\ UNCHANGED <<submitted, taskQueue, mutex, task, finished, stop,
                   activeThreads, submitter>>

DestructorJoin ==
    /\ destructor = "join"
    /\ \A w \in Workers : worker[w] = "exited"
    /\ destructor' = "done"
    /\ UNCHANGED <<submitted, taskQueue, mutex, worker, task, finished, stop,
                   activeThreads, submitter>>

-----------------------------------------------------------------------------
WorkerStep(w) ==
    \/ Lock(w) \/ PredicateFalse(w) \/ Sleep(w) \/ Exit(w)
    \/ Take(w) \/ TaskReturns(w) \/ Loop(w)

SubmitterStep == Push \/ NotifyOne \/ AcceptLoopReturns

DestructorStep == DestructorStop \/ DestructorNotifyAll \/ DestructorJoin

Next ==
    \/ \E w \in Workers : WorkerStep(w) \/ SpuriousWakeup(w)
    \/ SubmitterStep
    \/ DestructorStep

Spec == Init /\ [][Next]_vars

\* The operating system runs every thread that can run, and tasks return: a
\* handler returns when its client disconnects.  Nothing makes a spurious wakeup
\* happen, nothing makes clients connect or the accept loop return, but a push is
\* followed by its notification and a destructor that was called goes on.
FairSpec ==
    /\ Spec
    /\ \A w \in Workers : WF_vars(WorkerStep(w))
    /\ WF_vars(NotifyOne)
    /\ WF_vars(DestructorNotifyAll)
    /\ WF_vars(DestructorJoin)

-----------------------------------------------------------------------------
(* Properties *)

\* Every variable has its type.
TypeOK ==
    /\ submitted \in 0..NumTasks
    /\ taskQueue \in Seq(Tasks)
    /\ mutex \in Workers \cup {Nobody}
    /\ worker \in [Workers -> WorkerStates]
    /\ task \in [Workers -> Tasks \cup {NoTask}]
    /\ finished \subseteq Tasks
    /\ stop \in BOOLEAN
    /\ activeThreads \in Int
    /\ submitter \in {"idle", "notify", "returned"}
    /\ destructor \in {"none", "notify", "join", "done"}

\* The tasks that have left the queue.
Started == 1..(submitted - Len(taskQueue))

Holding(w) == worker[w] \in {"run", "ended"}

\* What waits in the queue is exactly the youngest tasks, oldest first.
QueueInOrder ==
    /\ Len(taskQueue) <= submitted
    /\ \A i \in 1..Len(taskQueue) : taskQueue[i] = submitted - Len(taskQueue) + i

\* Every older task is either in the hands of a single worker or finished.
StartedOnce ==
    /\ finished \subseteq Started
    /\ \A w \in Workers : Holding(w) => task[w] \in Started
    /\ \A w \in Workers : worker[w] = "run" => task[w] \notin finished
    /\ \A w \in Workers : worker[w] = "ended" => task[w] \in finished
    /\ \A v, w \in Workers : Holding(v) /\ Holding(w) /\ task[v] = task[w] => v = w
    /\ \A t \in Started : t \in finished \/ \E w \in Workers : Holding(w) /\ task[w] = t

\* A connection is handled by exactly one worker, once, in the order of arrival
\* (thread_pool.cpp:34-38 against 66-68, both under queueMutex).
ExactlyOnceInOrder == QueueInOrder /\ StartedOnce

Awake(w) == worker[w] \in {"lock", "test", "run", "ended"}

\* No connection is stranded in the queue: whenever a task waits and its notify_one
\* is not still to come, some worker is awake and will look at the queue again
\* (push under the mutex, notify after it: thread_pool.cpp:35-39 against 61-62).
NoStrandedTask ==
    taskQueue # <<>> /\ submitter # "notify" => \E w \in Workers : Awake(w)

\* No worker sleeps while there is more work than workers on their way to it: each
\* queued task has a notification, pending or already received, of its own
\* (one notify_one for each push: thread_pool.cpp:39).
WorkConserving ==
    (\E w \in Workers : worker[w] = "waiting") =>
        Len(taskQueue) <= Cardinality({w \in Workers : worker[w] \in {"lock", "test"}})
                          + (IF submitter = "notify" THEN 1 ELSE 0)

\* ThreadPool usage as ServerMonitor reports it counts the workers that really hold
\* a task, whatever the interleaving of the increments and decrements
\* (thread_pool.cpp:46-52 against 68 and 71).
UsageIsExact == activeThreads = Cardinality({w \in Workers : Holding(w)})

\* The destructor joins only workers that drained the queue: when a worker has
\* exited nothing is queued any more, and when the destructor has returned every
\* submitted task has run to its end (the order of the tests in thread_pool.cpp:62-65).
ShutdownDrains ==
    /\ (\E w \in Workers : worker[w] = "exited") => stop /\ taskQueue = <<>>
    /\ destructor = "done" => finished = 1..submitted

\* Where the threads can be: only the holder of queueMutex tests the predicate, so
\* the queue stays empty under a worker that is about to sleep, and stop is set after
\* the last submission, so a worker that exits leaves nothing behind.
Control ==
    /\ \A w \in Workers : worker[w] \in {"test", "sleep"} <=> mutex = w
    /\ \A w \in Workers : worker[w] \in {"sleep", "exited"} => taskQueue = <<>>
    /\ \A w \in Workers : worker[w] = "exited" => stop
    /\ stop => submitter = "returned" /\ destructor # "none"
    /\ destructor = "done" => \A w \in Workers : worker[w] = "exited"

\* The inductive invariant of the pool.
IInv == TypeOK /\ Control /\ ExactlyOnceInOrder /\ NoStrandedTask

\* Every submitted task eventually returns, when tasks do return.
SubmittedTasksFinish == \A t \in Tasks : submitted >= t ~> t \in finished

\* "停止所有工作线程并等待完成" (stops all worker threads and waits until they are
\* done, thread_pool.cpp:18): a destructor that was called returns.
DestructorReturns == stop ~> destructor = "done"

\* What callers are promised; the pool implements it.
Abstract == INSTANCE TaskPool WITH
    PoolSize <- Cardinality(Workers),
    started <- submitted - Len(taskQueue),
    running <- {task[w] : w \in {v \in Workers : worker[v] = "run"}}

ImplementsTaskPool == Abstract!TaskSpec

=============================================================================
