-------------------------- MODULE ThreadPoolProofs --------------------------
(***************************************************************************)
(* For any set of workers and any number of tasks: the pool runs every     *)
(* task once and in order, strands none, reports its usage exactly, shuts  *)
(* down drained, and implements TaskPool.                                  *)
(*                                                                         *)
(* IInv is inductive.  Its four parts are proved one after the other, each *)
(* with the whole of IInv before the step as its hypothesis, one case for  *)
(* each action.  UsageIsExact and WorkConserving are inductive relative to *)
(* it; their proofs count workers.                                         *)
(***************************************************************************)
EXTENDS ThreadPool, FiniteSetTheorems, TLAPS

(* The constants do not clash: the free mutex is not a worker, NoTask is not a task. *)
LEMMA ConstantFacts ==
    Nobody \notin Workers /\ Workers # {} /\ NoTask \notin Tasks /\ Tasks \subseteq Nat /\ NumTasks \in Nat
BY PoolAssumption, NobodyAssumption DEF Tasks, NoTask

(* The initial state satisfies the inductive invariant. *)
LEMMA InitIInv == Init => IInv
<1> SUFFICES ASSUME Init PROVE IInv
  OBVIOUS
<1> USE ConstantFacts DEF Init
<1>1. TypeOK
  <2>1. taskQueue \in Seq(Tasks)
    OBVIOUS
  <2>2. submitted \in 0..NumTasks /\ activeThreads \in Int
    OBVIOUS
  <2> QED BY <2>1, <2>2 DEF TypeOK, WorkerStates
<1>2. Control
  BY DEF Control
<1>3. ExactlyOnceInOrder
  BY DEF ExactlyOnceInOrder, QueueInOrder, StartedOnce, Started, Holding
<1>4. NoStrandedTask
  BY DEF NoStrandedTask
<1> QED
  BY <1>1, <1>2, <1>3, <1>4 DEF IInv

(* A task that waits, or that a worker holds, is a task the accept loop submitted. *)
LEMMA TasksInRange ==
    ASSUME IInv
    PROVE  /\ Len(taskQueue) \in 0..submitted
           /\ Started \subseteq Tasks
           /\ \A w \in Workers : worker[w] = "run" => task[w] \in Tasks
<1>1. Len(taskQueue) \in Nat /\ submitted \in Nat /\ Len(taskQueue) <= submitted /\ submitted <= NumTasks
  BY ConstantFacts DEF IInv, TypeOK, ExactlyOnceInOrder, QueueInOrder
<1>2. Started \subseteq Tasks
  BY <1>1, ConstantFacts DEF Started, Tasks
<1>3. \A w \in Workers : worker[w] = "run" => task[w] \in Started
  BY DEF IInv, ExactlyOnceInOrder, StartedOnce, Holding
<1> QED
  BY <1>1, <1>2, <1>3

(* Every step keeps the variables in their types. *)
LEMMA TypeStep == IInv /\ [Next]_vars => TypeOK'
<1> SUFFICES ASSUME IInv, [Next]_vars PROVE TypeOK'
  OBVIOUS
<1>0. TypeOK
  BY DEF IInv
<1> USE <1>0, ConstantFacts DEF TypeOK, WorkerStates
<1>1. ASSUME NEW w \in Workers, WorkerStep(w) \/ SpuriousWakeup(w) PROVE TypeOK'
  <2>1. CASE Lock(w)            BY <2>1 DEF Lock
  <2>2. CASE PredicateFalse(w)  BY <2>2 DEF PredicateFalse
  <2>3. CASE Sleep(w)           BY <2>3 DEF Sleep
  <2>4. CASE SpuriousWakeup(w)  BY <2>4 DEF SpuriousWakeup
  <2>5. CASE Exit(w)            BY <2>5 DEF Exit
  <2>6. CASE Take(w)
    <3>1. Head(taskQueue) \in Tasks /\ Tail(taskQueue) \in Seq(Tasks)
      BY <2>6 DEF Take, TakeAs
    <3> QED BY <3>1, <2>6 DEF Take, TakeAs
  <2>7. CASE TaskReturns(w)     BY <2>7, TasksInRange DEF TaskReturns
  <2>8. CASE Loop(w)            BY <2>8 DEF Loop
  <2> QED BY <1>1, <2>1, <2>2, <2>3, <2>4, <2>5, <2>6, <2>7, <2>8 DEF WorkerStep
<1>2. CASE Push
  <2>1. submitted + 1 \in Tasks /\ submitted + 1 \in 0..NumTasks
    BY <1>2 DEF Push, Tasks
  <2>2. taskQueue' \in Seq(Tasks)
    BY <1>2, <2>1 DEF Push
  <2> QED BY <1>2, <2>1, <2>2 DEF Push
<1>3. CASE NotifyOne
  BY <1>3 DEF NotifyOne
<1>4. CASE AcceptLoopReturns
  BY <1>4 DEF AcceptLoopReturns
<1>5. CASE DestructorStep
  BY <1>5 DEF DestructorStep, DestructorStop, DestructorNotifyAll, DestructorJoin
<1>6. CASE UNCHANGED vars
  BY <1>6 DEF vars
<1> QED
  BY <1>1, <1>2, <1>3, <1>4, <1>5, <1>6 DEF Next, SubmitterStep

(* Every step keeps the control part of the invariant. *)
LEMMA ControlStep == IInv /\ [Next]_vars => Control'
<1> SUFFICES ASSUME IInv, [Next]_vars PROVE Control'
  OBVIOUS
<1>0. TypeOK /\ Control
  BY DEF IInv
<1> USE <1>0, ConstantFacts DEF TypeOK, Control, WorkerStates
<1>1. ASSUME NEW w \in Workers, WorkerStep(w) \/ SpuriousWakeup(w) PROVE Control'
  <2>1. CASE Lock(w)            BY <2>1 DEF Lock
  <2>2. CASE PredicateFalse(w)  BY <2>2 DEF PredicateFalse
  <2>3. CASE Sleep(w)           BY <2>3 DEF Sleep
  <2>4. CASE SpuriousWakeup(w)  BY <2>4 DEF SpuriousWakeup
  <2>5. CASE Exit(w)            BY <2>5 DEF Exit
  <2>6. CASE Take(w)            BY <2>6 DEF Take, TakeAs
  <2>7. CASE TaskReturns(w)     BY <2>7 DEF TaskReturns
  <2>8. CASE Loop(w)            BY <2>8 DEF Loop
  <2> QED BY <1>1, <2>1, <2>2, <2>3, <2>4, <2>5, <2>6, <2>7, <2>8 DEF WorkerStep
<1>2. CASE Push
  BY <1>2 DEF Push
<1>3. CASE NotifyOne
  BY <1>3 DEF NotifyOne
<1>4. CASE AcceptLoopReturns
  BY <1>4 DEF AcceptLoopReturns
<1>5. CASE DestructorStop
  BY <1>5 DEF DestructorStop
<1>6. CASE DestructorNotifyAll
  BY <1>6 DEF DestructorNotifyAll
<1>7. CASE DestructorJoin
  BY <1>7 DEF DestructorJoin
<1>8. CASE UNCHANGED vars
  BY <1>8 DEF vars
<1> QED
  BY <1>1, <1>2, <1>3, <1>4, <1>5, <1>6, <1>7, <1>8 DEF Next, SubmitterStep, DestructorStep

(* A task leaves the queue: the set of started tasks grows by exactly the task taken. *)
LEMMA TakeStarts ==
    ASSUME IInv, NEW w \in Workers, Take(w)
    PROVE  /\ task'[w] = submitted - Len(taskQueue) + 1
           /\ task'[w] \notin Started
           /\ Started' = Started \cup {task'[w]}
           /\ Len(taskQueue') = Len(taskQueue) - 1
           /\ \A i \in 1..Len(taskQueue') : taskQueue'[i] = submitted - Len(taskQueue') + i
<1> USE ConstantFacts DEF IInv, TypeOK, ExactlyOnceInOrder, QueueInOrder, Take, TakeAs
<1>1. Len(taskQueue) \in Nat /\ Len(taskQueue) > 0 /\ submitted \in Nat /\ Len(taskQueue) <= submitted
  OBVIOUS
<1>2. task'[w] = taskQueue[1] /\ taskQueue[1] = submitted - Len(taskQueue) + 1
  BY <1>1
<1>3. /\ Len(taskQueue') = Len(taskQueue) - 1
      /\ \A i \in 1..Len(taskQueue') : taskQueue'[i] = taskQueue[i + 1]
  BY <1>1
<1>4. \A i \in 1..Len(taskQueue') : taskQueue'[i] = submitted - Len(taskQueue') + i
  BY <1>1, <1>3
<1>5. Started' = 1..(submitted - Len(taskQueue) + 1)
  BY <1>1, <1>3 DEF Started
<1> QED
  BY <1>1, <1>2, <1>3, <1>4, <1>5 DEF Started

(* Every step keeps the queue in order. *)
LEMMA QueueStep == IInv /\ [Next]_vars => QueueInOrder'
<1> SUFFICES ASSUME IInv, [Next]_vars PROVE QueueInOrder'
  OBVIOUS
<1>0. TypeOK /\ QueueInOrder
  BY DEF IInv, ExactlyOnceInOrder
<1>1. CASE UNCHANGED <<submitted, taskQueue>>
  BY <1>0, <1>1 DEF QueueInOrder
<1>2. ASSUME NEW w \in Workers, Take(w) PROVE QueueInOrder'
  <2>1. submitted' = submitted /\ Len(taskQueue') <= submitted
    BY <1>0, <1>2, TakeStarts, TasksInRange, ConstantFacts DEF Take, TakeAs, TypeOK
  <2> QED BY <2>1, <1>2, TakeStarts DEF QueueInOrder
<1>3. CASE Push
  <2>1. /\ Len(taskQueue') = Len(taskQueue) + 1
        /\ \A i \in 1..Len(taskQueue) : taskQueue'[i] = taskQueue[i]
        /\ taskQueue'[Len(taskQueue) + 1] = submitted + 1
    BY <1>0, <1>3 DEF Push, TypeOK
  <2>2. \A i \in 1..Len(taskQueue') : taskQueue'[i] = submitted' - Len(taskQueue') + i
    BY <1>0, <1>3, <2>1, ConstantFacts DEF Push, QueueInOrder, TypeOK
  <2>3. Len(taskQueue') <= submitted'
    BY <1>0, <1>3, <2>1, ConstantFacts DEF Push, QueueInOrder, TypeOK
  <2> QED BY <2>2, <2>3 DEF QueueInOrder
<1>4. CASE SubmitterStep \/ DestructorStep \/ UNCHANGED vars
  BY <1>1, <1>3, <1>4 DEF SubmitterStep, NotifyOne, AcceptLoopReturns, DestructorStep,
     DestructorStop, DestructorNotifyAll, DestructorJoin, vars
<1>5. ASSUME NEW w \in Workers, WorkerStep(w) \/ SpuriousWakeup(w) PROVE QueueInOrder'
  BY <1>1, <1>2, <1>5 DEF WorkerStep, Lock, PredicateFalse, Sleep, SpuriousWakeup, Exit, TaskReturns, Loop
<1> QED
  BY <1>4, <1>5 DEF Next

(* Every step keeps each started task in one place. *)
LEMMA OnceStep == IInv /\ [Next]_vars => StartedOnce'
<1> SUFFICES ASSUME IInv, [Next]_vars PROVE StartedOnce'
  OBVIOUS
<1>0. TypeOK /\ StartedOnce
  BY DEF IInv, ExactlyOnceInOrder
<1>1. ASSUME UNCHANGED <<task, finished>>, Started' = Started,
             \A w \in Workers : worker'[w] = "run" <=> worker[w] = "run",
             \A w \in Workers : worker'[w] = "ended" <=> worker[w] = "ended"
      PROVE  StartedOnce'
  <2>1. \A w \in Workers : Holding(w)' <=> Holding(w)
    BY <1>1 DEF Holding
  <2> QED BY <1>0, <1>1, <2>1 DEF StartedOnce
<1>2. ASSUME UNCHANGED <<submitted, taskQueue>> PROVE Started' = Started
  BY <1>2 DEF Started
<1>3. ASSUME NEW w \in Workers, WorkerStep(w) \/ SpuriousWakeup(w) PROVE StartedOnce'
  <2>1. CASE Lock(w) \/ PredicateFalse(w) \/ Sleep(w) \/ SpuriousWakeup(w) \/ Exit(w)
    BY <1>0, <1>1, <1>2, <2>1 DEF Lock, PredicateFalse, Sleep, SpuriousWakeup, Exit, TypeOK
  <2>2. CASE Take(w)
    <3> DEFINE t == task'[w]
    <3>1. /\ worker' = [worker EXCEPT ![w] = "run"] /\ task' = [task EXCEPT ![w] = t]
          /\ worker[w] = "test" /\ finished' = finished
      BY <1>0, <2>2 DEF Take, TakeAs, TypeOK
    <3>2. t \notin Started /\ Started' = Started \cup {t}
      BY <2>2, TakeStarts
    <3>3. task'[w] = t /\ worker'[w] = "run"
          /\ \A v \in Workers \ {w} : task'[v] = task[v] /\ worker'[v] = worker[v]
      BY <1>0, <3>1 DEF TypeOK
    <3> HIDE DEF t
    <3> QED BY <1>0, <3>1, <3>2, <3>3 DEF StartedOnce, Holding
  <2>3. CASE TaskReturns(w)
    <3>1. Started' = Started /\ worker'[w] = "ended" /\ task' = task
          /\ finished' = finished \cup {task[w]} /\ worker[w] = "run"
          /\ \A v \in Workers \ {w} : worker'[v] = worker[v]
      BY <1>0, <1>2, <2>3 DEF TaskReturns, TypeOK
    <3> QED BY <1>0, <3>1 DEF StartedOnce, Holding
  <2>4. CASE Loop(w)
    <3>1. Started' = Started /\ worker'[w] = "lock" /\ finished' = finished /\ worker[w] = "ended"
          /\ \A v \in Workers \ {w} : task'[v] = task[v] /\ worker'[v] = worker[v]
      BY <1>0, <1>2, <2>4 DEF Loop, TypeOK
    <3> QED BY <1>0, <3>1 DEF StartedOnce, Holding
  <2> QED BY <1>3, <2>1, <2>2, <2>3, <2>4 DEF WorkerStep
<1>4. CASE Push
  <2>1. Len(taskQueue') = Len(taskQueue) + 1 /\ submitted' = submitted + 1
    BY <1>0, <1>4 DEF Push, TypeOK
  <2>2. Started' = Started
    BY <1>0, <2>1, ConstantFacts DEF Started, TypeOK
  <2> QED BY <1>1, <1>4, <2>2 DEF Push
<1>5. CASE NotifyOne \/ AcceptLoopReturns \/ DestructorStep \/ UNCHANGED vars
  BY <1>0, <1>1, <1>2, <1>5 DEF NotifyOne, AcceptLoopReturns, DestructorStep, DestructorStop,
     DestructorNotifyAll, DestructorJoin, vars, TypeOK
<1> QED
  BY <1>3, <1>4, <1>5 DEF Next, SubmitterStep

(* Every step leaves a worker awake for what waits in the queue. *)
LEMMA StrandStep == IInv /\ [Next]_vars => NoStrandedTask'
<1> SUFFICES ASSUME IInv, [Next]_vars PROVE NoStrandedTask'
  OBVIOUS
<1>0. TypeOK /\ Control /\ NoStrandedTask
  BY DEF IInv
<1> USE <1>0, ConstantFacts DEF TypeOK, NoStrandedTask, Awake, WorkerStates
<1>1. ASSUME NEW w \in Workers, WorkerStep(w) \/ SpuriousWakeup(w) PROVE NoStrandedTask'
  <2>1. CASE Lock(w)            BY <2>1 DEF Lock
  <2>2. CASE PredicateFalse(w)  BY <2>2 DEF PredicateFalse
  <2>3. CASE Sleep(w)           BY <2>3 DEF Sleep, Control
  <2>4. CASE SpuriousWakeup(w)  BY <2>4 DEF SpuriousWakeup
  <2>5. CASE Exit(w)            BY <2>5 DEF Exit
  <2>6. CASE Take(w)            BY <2>6 DEF Take, TakeAs
  <2>7. CASE TaskReturns(w)     BY <2>7 DEF TaskReturns
  <2>8. CASE Loop(w)            BY <2>8 DEF Loop
  <2> QED BY <1>1, <2>1, <2>2, <2>3, <2>4, <2>5, <2>6, <2>7, <2>8 DEF WorkerStep
<1>2. CASE Push
  BY <1>2 DEF Push
<1>3. CASE NotifyOne
  BY <1>3 DEF NotifyOne, Control
<1>4. CASE AcceptLoopReturns
  BY <1>4 DEF AcceptLoopReturns
<1>5. CASE DestructorStep
  BY <1>5 DEF DestructorStep, DestructorStop, DestructorNotifyAll, DestructorJoin
<1>6. CASE UNCHANGED vars
  BY <1>6 DEF vars
<1> QED
  BY <1>1, <1>2, <1>3, <1>4, <1>5, <1>6 DEF Next, SubmitterStep

(* IInv is an invariant of the specification. *)
THEOREM PoolInvariant == Spec => []IInv
<1>1. Init => IInv
  BY InitIInv
<1>2. IInv /\ [Next]_vars => IInv'
  BY TypeStep, ControlStep, QueueStep, OnceStep, StrandStep DEF IInv, ExactlyOnceInOrder
<1> QED
  BY <1>1, <1>2, PTL DEF Spec

(* Type correctness of the pool, whatever the number of workers and tasks. *)
THEOREM PoolTypeOK == Spec => []TypeOK
<1>1. IInv => TypeOK
  BY DEF IInv
<1> QED
  BY <1>1, PoolInvariant, PTL

(* Every submitted connection is handled by one worker, once, in the order of arrival
   (thread_pool.cpp:34-38 and 66-68). *)
THEOREM PoolExactlyOnce == Spec => []ExactlyOnceInOrder
<1>1. IInv => ExactlyOnceInOrder
  BY DEF IInv
<1> QED
  BY <1>1, PoolInvariant, PTL

(* No connection waits in the queue while all workers sleep (thread_pool.cpp:39 and 62). *)
THEOREM PoolStrandsNoTask == Spec => []NoStrandedTask
<1>1. IInv => NoStrandedTask
  BY DEF IInv
<1> QED
  BY <1>1, PoolInvariant, PTL

(* A worker exits, and the destructor returns, only when nothing is left to run
   (thread_pool.cpp:23-27 and 63-65). *)
THEOREM PoolShutdownDrains == Spec => []ShutdownDrains
<1>1. IInv => ShutdownDrains
  <2> SUFFICES ASSUME IInv PROVE ShutdownDrains
    OBVIOUS
  <2>1. (\E w \in Workers : worker[w] = "exited") => stop /\ taskQueue = <<>>
    BY DEF IInv, Control
  <2>2. ASSUME destructor = "done" PROVE finished = 1..submitted
    <3>1. \A w \in Workers : worker[w] = "exited"
      BY <2>2 DEF IInv, Control
    <3>2. taskQueue = <<>>
      BY <2>1, <3>1, ConstantFacts
    <3>3. Started = 1..submitted
      BY <3>2 DEF Started, IInv, TypeOK
    <3> QED BY <3>1, <3>3 DEF IInv, ExactlyOnceInOrder, StartedOnce, Holding
  <2> QED BY <2>1, <2>2 DEF ShutdownDrains
<1> QED
  BY <1>1, PoolInvariant, PTL
-----------------------------------------------------------------------------
(* Counting workers *)

Running == {w \in Workers : worker[w] = "run"}
Busy == {w \in Workers : Holding(w)}
Coming == {w \in Workers : worker[w] \in {"lock", "test"}}

(* A set of workers is finite, and a worker more or less counts for one. *)
LEMMA WorkersCount ==
    ASSUME NEW S, NEW T, S \subseteq Workers, T \subseteq Workers
    PROVE  /\ IsFiniteSet(S) /\ Cardinality(S) \in Nat /\ Cardinality(T) \in Nat
           /\ S \subseteq T => Cardinality(S) <= Cardinality(T)
           /\ \A w \in S : T = S \ {w} => Cardinality(T) = Cardinality(S) - 1
           /\ \A w \in Workers \ S : T = S \cup {w} => Cardinality(T) = Cardinality(S) + 1
<1>1. IsFiniteSet(S) /\ IsFiniteSet(T)
  BY PoolAssumption, FS_Subset
<1>2. Cardinality(S) \in Nat /\ Cardinality(T) \in Nat
  BY <1>1, FS_CardinalityType
<1>3. S \subseteq T => Cardinality(S) <= Cardinality(T)
  BY <1>1, FS_Subset
<1>4. \A w \in S : Cardinality(S \ {w}) = Cardinality(S) - 1
  BY <1>1, FS_RemoveElement
<1>5. \A w \in Workers \ S : Cardinality(S \cup {w}) = Cardinality(S) + 1
  BY <1>1, FS_AddElement
<1> QED
  BY <1>1, <1>2, <1>3, <1>4, <1>5

(* Taking a task makes a worker busy and the end of the loop makes it free; no other step
   changes who is busy, or the counter. *)
LEMMA UsageStep == IInv /\ UsageIsExact /\ [Next]_vars => UsageIsExact'
<1> SUFFICES ASSUME IInv, activeThreads = Cardinality(Busy), [Next]_vars
    PROVE  activeThreads' = Cardinality(Busy')
  BY DEF UsageIsExact, Busy
<1>0. worker \in [Workers -> WorkerStates] /\ Busy \subseteq Workers /\ Busy' \subseteq Workers
  BY DEF IInv, TypeOK, Busy
<1>1. CASE Busy' = Busy /\ UNCHANGED activeThreads
  BY <1>1
<1>2. ASSUME NEW w \in Workers, Take(w) PROVE activeThreads' = Cardinality(Busy')
  <2>1. w \notin Busy /\ Busy' = Busy \cup {w}
    BY <1>0, <1>2 DEF Take, TakeAs, Busy, Holding
  <2>2. activeThreads' = activeThreads + 1
    BY <1>2 DEF Take, TakeAs
  <2> QED BY <1>0, <2>1, <2>2, WorkersCount
<1>3. ASSUME NEW w \in Workers, Loop(w) PROVE activeThreads' = Cardinality(Busy')
  <2>1. w \in Busy /\ Busy' = Busy \ {w}
    BY <1>0, <1>3 DEF Loop, Busy, Holding
  <2>2. activeThreads' = activeThreads - 1
    BY <1>3 DEF Loop
  <2> QED BY <1>0, <2>1, <2>2, WorkersCount
<1>4. ASSUME NEW w \in Workers, WorkerStep(w) \/ SpuriousWakeup(w), ~Take(w), ~Loop(w)
      PROVE  Busy' = Busy /\ UNCHANGED activeThreads
  BY <1>0, <1>4 DEF WorkerStep, Lock, PredicateFalse, Sleep, SpuriousWakeup, Exit, TaskReturns, Busy, Holding
<1>5. CASE SubmitterStep \/ DestructorStep \/ UNCHANGED vars
  <2>1. UNCHANGED activeThreads
    BY <1>5 DEF SubmitterStep, Push, NotifyOne, AcceptLoopReturns, DestructorStep, DestructorStop,
       DestructorNotifyAll, DestructorJoin, vars
  <2>2. Busy' = Busy
    BY <1>0, <1>5 DEF SubmitterStep, Push, NotifyOne, AcceptLoopReturns, DestructorStep, DestructorStop,
       DestructorNotifyAll, DestructorJoin, vars, Busy, Holding
  <2> QED BY <1>1, <2>1, <2>2
<1> QED
  BY <1>1, <1>2, <1>3, <1>4, <1>5 DEF Next

(* The pool reports as its usage exactly the workers that hold a task: the increment under the
   mutex and the decrement outside it lose nothing (thread_pool.cpp:46-52, 68, 71). *)
THEOREM PoolUsageIsExact == Spec => []UsageIsExact
<1>1. Init => UsageIsExact
  <2> SUFFICES ASSUME Init PROVE activeThreads = Cardinality(Busy)
    BY DEF UsageIsExact, Busy
  <2>1. Busy = {}
    BY DEF Init, Busy, Holding
  <2> QED BY <2>1, FS_EmptySet DEF Init
<1> QED
  BY <1>1, UsageStep, PoolInvariant, PTL DEF Spec

(* One case for each action that changes the queue, a sleeper, a worker on its way to the queue,
   or the pending notification. *)
LEMMA ConservingStep == IInv /\ WorkConserving /\ [Next]_vars => WorkConserving'
<1> DEFINE Sleeping == \E w \in Workers : worker[w] = "waiting"
           Pending == IF submitter = "notify" THEN 1 ELSE 0
<1> SUFFICES ASSUME IInv, Sleeping => Len(taskQueue) <= Cardinality(Coming) + Pending, [Next]_vars,
                    Sleeping'
    PROVE  Len(taskQueue') <= Cardinality(Coming') + Pending'
  BY DEF WorkConserving, Coming
<1>0. /\ worker \in [Workers -> WorkerStates] /\ Len(taskQueue) \in Nat
      /\ Coming \subseteq Workers /\ Coming' \subseteq Workers
      /\ Cardinality(Coming) \in Nat /\ Cardinality(Coming') \in Nat
      /\ Pending \in {0, 1} /\ Pending' \in {0, 1}
      /\ \A w \in Workers : worker[w] \in {"sleep", "exited"} => taskQueue = <<>>
  <2>1. Coming \subseteq Workers /\ Coming' \subseteq Workers
    BY DEF Coming
  <2> QED BY <2>1, WorkersCount DEF IInv, TypeOK, Control
<1> HIDE DEF Sleeping, Pending
<1>1. CASE Sleeping /\ Coming \subseteq Coming' /\ UNCHANGED <<taskQueue, Pending>>
  <2>1. Cardinality(Coming) <= Cardinality(Coming')
    BY <1>0, <1>1, WorkersCount
  <2> QED BY <1>0, <1>1, <2>1
<1>2. CASE taskQueue' = <<>>
  BY <1>0, <1>2
<1>3. ASSUME NEW w \in Workers, Take(w) PROVE Len(taskQueue') <= Cardinality(Coming') + Pending'
  <2>1. Sleeping /\ w \in Coming /\ Coming' = Coming \ {w}
    BY <1>0, <1>3 DEF Take, TakeAs, Sleeping, Coming, WorkerStates
  <2>2. Len(taskQueue') = Len(taskQueue) - 1 /\ UNCHANGED Pending
    BY <1>3 DEF Take, TakeAs, Pending, IInv, TypeOK
  <2>3. Cardinality(Coming') = Cardinality(Coming) - 1
    BY <1>0, <2>1, WorkersCount
  <2> QED BY <1>0, <2>1, <2>2, <2>3
<1>4. ASSUME NEW w \in Workers, WorkerStep(w) \/ SpuriousWakeup(w), ~Take(w)
      PROVE  Len(taskQueue') <= Cardinality(Coming') + Pending'
  <2>1. UNCHANGED <<taskQueue, Pending>>
    BY <1>4 DEF WorkerStep, Lock, PredicateFalse, Sleep, SpuriousWakeup, Exit, TaskReturns, Loop, Pending
  <2>2. CASE PredicateFalse(w) \/ Sleep(w) \/ Exit(w)
    <3>1. taskQueue' = <<>>
      BY <1>0, <2>1, <2>2 DEF PredicateFalse, Sleep, Exit
    <3> QED BY <1>2, <3>1
  <2>3. CASE Lock(w) \/ SpuriousWakeup(w) \/ TaskReturns(w) \/ Loop(w)
    <3>1. Sleeping
      BY <1>0, <2>3 DEF Lock, SpuriousWakeup, TaskReturns, Loop, Sleeping, WorkerStates
    <3>2. Coming \subseteq Coming'
      BY <1>0, <2>3 DEF Lock, SpuriousWakeup, TaskReturns, Loop, Coming
    <3> QED BY <1>1, <2>1, <3>1, <3>2
  <2> QED BY <1>4, <2>2, <2>3 DEF WorkerStep
<1>5. CASE Push
  <2>1. Sleeping /\ Coming' = Coming /\ Pending = 0 /\ Pending' = 1
    BY <1>5 DEF Push, Sleeping, Coming, Pending
  <2>2. Len(taskQueue') = Len(taskQueue) + 1
    BY <1>5 DEF Push, IInv, TypeOK
  <2> QED BY <1>0, <2>1, <2>2
<1>6. CASE NotifyOne
  <2>1. UNCHANGED taskQueue /\ Pending = 1 /\ Pending' = 0
    BY <1>6 DEF NotifyOne, Pending
  <2>2. PICK w \in Workers : worker[w] = "waiting" /\ worker' = [worker EXCEPT ![w] = "lock"]
    BY <1>6 DEF NotifyOne, Sleeping
  <2>3. Sleeping /\ w \notin Coming /\ Coming' = Coming \cup {w}
    BY <1>0, <2>2 DEF Sleeping, Coming
  <2>4. Cardinality(Coming') = Cardinality(Coming) + 1
    BY <1>0, <2>3, WorkersCount
  <2> QED BY <1>0, <2>1, <2>3, <2>4
<1>7. CASE AcceptLoopReturns
  <2>1. UNCHANGED <<taskQueue, worker>> /\ Pending = 0 /\ Pending' = 0
    BY <1>7 DEF AcceptLoopReturns, Pending
  <2> QED BY <1>1, <2>1 DEF Sleeping, Coming
<1>8. CASE DestructorNotifyAll
  BY <1>0, <1>8 DEF DestructorNotifyAll, Sleeping
<1>9. CASE DestructorStop \/ DestructorJoin \/ UNCHANGED vars
  <2>1. UNCHANGED <<taskQueue, worker, submitter>>
    BY <1>9 DEF DestructorStop, DestructorJoin, vars
  <2> QED BY <1>1, <2>1 DEF Sleeping, Coming, Pending
<1> QED
  BY <1>3, <1>4, <1>5, <1>6, <1>7, <1>8, <1>9 DEF Next, SubmitterStep, DestructorStep

(* No worker sleeps while more tasks wait than workers are on their way to them: the notification
   of each push is for one task, and a worker takes one task for each (thread_pool.cpp:39, 61-68). *)
THEOREM PoolIsWorkConserving == Spec => []WorkConserving
<1>1. Init => WorkConserving
  BY DEF Init, WorkConserving
<1> QED
  BY <1>1, ConservingStep, PoolInvariant, PTL DEF Spec

-----------------------------------------------------------------------------
(* The refinement *)

(* A worker about to take a task does not run one, so that fewer tasks run than there are
   workers. *)
LEMMA SlotFree ==
    ASSUME IInv, NEW w \in Workers, Take(w)
    PROVE  Cardinality({task[v] : v \in Running}) < Cardinality(Workers)
<1> DEFINE tasks == {task[v] : v \in Running}
           f == [v \in Running |-> task[v]]
<1>1. Running \subseteq Workers /\ w \notin Running /\ IsFiniteSet(Running)
  <2>1. Running \subseteq Workers /\ w \notin Running
    BY DEF Running, Take, TakeAs
  <2> QED BY <2>1, PoolAssumption, FS_Subset
<1>2. f \in Surjection(Running, tasks)
  BY DEF Surjection
<1>3. IsFiniteSet(tasks) /\ Cardinality(tasks) <= Cardinality(Running)
  <2> HIDE DEF f, tasks
  <2> QED BY <1>1, <1>2, FS_Surjection
<1>4. Cardinality(Running) < Cardinality(Workers)
  <2>1. Cardinality(Workers \ {w}) = Cardinality(Workers) - 1
    BY PoolAssumption, FS_RemoveElement
  <2>2. Cardinality(Running) <= Cardinality(Workers \ {w})
    BY <1>1, WorkersCount
  <2>3. Cardinality(Running) \in Nat /\ Cardinality(Workers) \in Nat
    BY <1>1, PoolAssumption, FS_CardinalityType
  <2> QED BY <2>1, <2>2, <2>3
<1>5. Cardinality(tasks) \in Nat /\ Cardinality(Running) \in Nat /\ Cardinality(Workers) \in Nat
  BY <1>1, <1>3, PoolAssumption, FS_CardinalityType
<1> HIDE DEF tasks
<1>6. Cardinality(tasks) < Cardinality(Workers)
  BY <1>3, <1>4, <1>5
<1> QED
  BY <1>6 DEF tasks

(* The instance counts as this module does. *)
LEMMA SameCount == \A S : Abstract!Cardinality(S) = Cardinality(S)
BY DEF Abstract!Cardinality, Cardinality

(* Each step maps to a step of the abstract pool or to a stutter: a push to Submit, a worker that
   takes a task to Start, a task that returns to End; no other step shows. *)
LEMMA RefinementStep == IInv /\ [Next]_vars => [Abstract!TaskNext]_(Abstract!taskVars)
<1> DEFINE started == submitted - Len(taskQueue)
           running == {task[v] : v \in Running}
<1> SUFFICES ASSUME IInv, [Next]_vars
    PROVE  \/ /\ submitted < NumTasks /\ submitted' = submitted + 1
              /\ UNCHANGED <<started, running>>
           \/ /\ started < submitted /\ Cardinality(running) < Cardinality(Workers)
              /\ started' = started + 1 /\ running' = running \cup {started + 1}
              /\ UNCHANGED submitted
           \/ \E t \in 1..NumTasks :
                /\ t \in running /\ running' = running \ {t}
                /\ UNCHANGED <<submitted, started>>
           \/ UNCHANGED <<submitted, started, running>>
  BY SameCount DEF Running, Abstract!TaskNext, Abstract!Submit, Abstract!Start, Abstract!End, Abstract!taskVars
<1>0. /\ worker \in [Workers -> WorkerStates] /\ task \in [Workers -> Tasks \cup {NoTask}]
      /\ submitted \in 0..NumTasks /\ taskQueue \in Seq(Tasks) /\ NumTasks \in Nat
      /\ Len(taskQueue) \in 0..submitted
  BY TasksInRange, ConstantFacts DEF IInv, TypeOK
<1>1. CASE Push
  <2>1. Len(taskQueue') = Len(taskQueue) + 1
    BY <1>0, <1>1 DEF Push
  <2>2. submitted < NumTasks /\ submitted' = submitted + 1 /\ running' = running
    BY <1>1 DEF Push, Running
  <2>3. started' = started
    BY <1>0, <2>1, <2>2
  <2> QED BY <2>2, <2>3
<1>2. ASSUME NEW w \in Workers, Take(w)
      PROVE  /\ started < submitted /\ Cardinality(running) < Cardinality(Workers)
             /\ started' = started + 1 /\ running' = running \cup {started + 1}
             /\ UNCHANGED submitted
  <2>1. task'[w] = started + 1 /\ Len(taskQueue') = Len(taskQueue) - 1
    BY <1>2, TakeStarts
  <2>2. Running' = Running \cup {w} /\ \A v \in Running : task'[v] = task[v]
    BY <1>0, <1>2 DEF Take, TakeAs, Running
  <2>3. running' = running \cup {started + 1}
    BY <2>1, <2>2
  <2>4. UNCHANGED submitted /\ Len(taskQueue) > 0
    BY <1>0, <1>2 DEF Take, TakeAs
  <2>5. started < submitted /\ started' = started + 1
    BY <1>0, <2>1, <2>4
  <2> QED BY <1>2, <2>3, <2>4, <2>5, SlotFree
<1>3. ASSUME NEW w \in Workers, TaskReturns(w)
      PROVE  \E t \in 1..NumTasks :
                /\ t \in running /\ running' = running \ {t}
                /\ UNCHANGED <<submitted, started>>
  <2>1. w \in Running /\ Running' = Running \ {w} /\ UNCHANGED <<task, submitted, taskQueue>>
    BY <1>0, <1>3 DEF TaskReturns, Running
  <2>2. task[w] \in 1..NumTasks
    BY <2>1, TasksInRange DEF Running, Tasks
  <2>3. \A v \in Running : task[v] = task[w] => v = w
    BY <2>1 DEF IInv, ExactlyOnceInOrder, StartedOnce, Holding, Running
  <2>4. running' = running \ {task[w]}
    BY <2>1, <2>3
  <2> QED BY <2>1, <2>2, <2>4
<1>4. ASSUME NEW w \in Workers, WorkerStep(w) \/ SpuriousWakeup(w), ~Take(w), ~TaskReturns(w)
      PROVE  UNCHANGED <<submitted, started, running>>
  <2>1. UNCHANGED <<submitted, taskQueue>>
    BY <1>4 DEF WorkerStep, Lock, PredicateFalse, Sleep, SpuriousWakeup, Exit, Loop
  <2>2. Running' = Running /\ \A v \in Running : task'[v] = task[v]
    BY <1>0, <1>4 DEF WorkerStep, Lock, PredicateFalse, Sleep, SpuriousWakeup, Exit, Loop, Running
  <2> QED BY <2>1, <2>2
<1>5. CASE NotifyOne \/ AcceptLoopReturns \/ DestructorStep \/ UNCHANGED vars
  <2>1. UNCHANGED <<submitted, taskQueue, task>>
    BY <1>5 DEF NotifyOne, AcceptLoopReturns, DestructorStep, DestructorStop, DestructorNotifyAll,
       DestructorJoin, vars
  <2>2. Running' = Running
    BY <1>0, <1>5 DEF NotifyOne, AcceptLoopReturns, DestructorStep, DestructorStop,
       DestructorNotifyAll, DestructorJoin, vars, Running
  <2> QED BY <2>1, <2>2
<1> HIDE DEF started, running
<1> QED
  BY <1>1, <1>2, <1>3, <1>4, <1>5 DEF Next, SubmitterStep

(* The pool keeps the promise of its interface: tasks start in the order in which they were handed
   over, each once, and at most as many at a time as there are workers (thread_pool.h). *)
THEOREM PoolImplementsTaskPool == Spec => ImplementsTaskPool
<1>1. Init => Abstract!TaskInit
  <2> SUFFICES ASSUME Init PROVE Abstract!TaskInit
    OBVIOUS
  <2>1. submitted = 0 /\ Len(taskQueue) = 0
    BY DEF Init
  <2>2. submitted - Len(taskQueue) = 0
    BY <2>1
  <2>3. {task[w] : w \in {v \in Workers : worker[v] = "run"}} = {}
    BY DEF Init
  <2> QED BY <2>1, <2>2, <2>3, Zenon DEF Abstract!TaskInit
<1> QED
  BY <1>1, RefinementStep, PoolInvariant, PTL DEF Spec, ImplementsTaskPool, Abstract!TaskSpec

=============================================================================
