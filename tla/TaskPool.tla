------------------------------ MODULE TaskPool ------------------------------
(***************************************************************************)
(* What ThreadPool promises its callers (src/src/system/thread_pool.h):    *)
(* tasks handed over one after the other are started in the order they     *)
(* were handed over, each exactly once, at most PoolSize of them at a      *)
(* time.  There is no mutex, no condition variable and no worker here;     *)
(* ThreadPool.tla is shown to implement this specification.                *)
(***************************************************************************)
EXTENDS Naturals, FiniteSets

CONSTANTS
    NumTasks,   \* how many tasks the server ever submits (a bound)
    PoolSize    \* how many tasks may run at once

VARIABLES
    submitted,  \* tasks 1..submitted have been handed over
    started,    \* tasks 1..started have been started, in that order
    running     \* the started tasks that have not ended

taskVars == <<submitted, started, running>>

TaskInit ==
    /\ submitted = 0
    /\ started = 0
    /\ running = {}

Submit ==
    /\ submitted < NumTasks
    /\ submitted' = submitted + 1
    /\ UNCHANGED <<started, running>>

\* Only the oldest waiting task may start, and only while a slot is free.
Start ==
    /\ started < submitted
    /\ Cardinality(running) < PoolSize
    /\ started' = started + 1
    /\ running' = running \cup {started + 1}
    /\ UNCHANGED submitted

End(t) ==
    /\ t \in running
    /\ running' = running \ {t}
    /\ UNCHANGED <<submitted, started>>

TaskNext == Submit \/ Start \/ \E t \in 1..NumTasks : End(t)

TaskSpec == TaskInit /\ [][TaskNext]_taskVars

=============================================================================
