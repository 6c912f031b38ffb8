------------------------------- MODULE DBPool -------------------------------
(***************************************************************************)
(* The pool of database connections (src/src/system/db_manager.cpp).       *)
(*                                                                         *)
(* GetConnection and ReleaseConnection hold poolMutex throughout; the wait *)
(* gives the mutex up and falls asleep in one step.  Reconnect is left     *)
(* out: the DAOs catch every SQLException themselves, so that nothing a    *)
(* lost database causes reaches HandleDBException, its only caller.        *)
(***************************************************************************)
EXTENDS Naturals, Sequences, FiniteSets

CONSTANTS
    DbConns,    \* the connections to the database
    DbThreads   \* the threads that use them

NoDb == "none"

ASSUME DbAssumption == IsFiniteSet(DbConns) /\ NoDb \notin DbConns

VARIABLES
    connectionPool, \* the queue of free connections
    poolCondition,  \* the threads asleep in GetConnection
    held,           \* the connection each thread has checked out
    alive           \* the connections the database has not dropped

dbVars == <<connectionPool, poolCondition, held, alive>>

\* InitConnectionPool: a queue of all connections, in some order.
DbInit ==
    /\ connectionPool \in {q \in [1..Cardinality(DbConns) -> DbConns] :
                                {q[i] : i \in DOMAIN q} = DbConns}
    /\ poolCondition = {}
    /\ held = [t \in DbThreads |-> NoDb]
    /\ alive = DbConns

Pooled == {connectionPool[i] : i \in 1..Len(connectionPool)}

\* GetConnection finds a connection, at once or after a wakeup.
GetConnection(t) ==
    /\ t \notin poolCondition /\ held[t] = NoDb
    /\ connectionPool # <<>>
    /\ held' = [held EXCEPT ![t] = Head(connectionPool)]
    /\ connectionPool' = Tail(connectionPool)
    /\ UNCHANGED <<poolCondition, alive>>

\* GetConnection finds none and falls asleep.
WaitForConnection(t) ==
    /\ t \notin poolCondition /\ held[t] = NoDb
    /\ connectionPool = <<>>
    /\ poolCondition' = poolCondition \cup {t}
    /\ UNCHANGED <<connectionPool, held, alive>>

\* Slip: the pointer is cleared before it is pushed.
ReleaseCleared(t) ==
    /\ connectionPool' = Append(connectionPool, NoDb)
    /\ held' = [held EXCEPT ![t] = NoDb]
    /\ UNCHANGED <<poolCondition, alive>>

\* Slip: nobody is notified.
ReleaseSilently(t) ==
    /\ connectionPool' = Append(connectionPool, held[t])
    /\ held' = [held EXCEPT ![t] = NoDb]
    /\ UNCHANGED <<poolCondition, alive>>

\* Slip: a connection that failed is not given back.
ReleaseAlive(t) ==
    /\ connectionPool' = IF held[t] \in alive THEN Append(connectionPool, held[t]) ELSE connectionPool
    /\ held' = [held EXCEPT ![t] = NoDb]
    /\ \/ poolCondition = {} /\ UNCHANGED poolCondition
       \/ \E w \in poolCondition : poolCondition' = poolCondition \ {w}
    /\ UNCHANGED alive

\* The connection goes to the end of the queue, dead or alive, and one sleeper wakes up.
ReleaseConnection(t) ==
    /\ connectionPool' = Append(connectionPool, held[t])
    /\ held' = [held EXCEPT ![t] = NoDb]
    /\ \/ poolCondition = {} /\ UNCHANGED poolCondition
       \/ \E w \in poolCondition : poolCondition' = poolCondition \ {w}
    /\ UNCHANGED alive

\* A sleeper wakes up without a notification and looks again.
SpuriousWakeup(t) ==
    /\ t \in poolCondition
    /\ poolCondition' = poolCondition \ {t}
    /\ UNCHANGED <<connectionPool, held, alive>>

\* The database drops a connection; a statement on it fails from then on.
DropConnection(d) ==
    /\ d \in alive
    /\ alive' = alive \ {d}
    /\ UNCHANGED <<connectionPool, poolCondition, held>>

\* Whether the statement of thread t fails.
StatementFails(t) == held[t] \notin alive

\* ~DBManager: what is in the pool is destroyed.
DestroyPool ==
    /\ connectionPool' = <<>>
    /\ UNCHANGED <<poolCondition, held, alive>>

-----------------------------------------------------------------------------
DbTypeOK ==
    /\ connectionPool \in Seq(DbConns)
    /\ poolCondition \subseteq DbThreads
    /\ held \in [DbThreads -> DbConns \cup {NoDb}]
    /\ alive \subseteq DbConns

=============================================================================
