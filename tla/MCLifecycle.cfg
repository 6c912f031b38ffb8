\* Two connections, the monitor and Stop compete for one database connection, which may be dropped.
SPECIFICATION FairSpec
CONSTANTS
    Conns = {c1, c2}
    DbConns = {d1}
    DbThreads <- MCDbThreads
    PoolSize = 2
    DbDrops = TRUE
INVARIANTS
    TypeOK
    ConnectionsConserved
    NoLostDbWakeup
    NobodyLeftInRecv
    
    NothingLeftAtExit
 
\* The process may have ended.
CHECK_DEADLOCK FALSE
