\* Liveness of the handlers and of the heartbeat check: clients leave and time out.
\* No symmetry, which is unsound for liveness.
SPECIFICATION FairSpec
CONSTANTS
    Conns = {c1, c2}
    Users = {u1}
    Fds = {4}
    Friends = {}
    MaxConnections = 2
    PoolSize = 2
    Timeouts = TRUE
    Malformed = FALSE
    DbMayFail = FALSE
PROPERTIES
    
    SilentUserIsDropped
CHECK_DEADLOCK FALSE
