\* Two friends share one descriptor with everything that can go wrong: timeouts, exceptions, failing statements.
SPECIFICATION Spec
CONSTANTS
    Conns = {c1, c2}
    Users = {u1, u2}
    Fds = {4}
    Friends = {{u1, u2}}
    MaxConnections = 2
    PoolSize = 2
    Timeouts = TRUE
    Malformed = TRUE
    DbMayFail = TRUE
SYMMETRY Symmetry
INVARIANTS
    SocketDiscipline
    StoredSessionsAreAlive
    IInv
\* Every client may have come and gone, or the process may have died.
CHECK_DEADLOCK FALSE
