\* Two connections log in as one user at the same time.
SPECIFICATION Spec
CONSTANTS
    Conns = {c1, c2}
    Users = {u1}
    Fds = {4, 5}
    Friends = {}
    MaxConnections = 2
    PoolSize = 2
    Timeouts = FALSE
    Malformed = FALSE
    DbMayFail = FALSE
INVARIANT OneSessionPerUser
CHECK_DEADLOCK FALSE
