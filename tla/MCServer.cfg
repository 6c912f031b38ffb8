\* Three connections log in as one user, kick one another and leave; sessions end the normal way.
\* One client more than the limit, and a descriptor for each, so that the limit is what refuses it.
SPECIFICATION Spec
CONSTANTS
    Conns = {c1, c2, c3}
    Users = {u1}
    Fds = {4, 5, 6}
    Friends = {}
    MaxConnections = 2
    PoolSize = 2
    Timeouts = FALSE
    Malformed = FALSE
    DbMayFail = FALSE
SYMMETRY Symmetry
INVARIANTS
    ServedClientKeepsSession
    ConnectionCountExact
    CounterWithinLimit
PROPERTY ImplementsAdmission
\* Every client may have come and gone.
CHECK_DEADLOCK FALSE
