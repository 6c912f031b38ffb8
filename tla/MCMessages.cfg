\* Two senders, two messages, two logins; the client may leave and statements may fail.
\* No symmetry, which is unsound for liveness.
SPECIFICATION FairSpec
CONSTANTS
    Senders = {s1, s2}
    MaxMessages = 2
    MaxLogins = 2
    ClientLeaves = TRUE
    DbMayFail = TRUE
INVARIANTS
    TypeOK
    
    
 
\* Everybody may have stopped sending and connecting.
CHECK_DEADLOCK FALSE
