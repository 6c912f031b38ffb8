\* A message forwarded during a login hides an older one that was not pushed yet.
SPECIFICATION Spec
CONSTANTS
    Senders = {s1, s2}
    MaxMessages = 2
    MaxLogins = 1
    ClientLeaves = FALSE
    DbMayFail = FALSE
INVARIANT ReadMeansReceived
\* Everybody may have stopped sending and connecting.
CHECK_DEADLOCK FALSE
