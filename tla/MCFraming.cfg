\* Two requests and their answers, and another thread that writes to the client twice; the
\* socket buffers one frame and a part of the next.
SPECIFICATION FairSpec
CONSTANTS
    Base = 2
    HeaderLength = 2
    MaxBody = 2
    Capacity = 4
    Bodies <- MCBodies
    MaxRequests = 2
    Pushers = {p1}
    MaxPushes = 2
    Reply <- MCReply
INVARIANTS
    TypeOK
    RequestsArriveIntact
    FramesStayWhole
PROPERTY RequestsAreAnswered
\* The handler may have ended.
CHECK_DEADLOCK FALSE
