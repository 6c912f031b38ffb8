\* Three handlers and two users: two requests may interfere with a third; statements may fail.
SPECIFICATION Spec
CONSTANTS
    Handlers = {h1, h2, h3}
    Users = {u1, u2}
    MaxMessages = 1
    DbMayFail = TRUE
SYMMETRY Symmetry
INVARIANTS
    TypeOK
    
    DeletedFriendsHaveNoMessages
