\* Two handlers and at most two accounts; every statement may fail.
SPECIFICATION Spec
CONSTANTS
    ann = ann
    Ann = Ann
    bob = bob
    Names <- MCNames
    Key <- MCKey
    Handlers = {h1, h2}
    Passwords = {p1, p2}
    MaxUsers = 2
    DbMayFail = TRUE
SYMMETRY Symmetry
INVARIANTS
    TypeOK
    AnswersWereTrue
    SessionActsForItsAccount
PROPERTIES
    IdentityIsFixed
