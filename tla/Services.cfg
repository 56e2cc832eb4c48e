\* One part at a time: three members, two ids, three callers, lists of three.
SPECIFICATION Spec
CONSTANTS
    Members = {1, 2, 3}
    Age <- MCAge
    Roles <- MCRoles
    Requests <- MCRequests
    Limit = 1
    LastPage = 3
    MaxMoves = 2
    Clients = {c1, c2}
    Ids = {i1, i2}
    Names = {n1, n2}
    NoName = NoName
    Callers = {r1, r2}
    RateMost = 2
    Ttl = 2
    Most = 4
    Data = {x, y}
    MaxSize = 3
INVARIANTS
    PagesTellTheList
    AnswersAreTrue
    DoneIsLogged
PROPERTIES
    RefusalsEnd
    ListsAreSequences
CHECK_DEADLOCK FALSE
