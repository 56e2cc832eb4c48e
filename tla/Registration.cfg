\* Two creations on a pool of two, two sign-ups.
SPECIFICATION Spec
CONSTANTS
    Creators = {k1, k2}
    Members <- MCMembers
    PoolSize = 2
    Handlers = {h1, h2}
    LimitSend = 1
    LimitCheck = 1
    Life = 2
    MaxCodes = 3
    MaxTime = 2
    MaxClients = 2
    Address = 1
    QuietCodes = 1
INVARIANTS
    ContactsAreUnique
    MembersAreWhole
    CodesAreLimited
    StoredCodeWasSent
PROPERTIES
    CreationsEnd
    OneCodeAMinute
CHECK_DEADLOCK FALSE
