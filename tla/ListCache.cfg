\* Two overlapping requests for a list with and without parameters, two writes.
SPECIFICATION FairSpec
CONSTANTS
    page = page
    Bare = Bare
    None = None
    Keys <- KeysOfBoth
    Handlers = {h1, h2}
    TTL = 2
    Delay = 1
    MaxWrites = 2
INVARIANTS
    TypeOK
    StaleForATimeOnly
    FreshUnlessOverlapped
PROPERTY Converges
