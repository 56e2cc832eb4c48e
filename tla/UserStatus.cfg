\* Two overlapping requests on one account, under the fairness of the event loop.
SPECIFICATION FairSpec
CONSTANTS
    Users = {u1}
    Handlers = {h1, h2}
    NoHandler = NoHandler
INVARIANTS
    TypeOK
    StatusIsLogged
PROPERTIES
    LegalUnlessOvertaken
    RequestsEnd
