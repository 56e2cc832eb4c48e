SPECIFICATION Spec
CONSTANTS
    a = a
    b = b
    c = c
    ua = ua
    ub = ub
    uc = uc
    None = None
    Users = {ua, ub, uc}
    Nodes = {a, b, c}
    Handlers = {h1}
    Kinds = {"update"}
    Spouses = {}
    NewUsers = {}
    Orders = {1}
    OrderMin = 0
    OrderMax = 2
    SchemaComplete = FALSE
    UniqueIndexes = TRUE
    ImportedNodes <- ChainNodes
    ImportedCouples <- ChainCouples
INVARIANT Acyclic
