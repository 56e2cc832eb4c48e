\* One request at a time: the abstract lifecycle is implemented.
SPECIFICATION Spec
CONSTANTS
    Users = {u1, u2, u3}
    Handlers = {h1}
    NoHandler = NoHandler
SYMMETRY Symmetry
PROPERTY LifecycleSpec
