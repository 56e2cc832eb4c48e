\* One cut command and one undo, with starts of the application at any time.
SPECIFICATION Spec
CONSTANTS
    MaxCuts = 1
    MaxUndos = 1
INVARIANTS
    OnlyDisturbedCommandsFail
    RecordedIsComplete
    OnlyKnownDrift
