CONSTANTS
    c1 = c1
    c2 = c2
    d1 = d1
    d2 = d2
    Commands = {c1, c2}
    Dispatchers = {d1, d2}
    Assignments <- PlaceAssignments
    Children <- NoCommands
    Successor <- NoCommands
    LeaseTime = 1
    MaxFaults <- PlaceFaults
SPECIFICATION Spec
CHECK_DEADLOCK FALSE
PROPERTIES
    SignedReconciled
