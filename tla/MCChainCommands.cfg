CONSTANTS
    c1 = c1
    c2 = c2
    d1 = d1
    d2 = d2
    Commands = {c1, c2}
    Dispatchers = {d1, d2}
    Assignments <- OrderAssignments
    Children <- OrderChildren
    Successor <- NoCommands
    LeaseTime = 1
    MaxFaults <- OrderFaults
SYMMETRY TwoDispatchers
SPECIFICATION Spec
CHECK_DEADLOCK FALSE
INVARIANTS
    SignedOnce
    OutcomeTrue
PROPERTIES
    SignedInLane
