CONSTANTS
    c1 = c1
    c2 = c2
    d1 = d1
    d2 = d2
    Commands = {c1, c2}
    Dispatchers = {d1}
    Assignments <- MarketAssignments
    Children <- NoCommands
    Successor <- MarketSuccessor
    LeaseTime = 1
    MaxFaults <- MarketFaults
SPECIFICATION FairSpec
CHECK_DEADLOCK FALSE
PROPERTIES
    LandedRecorded
