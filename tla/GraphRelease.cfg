\* Three slots: the list of free indices has room for three, and is asked for four.
CONSTANTS
    MaxSlots = 3
    MaxEdges = 0
    MaxVisits = 0
    MaxGeneration = 2
    Requests = {}
    IndexGrowthFails = TRUE
SPECIFICATION Spec
INVARIANT ReleaseReturns
