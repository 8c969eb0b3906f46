\* Two slots, each used twice, and two edges.
CONSTANTS
    MaxSlots = 2
    MaxEdges = 2
    MaxVisits = 1
    MaxGeneration = 2
    Requests = {2}
    IndexGrowthFails = FALSE
SPECIFICATION Spec
INVARIANTS AdjacencyExact IterationExact
PROPERTY ImplementsGraph
