CONSTANTS
    k1 = k1
    k2 = k2
    k3 = k3
    k4 = k4
    v1 = v1
    v2 = v2
    Keys = {k1, k2}
    Values = {v1, v2}
    Hash <- MCHash
    Policies <- MCPolicies
    Predicates <- MCPredicates
    MinCapacity = 4
    MaxCapacity = 8
    MaxLength = 3
    Requests = {0, 4}
    MaxAttempts = 4
    WordBits = 8
    ClearsTombs = FALSE
    RetryFails = TRUE
SPECIFICATION Spec
PROPERTY FailedRehashKeepsMap
