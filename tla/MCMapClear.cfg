CONSTANTS
    k1 = k1
    k2 = k2
    k3 = k3
    k4 = k4
    v1 = v1
    v2 = v2
    Keys = {k1, k2, k3, k4}
    Values = {v1}
    Hash <- ClearHash
    Policies <- ClearPolicies
    Predicates = {}
    MinCapacity = 4
    MaxCapacity = 4
    MaxLength = 2
    Requests = {0}
    MaxAttempts = 4
    WordBits = 8
    ClearsTombs = TRUE
    RetryFails = FALSE
SPECIFICATION Spec
INVARIANT CursorExact
