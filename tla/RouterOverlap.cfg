CONSTANTS
    Filters = {"a/#", "a/b", "c"}
    Topics = {"a/b", "a/c", "c"}
    Matches <- MCMatches
    MaxRoutes = 3
    MaxCalls = 3
SPECIFICATION Spec
CHECK_DEADLOCK FALSE
INVARIANTS HandlerFits
