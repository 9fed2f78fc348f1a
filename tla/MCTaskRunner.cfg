CONSTANTS
    Runners = {r1, r2}
    root = root
    m = m
    l = l
    Nodes <- MCNodes
    NTasks = 2
    Rollups = {1, 2}
    Target <- MCTarget
    Anywhere = Anywhere
    Scopes = {Anywhere}
    FirstChildren <- MCFirstChildren
    MAX_LOOP_TURNS = 2
    MAX_TOOL_FETCHES = 2
    Writes <- MCWrites
    Moves <- MCMoves
    MaxCrashes = 1
SPECIFICATION Spec
SYMMETRY RunnerSymmetry
INVARIANTS
    EvidenceWithinBudget
    OperationsTellWrites
PROPERTIES
    EndsOnce
    OldestFirst
CHECK_DEADLOCK FALSE
