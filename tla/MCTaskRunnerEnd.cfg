CONSTANTS
    Runners = {r1}
    root = root
    m = m
    l = l
    Nodes <- MCNodes
    NTasks = 2
    Rollups = {1, 2}
    Target <- MCTarget
    Anywhere = Anywhere
    Scopes = {Anywhere, root}
    FirstChildren <- MCFirstChildren
    MAX_LOOP_TURNS = 4
    MAX_TOOL_FETCHES = 2
    Writes <- MCEndWrites
    Moves <- MCMoves
    MaxCrashes = 1
SPECIFICATION FairSpec
PROPERTY TasksEnd
CHECK_DEADLOCK FALSE
