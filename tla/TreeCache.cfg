CONSTANTS
    Sessions = {s1, s2}
    Structures = {a, b}
    Summaries = {x, y}
    Null = Null
    MaxDeaths = 1
SPECIFICATION Spec
INVARIANTS
    TypeOK
    EtagMatchesTree
PROPERTIES
    LoneRequestRefreshes
CHECK_DEADLOCK FALSE
