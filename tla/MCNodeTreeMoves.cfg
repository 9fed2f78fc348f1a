CONSTANTS
    Sessions = {s1, s2}
    Nodes = {root, n1, n2}
    Root = root
    Sources = {}
    NoNode = NoNode
SPECIFICATION Spec
SYMMETRY Symmetry
INVARIANTS
    Acyclic
CHECK_DEADLOCK FALSE
