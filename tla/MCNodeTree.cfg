CONSTANTS
    Sessions = {s1, s2}
    Nodes = {root, n1, f1}
    Root = root
    Sources = {f1}
    NoNode = NoNode
SPECIFICATION Spec
SYMMETRY Symmetry
CONSTRAINT Checked
INVARIANTS
    TypeOK
    AcyclicUnlessUnchecked
    QuarantineSticks
PROPERTIES
    DeleteKeepsAncestry
CHECK_DEADLOCK FALSE
