SPECIFICATION Spec

CONSTANTS
    Nodes <- MCNodes
    Start = "s"
    Graphs <- MCGraphs
    MaxDepth = 3
    Facts <- MCFacts
    All = All
    None = None

INVARIANT TypeOK
INVARIANT TraversalIsSound
INVARIANT TraversalIsComplete
INVARIANT BestFactIsKept

CHECK_DEADLOCK FALSE
