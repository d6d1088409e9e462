SPECIFICATION Spec

CONSTANTS
    Commits = {c1, c2}
    Trees <- MCTrees
    NameStatus <- GitNameStatus
    Indexings <- IndexPath
    Compare <- CompareRefs
    Nothing = Nothing
    Stem <- MCStem
    PathRank <- MCPathRank
    Dotted = {}
    ScopedScanners = {}
    CallScanners = {"ts", "js"}
    PublicLines <- MCPublicLines
    Slow <- MCSlow
    Unread <- MCUnread
    TestPaths <- MCTestPaths
    ManyChanges = 1
    MaxTopChanges = 1


INVARIANT SymbolReportIsExact

CHECK_DEADLOCK FALSE
