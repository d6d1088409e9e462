SPECIFICATION BoundedSpec

CONSTANTS
    Files = {f1, f2}
    Versions = {v1, v2}
    v2 = v2
    Absent = Absent
    Imports <- CrossImports
    MaxFailures = 1

SYMMETRY FileSymmetry

INVARIANT TypeOK
INVARIANT FullIndexIsCoherent
INVARIANT MisreadIsReported
PROPERTY CompactionKeepsGraph
PROPERTY ReplacementIsLocal
INVARIANT SymbolsOfTheCommandLine
INVARIANT FilesMatchUntilAFailure
PROPERTY ManifestKeepsTheRest
