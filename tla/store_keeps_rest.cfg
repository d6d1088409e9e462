SPECIFICATION CliSpec

CONSTANTS
    Files = {f1, f2}
    Versions = {v1, v2}
    v2 = v2
    Absent = Absent
    Imports <- CrossImports

SYMMETRY FileSymmetry

PROPERTY IncrementalKeepsTheRest
