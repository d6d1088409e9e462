SPECIFICATION FairSpec

CONSTANTS
    Files = {f1, f2}
    Filtered = {p1}
    MaxVersion = 2
    Debounce = 2
    MaxWait = 3

INVARIANT TypeOK
INVARIANT StaleIsExplained
PROPERTY QuietOrLate
PROPERTY PassAndCommandEnd

CHECK_DEADLOCK FALSE
