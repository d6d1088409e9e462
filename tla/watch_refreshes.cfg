SPECIFICATION FairSpec

CONSTANTS
    Files = {f1, f2}
    Filtered = {p1}
    MaxVersion = 2
    Debounce = 2
    MaxWait = 3

PROPERTY ChangesAreRefreshed

CHECK_DEADLOCK FALSE
