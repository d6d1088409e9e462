SPECIFICATION FairSpec

CONSTANTS
    Indexable = 3
    Candidates <- MCCandidates
    Outcome <- MCOutcome
    Workers = {w1, w2}
    Capacity <- MCCapacity
    Nothing = Nothing
    Gone = Gone

INVARIANT TypeOK
INVARIANT OneCopy
INVARIANT SummaryIsComplete
INVARIANT ClosedIsNeverTheAnswer
PROPERTY PublishesWholeRuns
PROPERTY StreamReturns

CHECK_DEADLOCK FALSE
