CONSTANTS
    Requests = {q1, q2}
    MaxFaults = 2
SPECIFICATION FairSpec
CHECK_DEADLOCK FALSE
INVARIANT EndsAreTrue
INVARIANT StaleRowsHaveCause
PROPERTY RowSettles
PROPERTY CallReturns
