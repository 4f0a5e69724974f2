CONSTANTS
    MaxDispatched = 3
    Workers = 2
    MaxRetries = 2
    MaxUnanswered = 2
    MaxLost = 1
    MaxKilled = 1
SPECIFICATION RunsFairSpec
CHECK_DEADLOCK FALSE
INVARIANT NumbersFollowStarts
INVARIANT RowsTellOutcome
INVARIANT SuccessMeansJobDone
INVARIANT EndedJobsAreListed
PROPERTY EveryRunEnds
