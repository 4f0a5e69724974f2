CONSTANTS
    MaxRuns = 3
    Unlimited = Unlimited
    MaxCrashes = 2
    MaxFailures = 2
    MaxCount = 8
SPECIFICATION FairSpec
CHECK_DEADLOCK FALSE
INVARIANT RunsWithinBudget
INVARIANT CancelStops
INVARIANT RunsAreRecorded
PROPERTY BoundedScheduleEnds
