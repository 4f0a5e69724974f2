CONSTANTS
    Writer = {w1, w2}
    Deleter = {d1}
    Checks = 4
    Gone = Gone
SPECIFICATION Spec
CHECK_DEADLOCK FALSE
INVARIANT RollBackLeavesNothing
INVARIANT LocationSurvives
INVARIANT OnlyOrphansDeleted
