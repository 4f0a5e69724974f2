CONSTANTS
    t1 = t1
    t2 = t2
    t3 = t3
    Turn = {t1, t2, t3}
    Slow = {t1}
    KindOf <- MCKindOf
    NoTurn = NoTurn
    MaxRestarts = 1
SPECIFICATION FairSpec
CHECK_DEADLOCK FALSE
INVARIANT OutcomeIsServed
PROPERTY DeferredTurnEnds
