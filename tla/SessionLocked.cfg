CONSTANTS
    Update = {u1, u2, u3}
    Turn = {}
    Handler = {}
    Delete = {}
    WritesA = {u1, u2}
    Field <- MCField
    FieldOf <- MCFieldOf
    Unset = Unset
    NoDict = NoDict
    HasAnalysis = FALSE
SPECIFICATION FairSpec
INVARIANT LockInv
PROPERTY NoLostUpdate
PROPERTY AckMeansStored
PROPERTY EveryCallReturns
