CONSTANTS
    Update = {u1}
    Turn = {w1}
    Handler = {h1}
    Delete = {d1}
    WritesA = {u1}
    Field <- MCField
    FieldOf <- MCFieldOf
    Unset = Unset
    NoDict = NoDict
    HasAnalysis = TRUE
SPECIFICATION Spec
INVARIANT TurnWritesAreAttempted
PROPERTY StaysDeleted
