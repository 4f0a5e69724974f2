CONSTANTS
    Turns = 2
    Fidelity = {"quick_sample", "entire_dataset"}
    Size = {"large"}
SPECIFICATION Spec
CHECK_DEADLOCK FALSE
INVARIANTS TypeOK ByteRoutingKept OnlyAcceptedCodeRuns NoErrorMeansAccepted RetryKnowsItsFault
PROPERTY TurnEnds
