CONSTANTS
    Turns = 2
    Fidelity = {"quick_sample", "entire_dataset"}
    Size = {"large"}
CHECK_DEADLOCK FALSE
SPECIFICATION Spec
INVARIANT CodesThisTurnsPlan
