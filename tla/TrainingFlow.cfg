CONSTANTS
    Datasets = {d1, d2}
    Turns = 4
SPECIFICATION Spec
SYMMETRY AnyDataset
INVARIANT OneRunPerConfirmation
INVARIANT TrainsShownPlans
INVARIANT ServiceTasksAct
CHECK_DEADLOCK FALSE
