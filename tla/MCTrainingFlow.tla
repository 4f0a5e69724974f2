--------------------------- MODULE MCTrainingFlow ---------------------------
(* The datasets of a thread are interchangeable. *)
EXTENDS TrainingFlow, TLC

AnyDataset == Permutations(Datasets)
=============================================================================
