--------------------------- MODULE MCDeferredTurns ---------------------------
(* The turns of one thread; t1 trains a model. *)
EXTENDS DeferredTurns

CONSTANTS t1, t2, t3

MCKindOf == [t \in Turn |-> IF t = t1 THEN "training" ELSE "analysis"]
=============================================================================
