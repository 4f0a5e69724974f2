--------------------------- MODULE MCSessionStore ---------------------------
(* A session of two keys, "a" and "b"; the operations in WritesA set "a",  *)
(* the others "b".                                                         *)
EXTENDS SessionStore

CONSTANT WritesA

MCField == {"a", "b"}
MCFieldOf == [t \in Task |-> IF t \in WritesA THEN "a" ELSE "b"]
=============================================================================
