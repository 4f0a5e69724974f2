--------------------------- MODULE MCDatasetIndex ---------------------------
(* Sessions s1 and s2 of dataset d and s3 of dataset e; save1 and drop1   *)
(* are of s1, dropd deletes dataset d or e and the lookups are of d.       *)
EXTENDS DatasetIndex

CONSTANTS s1, s2, s3, d, e, save1, drop1, dropd, find1, find2, Dropped

MCDatasetOf == [s \in Sid |-> IF s = s3 THEN e ELSE d]
MCSidOf == [o \in Save \union Drop |-> s1]
MCAskedFor == [o \in Find \union DropData |-> IF o \in Find THEN d ELSE Dropped]
=============================================================================
