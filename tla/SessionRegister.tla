--------------------------- MODULE SessionRegister ---------------------------
(***************************************************************************)
(* What session_service promises the writers of one session: a register of *)
(* fields in which every update lands atomically, on top of whatever is    *)
(* stored at that moment, and changes the writer's own field and no other. *)
(***************************************************************************)
CONSTANTS
    Task,       \* the operations that write the session; also the values
    Field,      \* the top-level keys of the session dict
    FieldOf,    \* the key an operation sets
    Unset       \* the value of a key nobody has set

VARIABLE
    register    \* the stored session

FreshSession == [f \in Field |-> Unset]

Init == register = FreshSession

(* One update: the "delta on top" of update_session's docstring. *)
Apply(t) == register' = [register EXCEPT ![FieldOf[t]] = t]

Next == \E t \in Task : Apply(t)

Spec == Init /\ [][Next]_register
=============================================================================
