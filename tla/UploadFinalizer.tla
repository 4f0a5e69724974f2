-------------------------- MODULE UploadFinalizer --------------------------
(***************************************************************************)
(* One dataset of POST /api/upload in app/api/server.py.  The push of its  *)
(* file to object storage runs beside the request; the request saves the   *)
(* session, or fails and rolls it back; the finalizer it leaves behind     *)
(* waits for the push, records the object's URI in the session and checks  *)
(* a few times that requests holding an older dict did not drop it.  At    *)
(* any time Redis may fail: a read under an open breaker answers None, and *)
(* a write may be lost or land although its caller is told it failed.      *)
(***************************************************************************)
EXTENDS Naturals, FiniteSets

CONSTANTS
    Writer,     \* requests that read the session and save the whole dict
    Deleter,    \* DELETE /datasets/{id} requests
    Checks,     \* 1 + Len(_UPLOAD_REASSERT_DELAYS_S)
    Gone        \* no session

ASSUME UploadAssumption ==
    /\ Checks \in Nat \ {0}
    /\ Writer \intersect Deleter = {}

(* The session's keys that matter: data_source_location, storage_error.    *)
Key == {"location", "error"}
ASSUME GoneAssumption == \A dict \in SUBSET Key : dict # Gone

VARIABLES
    push,       \* put_task
    object,     \* the object in storage
    session,    \* the keys of the session, or Gone
    request,    \* where upload_csv stands
    fin,        \* where _finalize_upload_storage stands
    attempt,    \* its check
    merged,     \* the dict its update_session is writing
    copy,       \* the dict each writer read
    pc,         \* where writers and deleters stand
    savedAt,    \* history: the finalizer's check when a writer saved
    seen,       \* history: a check of the finalizer has read the session
    missed,     \* history: the checks a fault of Redis kept from their work
    unrolled    \* history: a fault kept the failing request's session

vars == <<push, object, session, request, fin, attempt, merged, copy, pc, savedAt,
          seen, missed, unrolled>>

Session == {Gone} \union SUBSET Key

TypeOK ==
    /\ push \in {"running", "done", "failed"}
    /\ object \in {"absent", "stored", "deleted"}
    /\ session \in Session
    /\ request \in {"profiling", "saved", "failing", "ok", "failed"}
    /\ fin \in {"none", "waiting", "reading", "applying", "saving", "noting", "over"}
    /\ attempt \in 0 .. Checks
    /\ merged \in Session
    /\ copy \in [Writer -> Session]
    /\ pc \in [Writer \union Deleter -> {"idle", "working", "over"}]
    /\ savedAt \in [Writer -> 0 .. Checks]
    /\ seen \in BOOLEAN
    /\ missed \subseteq 0 .. Checks - 1
    /\ unrolled \in BOOLEAN

Init ==
    /\ push = "running"
    /\ object = "absent"
    /\ session = Gone
    /\ request = "profiling"
    /\ fin = "none"
    /\ attempt = 0
    /\ merged = Gone
    /\ copy = [w \in Writer |-> Gone]
    /\ pc = [p \in Writer \union Deleter |-> "idle"]
    /\ savedAt = [w \in Writer |-> 0]
    /\ seen = FALSE
    /\ missed = {}
    /\ unrolled = FALSE

(* get_session: None also when there is a session that cannot be read.     *)
Reads == {session, Gone}

-----------------------------------------------------------------------------
(* store.put_file in a thread. *)
Push ==
    /\ push = "running"
    /\ \/ push' = "done" /\ object' = "stored"
       \/ push' = "failed" /\ UNCHANGED object
    /\ UNCHANGED <<session, request, fin, attempt, merged, copy, pc, savedAt,
                   seen, missed, unrolled>>

(* The request fails before it has a session. *)
FailEarly ==
    /\ request = "profiling"
    /\ request' = "failing"
    /\ UNCHANGED <<push, object, session, fin, attempt, merged, copy, pc, savedAt,
                   seen, missed, unrolled>>

(* save_session(session_id, session_data); a push that is over by then has *)
(* its URI in the data, or fails the request.  A save that reports a fault *)
(* fails it too, before this session is among those to roll back.          *)
SaveSession ==
    /\ request = "profiling"
    /\ push # "failed"
    /\ \/ /\ session' = IF push = "done" THEN {"location"} ELSE {}
          /\ request' = "saved"
          /\ UNCHANGED <<fin, unrolled>>
       \/ /\ session' \in {session, IF push = "done" THEN {"location"} ELSE {}}
          /\ request' = "failed"
          /\ fin' = "waiting"
          /\ unrolled' = TRUE
    /\ UNCHANGED <<push, object, attempt, merged, copy, pc, savedAt, seen, missed>>

(* A later file of the batch, or what follows, fails. *)
FailLate ==
    /\ request = "saved"
    /\ request' = "failing"
    /\ UNCHANGED <<push, object, session, fin, attempt, merged, copy, pc, savedAt,
                   seen, missed, unrolled>>

(* Mutant: the finalizer is started before the sessions are deleted. *)
FinalizerFirst ==
    /\ request = "failing"
    /\ IF fin = "none"
       THEN fin' = "waiting" /\ UNCHANGED <<session, request>>
       ELSE session' = Gone /\ request' = "failed" /\ UNCHANGED fin
    /\ UNCHANGED <<push, object, attempt, merged, copy, pc, savedAt,
                   seen, missed, unrolled>>

(* The rollback: delete_session, whose failure is only logged, then the    *)
(* finalizer.                                                              *)
RollBack ==
    /\ request = "failing"
    /\ \/ session' = Gone /\ UNCHANGED unrolled
       \/ UNCHANGED session /\ unrolled' = TRUE
    /\ request' = "failed"
    /\ fin' = "waiting"
    /\ UNCHANGED <<push, object, attempt, merged, copy, pc, savedAt, seen, missed>>

Succeed ==
    /\ request = "saved"
    /\ request' = "ok"
    /\ fin' = "waiting"
    /\ UNCHANGED <<push, object, session, attempt, merged, copy, pc, savedAt,
                   seen, missed, unrolled>>

-----------------------------------------------------------------------------
(* "await put_task" returns, or raises. *)
Await ==
    /\ fin = "waiting"
    /\ push # "running"
    /\ fin' = IF push = "done" THEN "reading" ELSE "noting"
    /\ UNCHANGED <<push, object, session, request, attempt, merged, copy, pc, savedAt,
                   seen, missed, unrolled>>

(* storage_error is noted on a session that is there, if Redis answers. *)
NoteError ==
    /\ fin = "noting"
    /\ session' \in {session, IF session = Gone THEN Gone ELSE session \union {"error"}}
    /\ fin' = "over"
    /\ UNCHANGED <<push, object, request, attempt, merged, copy, pc, savedAt,
                   seen, missed, unrolled>>

NextCheck ==
    /\ attempt' = attempt + 1
    /\ fin' = IF attempt + 1 = Checks THEN "over" ELSE "reading"

(* Mutant: one check, and none after the URI was seen. *)
CheckOnce(dict) ==
    /\ dict # Gone
    /\ fin' = IF "location" \in dict THEN "over" ELSE "applying"
    /\ UNCHANGED <<object, attempt>>

(* One check of a session that was read as dict. *)
CheckFound(dict) ==
    /\ dict # Gone
    /\ UNCHANGED object
    /\ IF "location" \in dict THEN NextCheck ELSE fin' = "applying" /\ UNCHANGED attempt

(* Mutant: whichever check finds no session, the object is deleted. *)
CheckMissingAnytime(dict) ==
    /\ dict = Gone
    /\ fin' = "over"
    /\ object' = "deleted"
    /\ UNCHANGED attempt

(* No session: at the first check the object is an orphan (its deletion is *)
(* taken to succeed), later the finalizer just ends.                       *)
CheckMissing(dict) ==
    /\ dict = Gone
    /\ fin' = "over"
    /\ object' = IF attempt = 0 THEN "deleted" ELSE object
    /\ UNCHANGED attempt

Check ==
    /\ fin = "reading"
    /\ \E dict \in Reads :
        /\ CheckFound(dict) \/ CheckMissing(dict)
        /\ seen' = (seen \/ dict # Gone)
        /\ missed' = IF dict = session THEN missed
                     ELSE missed \union attempt .. Checks - 1
    /\ UNCHANGED <<push, session, request, merged, copy, pc, savedAt, unrolled>>

(* update_session(_apply): read under the lock, and refused when there is  *)
(* no session; then the write.                                             *)
ApplyRead ==
    /\ fin = "applying"
    /\ \E dict \in Reads :
          IF dict = Gone
          THEN /\ NextCheck
               /\ missed' = IF session = Gone THEN missed ELSE missed \union {attempt}
               /\ UNCHANGED merged
          ELSE /\ merged' = IF "location" \in dict THEN dict ELSE {"location"}
               /\ fin' = "saving"
               /\ UNCHANGED <<attempt, missed>>
    /\ UNCHANGED <<push, object, session, request, copy, pc, savedAt, seen, unrolled>>

ApplyWrite ==
    /\ fin = "saving"
    /\ \/ session' = merged /\ UNCHANGED missed
       \/ UNCHANGED session /\ missed' = missed \union {attempt}
    /\ merged' = Gone
    /\ NextCheck
    /\ UNCHANGED <<push, object, request, copy, pc, savedAt, seen, unrolled>>

-----------------------------------------------------------------------------
(* save_session(sid, stale_sess) of another request. *)
WriterReads(w) ==
    /\ request = "ok"
    /\ pc[w] = "idle"
    /\ session # Gone
    /\ copy' = [copy EXCEPT ![w] = session]
    /\ pc' = [pc EXCEPT ![w] = "working"]
    /\ UNCHANGED <<push, object, session, request, fin, attempt, merged, savedAt,
                   seen, missed, unrolled>>

WriterSaves(w) ==
    /\ pc[w] = "working"
    /\ session' = copy[w]
    /\ pc' = [pc EXCEPT ![w] = "over"]
    /\ savedAt' = [savedAt EXCEPT ![w] = attempt]
    /\ UNCHANGED <<push, object, request, fin, attempt, merged, copy,
                   seen, missed, unrolled>>

(* DELETE /datasets/{id}: the object of the session that was read, as far  *)
(* as storage obeys and its URI is known; then the session.                *)
DeleteObject(d) ==
    /\ request = "ok"
    /\ pc[d] = "idle"
    /\ session # Gone
    /\ object' \in {object, IF object = "stored" THEN "deleted" ELSE object}
    /\ pc' = [pc EXCEPT ![d] = "working"]
    /\ UNCHANGED <<push, session, request, fin, attempt, merged, copy, savedAt,
                   seen, missed, unrolled>>

DeleteSession(d) ==
    /\ pc[d] = "working"
    /\ session' = Gone
    /\ pc' = [pc EXCEPT ![d] = "over"]
    /\ UNCHANGED <<push, object, request, fin, attempt, merged, copy, savedAt,
                   seen, missed, unrolled>>

Finalizer == Await \/ NoteError \/ Check \/ ApplyRead \/ ApplyWrite

Next ==
    \/ Push \/ FailEarly \/ SaveSession \/ FailLate \/ RollBack \/ Succeed
    \/ Finalizer
    \/ \E w \in Writer : WriterReads(w) \/ WriterSaves(w)
    \/ \E d \in Deleter : DeleteObject(d) \/ DeleteSession(d)

Spec == Init /\ [][Next]_vars

-----------------------------------------------------------------------------
(* An object that was not deleted with its dataset is deleted only when    *)
(* there is no session any more, or when the finalizer's very first check  *)
(* could not read the one there is: once a check has read it, no fault of  *)
(* Redis makes a later check take the object of a session in use.          *)
OnlyOrphansDeleted ==
    object = "deleted" /\ (\A d \in Deleter : pc[d] = "idle") =>
        ~seen /\ (session = Gone \/ 0 \in missed)

(* An upload that failed leaves neither its session nor its object (the    *)
(* comment in upload_csv's except clause: no GCS orphans); where a fault   *)
(* kept the session, there is a session, and never an object without one.  *)
RollBackLeavesNothing ==
    request = "failed" /\ fin = "over" =>
        \/ session = Gone /\ object # "stored"
        \/ session # Gone /\ unrolled

(* When the finalizer is over, a session that was not deleted holds the    *)
(* URI, whatever whole dicts were written back, if one check after the     *)
(* last of them was not kept from its work by a fault (the comment above   *)
(* _UPLOAD_REASSERT_DELAYS_S).                                             *)
LocationSurvives ==
    (/\ fin = "over" /\ push = "done" /\ request = "ok"
     /\ \A d \in Deleter : pc[d] = "idle"
     /\ \E check \in (0 .. Checks - 1) \ missed :
            \A w \in Writer : pc[w] = "over" => savedAt[w] < check)
        => session # Gone /\ "location" \in session
=============================================================================
