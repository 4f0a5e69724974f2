---------------------------- MODULE SessionStore ----------------------------
(***************************************************************************)
(* One session of app/services/session_service.py: the JSON blob under the *)
(* Redis key sess:{sid}, the cache circuit breaker every reader consults,  *)
(* and the per-session asyncio lock of update_session, driven by the       *)
(* coroutines of app/api/server.py that write sessions.                    *)
(*                                                                         *)
(* A dict is a function from its fields to the operation that last set     *)
(* them.  NoDict is every dict save_session refuses: a missing key, the    *)
(* None of a failed or skipped read, and a delta on top of {} (no          *)
(* user_id).  Each await on Redis is a step of its own, so other           *)
(* coroutines, and a Redis that answers late, interleave there.            *)
(***************************************************************************)
EXTENDS Sequences, FiniteSets

CONSTANTS
    Update,     \* update_session calls whose mutator sets one key
    Turn,       \* send_message turns: read once, write the whole dict back
    Handler,    \* endpoints and workers: read, change, save_session, no lock
    Delete,     \* session deletions
    Field, FieldOf, Unset, NoDict,
    HasAnalysis \* an analyses row exists, so a missed read is rebuilt from it

Task == Update \union Turn \union Handler \union Delete
Dict == [Field -> Task \union {Unset}]

ASSUME SessionAssumption ==
    /\ Turn \intersect (Update \union Handler \union Delete) = {}
    /\ Handler \intersect (Update \union Delete) = {}
    /\ Update \intersect Delete = {}
    /\ FieldOf \in [Task -> Field]
    /\ Unset \notin Task
    /\ NoDict \notin Dict
    /\ HasAnalysis \in BOOLEAN

VARIABLES
    blob,       \* the stored session, NoDict when the key is missing
    breaker,    \* time.time() < CACHE_DEGRADED_UNTIL
    lockQueue,  \* asyncio.Lock: the holder first, then its waiters in order
    pc,         \* where each operation stands
    copy,       \* the dict a Turn or Handler read at its start, with its change
    merged,     \* the dict an operation is writing
    late,       \* a SET the client gave up on and Redis may still execute
    result      \* what the operation's last write returned

vars == <<blob, breaker, lockQueue, pc, copy, merged, late, result>>

FreshSession == [f \in Field |-> Unset]

TypeOK ==
    /\ blob \in Dict \union {NoDict}
    /\ breaker \in BOOLEAN
    /\ lockQueue \in Seq(Task)
    /\ pc \in [Task -> {"idle", "working", "waiting", "saving", "indexing", "done"}]
    /\ copy \in [Task -> Dict \union {NoDict}]
    /\ merged \in [Task -> Dict \union {NoDict}]
    /\ late \in [Task -> Dict \union {NoDict}]
    /\ result \in [Task -> {"none", "ok", "failed", "refused"}]

Init ==
    /\ blob = FreshSession
    /\ breaker = FALSE
    /\ lockQueue = <<>>
    /\ pc = [t \in Task |-> "idle"]
    /\ copy = [t \in Task |-> NoDict]
    /\ merged = [t \in Task |-> NoDict]
    /\ late = [t \in Task |-> NoDict]
    /\ result = [t \in Task |-> "none"]

-----------------------------------------------------------------------------
(* get_session without bypass_circuit: None while the breaker is open, the *)
(* stored dict, or None with the breaker opened by the failed read.        *)
GetSession(dict) ==
    \/ /\ breaker
       /\ dict = NoDict
       /\ UNCHANGED breaker
    \/ /\ ~breaker
       /\ dict = blob
       /\ UNCHANGED breaker
    \/ /\ ~breaker
       /\ dict = NoDict
       /\ breaker' = TRUE

(* What one operation sets in a dict it holds. *)
Set(dict, t) == [dict EXCEPT ![FieldOf[t]] = t]

(* Mutant: a turn that re-reads nothing gives up its own dict. *)
OverlayNeedsStored(whole, cur) ==
    IF cur = NoDict THEN NoDict
    ELSE [f \in Field |-> IF whole[f] = Unset THEN cur[f] ELSE whole[f]]

(* cur.update(primary_sess): the keys the turn holds replace the stored    *)
(* ones; a key it does not hold keeps its stored value.                    *)
Overlay(whole, cur) ==
    IF cur = NoDict THEN whole
    ELSE [f \in Field |-> IF whole[f] = Unset THEN cur[f] ELSE whole[f]]

(* Mutant: a delta on top of {} counts as a session. *)
MergeWithoutOwner(t, cur) ==
    IF t \in Turn THEN Overlay(copy[t], cur)
    ELSE Set(IF cur = NoDict THEN FreshSession ELSE cur, t)

(* The dict update_session hands to save_session: the mutator applied to   *)
(* what was read, {} when the read returned None.                          *)
Merge(t, cur) ==
    IF t \in Turn THEN Overlay(copy[t], cur)
    ELSE IF cur = NoDict THEN NoDict
    ELSE Set(cur, t)

(* Where a coroutine continues after a write: a turn goes on, the others   *)
(* end.                                                                    *)
AfterWrite(t) == IF t \in Turn THEN "working" ELSE "done"

(* Mutant: the lock is kept by a call that was not saved. *)
ReleaseOnlyWhenHealthy(t) ==
    IF lockQueue # <<>> /\ Head(lockQueue) = t /\ ~breaker
    THEN lockQueue' = Tail(lockQueue)
    ELSE UNCHANGED lockQueue

(* Leaving "async with lock": only an operation that took it does. *)
Release(t) ==
    IF lockQueue # <<>> /\ Head(lockQueue) = t
    THEN lockQueue' = Tail(lockQueue)
    ELSE UNCHANGED lockQueue

(* The end of a write, with what save_session returned. *)
Return(t, value) ==
    /\ result' = [result EXCEPT ![t] = value]
    /\ merged' = [merged EXCEPT ![t] = NoDict]
    /\ pc' = [pc EXCEPT ![t] = AfterWrite(t)]
    /\ Release(t)

(* Mutant: a new call takes the lock from its holder. *)
EnterFirst(t) ==
    /\ \/ t \in Update /\ pc[t] = "idle"
       \/ t \in Turn /\ pc[t] = "working"
    /\ pc' = [pc EXCEPT ![t] = "waiting"]
    /\ lockQueue' = <<t>> \o lockQueue
    /\ UNCHANGED <<blob, breaker, copy, merged, late, result>>

-----------------------------------------------------------------------------
(* update_session is called: the coroutine queues for the session's lock. *)
Enter(t) ==
    /\ \/ t \in Update /\ pc[t] = "idle"
       \/ t \in Turn /\ pc[t] = "working"
    /\ pc' = [pc EXCEPT ![t] = "waiting"]
    /\ lockQueue' = Append(lockQueue, t)
    /\ UNCHANGED <<blob, breaker, copy, merged, late, result>>

(* Holding the lock: re-read the session and apply the mutator.  A dict    *)
(* with no user_id is refused by save_session without touching Redis.      *)
LockedRead(t) ==
    /\ pc[t] = "waiting"
    /\ lockQueue # <<>> /\ Head(lockQueue) = t
    /\ \E dict \in {blob, NoDict} :
          /\ GetSession(dict)
          /\ \/ /\ Merge(t, dict) = NoDict
                /\ Return(t, "refused")
             \/ /\ Merge(t, dict) # NoDict
                /\ merged' = [merged EXCEPT ![t] = Merge(t, dict)]
                /\ pc' = [pc EXCEPT ![t] = "saving"]
                /\ UNCHANGED <<lockQueue, result>>
    /\ UNCHANGED <<blob, copy, late>>

(* Mutant: an open breaker skips the write. *)
SetBlobUnlessDegraded(t) ==
    /\ pc[t] = "saving"
    /\ blob' = IF breaker THEN blob ELSE merged[t]
    /\ pc' = [pc EXCEPT ![t] = "indexing"]
    /\ UNCHANGED <<breaker, lockQueue, copy, merged, late, result>>

(* save_session's first await, SET sess:{sid}. *)
SetBlob(t) ==
    /\ pc[t] = "saving"
    /\ blob' = merged[t]
    /\ pc' = [pc EXCEPT ![t] = "indexing"]
    /\ UNCHANGED <<breaker, lockQueue, copy, merged, late, result>>

(* The SET fails or passes its deadline: the breaker opens, the caller     *)
(* gets False, and a command already sent may still be executed.           *)
SetBlobFails(t) ==
    /\ pc[t] = "saving"
    /\ breaker' = TRUE
    /\ Return(t, "failed")
    /\ \/ UNCHANGED late
       \/ late' = [late EXCEPT ![t] = merged[t]]
    /\ UNCHANGED <<blob, copy>>

(* The remaining awaits of save_session: the user's set, the summary and   *)
(* the dataset index, which hold none of the fields modelled here.         *)
SaveIndexes(t) ==
    /\ pc[t] = "indexing"
    /\ Return(t, "ok")
    /\ UNCHANGED <<blob, breaker, copy, late>>

SaveIndexesFail(t) ==
    /\ pc[t] = "indexing"
    /\ breaker' = TRUE
    /\ Return(t, "failed")
    /\ UNCHANGED <<blob, copy, late>>

-----------------------------------------------------------------------------
(* A turn or an endpoint reads the session, and changes its own copy.      *)
(* Without one it stops; a turn first asks for a rebuild.                  *)
Load(t) ==
    /\ t \in Turn \union Handler
    /\ pc[t] = "idle"
    /\ \E dict \in {blob, NoDict} :
          /\ GetSession(dict)
          /\ \/ /\ dict # NoDict
                /\ copy' = [copy EXCEPT ![t] = Set(dict, t)]
                /\ pc' = [pc EXCEPT ![t] = "working"]
                /\ UNCHANGED merged
             \/ /\ dict = NoDict
                /\ \/ t \in Handler
                   \/ t \in Turn /\ ~HasAnalysis
                /\ pc' = [pc EXCEPT ![t] = "done"]
                /\ UNCHANGED <<copy, merged>>
             \/ /\ dict = NoDict
                /\ t \in Turn /\ HasAnalysis
                /\ copy' = [copy EXCEPT ![t] = Set(FreshSession, t)]
                /\ merged' = [merged EXCEPT ![t] = FreshSession]
                /\ pc' = [pc EXCEPT ![t] = "saving"]
    /\ UNCHANGED <<blob, lockQueue, late, result>>

(* Mutant: only the caller's own key is saved. *)
SaveDeltaOnly(t) ==
    /\ t \in Turn \union Handler
    /\ pc[t] = "working"
    /\ merged' = [merged EXCEPT ![t] = Set(FreshSession, t)]
    /\ pc' = [pc EXCEPT ![t] = "saving"]
    /\ UNCHANGED <<blob, breaker, lockQueue, copy, late, result>>

(* save_session(sid, whole dict) outside the lock. *)
SaveWhole(t) ==
    /\ t \in Turn \union Handler
    /\ pc[t] = "working"
    /\ merged' = [merged EXCEPT ![t] = copy[t]]
    /\ pc' = [pc EXCEPT ![t] = "saving"]
    /\ UNCHANGED <<blob, breaker, lockQueue, copy, late, result>>

FinishTurn(t) ==
    /\ t \in Turn
    /\ pc[t] = "working"
    /\ pc' = [pc EXCEPT ![t] = "done"]
    /\ UNCHANGED <<blob, breaker, lockQueue, copy, merged, late, result>>

(* delete_session and DELETE /datasets: the key goes, or Redis fails. *)
DeleteBlob(t) ==
    /\ t \in Delete
    /\ pc[t] = "idle"
    /\ \/ blob' = NoDict
       \/ UNCHANGED blob
    /\ pc' = [pc EXCEPT ![t] = "done"]
    /\ UNCHANGED <<breaker, lockQueue, copy, merged, late, result>>

-----------------------------------------------------------------------------
(* Redis executes, or never executes, a SET its client gave up on. *)
LateSet(t) ==
    /\ late[t] # NoDict
    /\ late' = [late EXCEPT ![t] = NoDict]
    /\ \/ blob' = late[t]
       \/ UNCHANGED blob
    /\ UNCHANGED <<breaker, lockQueue, pc, copy, merged, result>>

(* Any other cache call of the process fails. *)
TripBreaker ==
    /\ ~breaker
    /\ breaker' = TRUE
    /\ UNCHANGED <<blob, lockQueue, pc, copy, merged, late, result>>

(* CACHE_DEGRADE_SECONDS (15s) pass without a further failure.  Assumed:   *)
(* Redis has by then executed or dropped what it had received.             *)
BreakerCloses ==
    /\ breaker
    /\ \A t \in Task : late[t] = NoDict
    /\ breaker' = FALSE
    /\ UNCHANGED <<blob, lockQueue, pc, copy, merged, late, result>>

Write(t) ==
    LockedRead(t) \/ SetBlob(t) \/ SetBlobFails(t) \/ SaveIndexes(t) \/ SaveIndexesFail(t)

Next ==
    \/ \E t \in Task :
          \/ Enter(t) \/ Write(t) \/ Load(t) \/ SaveWhole(t)
          \/ FinishTurn(t) \/ DeleteBlob(t) \/ LateSet(t)
    \/ TripBreaker
    \/ BreakerCloses

(* Every await of a write is bounded by asyncio.timeout or redis-py's own  *)
(* socket timeouts, so a coroutine inside one always gets on.              *)
Fairness == \A t \in Task : WF_vars(Write(t))

Spec == Init /\ [][Next]_vars
FairSpec == Spec /\ Fairness

-----------------------------------------------------------------------------
(* A write lands on top of what is stored and changes only its own key:    *)
(* what update_session's docstring calls preventing lost updates.          *)
Register == INSTANCE SessionRegister WITH register <- blob
NoLostUpdate == Register!Spec

(* Why: with update_session as the only writer, the holder of the lock     *)
(* writes the stored session with its own key set, nobody else writes, and *)
(* a SET the client gave up on is still current when Redis executes it,    *)
(* because the breaker it opened makes every later read return None.       *)
LockInv ==
    /\ blob \in Dict
    /\ \A t \in Task : pc[t] \in {"saving", "indexing"} =>
                          lockQueue # <<>> /\ t = Head(lockQueue)
    /\ \A t \in Task : pc[t] = "saving" =>
                          /\ merged[t] = Set(blob, t)
                          /\ \A u \in Task : late[u] = NoDict
    /\ \A t \in Task : late[t] # NoDict =>
                          /\ breaker
                          /\ late[t] = Set(blob, t)
                          /\ \A u \in Task \ {t} : late[u] = NoDict

(* When update_session returns the merged dict (save_session said True)    *)
(* the operation's value is in the stored session at that moment.          *)
AckMeansStored ==
    [][\A t \in Update :
          (result'[t] = "ok" /\ result[t] # "ok" /\ blob' # NoDict)
              => blob'[FieldOf[t]] = t]_vars

(* Nobody is holding a dict it could write. *)
NothingInFlight ==
    \A t \in Task :
       /\ pc[t] \notin {"working", "saving", "indexing"}
       /\ t \in Turn => pc[t] # "waiting"
       /\ late[t] = NoDict

(* Once a session is deleted and nothing that read it before is in flight, *)
(* only a turn's rebuild brings it back, and no later update_session call  *)
(* or endpoint does: the {} an update starts from has no user_id.          *)
StaysDeleted ==
    [][(blob = NoDict /\ NothingInFlight) =>
          /\ blob' = NoDict
          /\ NothingInFlight' \/ \E t \in Turn : pc[t] = "idle" /\ pc'[t] = "saving"]_vars

(* Every update_session call gets the lock and returns, whatever Redis     *)
(* does.                                                                   *)
EveryCallReturns ==
    \A t \in Update \union Turn : (pc[t] = "waiting") ~> (pc[t] # "waiting")

(* A turn holds a dict with a user_id, so its writes always reach Redis:   *)
(* an open breaker shortens their deadline and skips none.                 *)
TurnWritesAreAttempted == \A t \in Turn : result[t] # "refused"
=============================================================================
