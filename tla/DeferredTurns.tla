--------------------------- MODULE DeferredTurns ---------------------------
(***************************************************************************)
(* The chat turns of one thread in app/api/server.py.  send_message races  *)
(* a turn's task against a soft deadline; a turn that overruns is answered *)
(* with a "running" handle and leaves its result under pending_turn in the *)
(* thread's session, with a copy in the process (_PENDING_TURN_MEM), for   *)
(* GET /threads/{id}/pending-turn to serve.                                *)
(*                                                                         *)
(* The turn's primary session is the one its thread is bound to, as in a   *)
(* thread with one dataset, so the turn's whole-dict saves write the       *)
(* pending_turn its copy holds.  An update_session that Redis refuses, or  *)
(* that an open breaker makes save_session refuse, changes nothing.  When  *)
(* the process restarts its turns are gone with its copy.                  *)
(***************************************************************************)
EXTENDS Naturals, FiniteSets

CONSTANTS
    Turn, Slow,     \* the turns, and those that may overrun the deadline
    KindOf,         \* "training" or "analysis"
    NoTurn,         \* no pending_turn
    MaxRestarts     \* bound: restarts of the process

Kind == {"training", "analysis"}
Pending == [id : Turn, status : {"running", "done", "error"}, kind : Kind]

ASSUME TurnAssumption ==
    /\ Slow \subseteq Turn
    /\ KindOf \in [Turn -> Kind]
    /\ NoTurn \notin Pending
    /\ MaxRestarts \in Nat

VARIABLES
    stored,     \* pending_turn in the session
    mem,        \* _PENDING_TURN_MEM of the thread
    copy,       \* pending_turn in the dict each turn read at its start
    task,       \* where _run_graph_and_finalize stands
    http,       \* where send_message stands
    clock,      \* the deadline passed for nobody, for asyncio.wait, for both
    restarts,   \* restarts so far
    survived    \* history: turns whose outcome was in the session at one

vars == <<stored, mem, copy, task, http, clock, restarts, survived>>
process == <<restarts, survived>>

TypeOK ==
    /\ stored \in Pending \union {NoTurn}
    /\ mem \in Pending \union {NoTurn}
    /\ copy \in [Turn -> Pending \union {NoTurn}]
    /\ task \in [Turn -> {"idle", "graph", "stash", "failed", "over", "killed"}]
    /\ http \in [Turn -> {"idle", "waiting", "deferring", "deferred", "answered"}]
    /\ clock \in [Turn -> {"early", "timer", "late"}]
    /\ restarts \in 0 .. MaxRestarts
    /\ survived \subseteq Turn

Init ==
    /\ stored = NoTurn
    /\ mem = NoTurn
    /\ copy = [t \in Turn |-> NoTurn]
    /\ task = [t \in Turn |-> "idle"]
    /\ http = [t \in Turn |-> "idle"]
    /\ clock = [t \in Turn |-> "early"]
    /\ restarts = 0
    /\ survived = {}

-----------------------------------------------------------------------------
(* The mutators of pending_turn. *)
(* Mutant: a result that is already there is overwritten. *)
RunningAnyway(t, pt) == [id |-> t, status |-> "running", kind |-> KindOf[t]]

(* _pending_turn_running *)
Running(t, pt) ==
    IF pt # NoTurn /\ pt.id = t /\ pt.status \in {"done", "error"} THEN pt
    ELSE [id |-> t, status |-> "running", kind |-> KindOf[t]]

(* _carry_pending_kind *)
CarriedKind(pt) == IF pt = NoTurn THEN "analysis" ELSE pt.kind

(* _pending_turn_done and _pending_turn_error *)
Ended(t, pt, status) == [id |-> t, status |-> status, kind |-> CarriedKind(pt)]

(* update_session with a mutator: applied to what is stored, or lost. *)
Stash(pt) == stored' = pt \/ UNCHANGED stored

-----------------------------------------------------------------------------
(* send_message reads the session and starts the task. *)
Begin(t) ==
    /\ task[t] = "idle"
    /\ copy' = [copy EXCEPT ![t] = stored]
    /\ task' = [task EXCEPT ![t] = "graph"]
    /\ http' = [http EXCEPT ![t] = "waiting"]
    /\ UNCHANGED <<stored, mem, clock, process>>

(* update_session(sid, lambda cur: cur.update(primary_sess)), between the  *)
(* end of the graph and the stash.                                         *)
Overlay(t) ==
    /\ task[t] = "graph"
    /\ copy[t] # NoTurn
    /\ stored' = copy[t]
    /\ UNCHANGED <<mem, copy, task, http, clock, process>>

(* save_session(primary_sid, primary_sess) *)
SaveWhole(t) ==
    /\ task[t] = "graph"
    /\ stored' = copy[t]
    /\ UNCHANGED <<mem, copy, task, http, clock, process>>

(* TURN_SYNC_DEADLINE_S passes since asyncio.wait set its timer, then      *)
(* since the task took its own _t0.                                        *)
Elapse(t) ==
    /\ t \in Slow
    /\ task[t] \notin {"idle", "over", "killed"}
    /\ \/ clock[t] = "early" /\ clock' = [clock EXCEPT ![t] = "timer"]
       \/ clock[t] = "timer" /\ clock' = [clock EXCEPT ![t] = "late"]
    /\ UNCHANGED <<stored, mem, copy, task, http, process>>

(* asyncio.wait returns with the task not done: the handle is registered   *)
(* in the process, then in the session, then returned.                     *)
Defer(t) ==
    /\ http[t] = "waiting"
    /\ clock[t] # "early"
    /\ task[t] \in {"graph", "stash"}
    /\ mem' = Running(t, mem)
    /\ http' = [http EXCEPT ![t] = "deferring"]
    /\ UNCHANGED <<stored, copy, task, clock, process>>

StashRunning(t) ==
    /\ http[t] = "deferring"
    /\ Stash(Running(t, stored))
    /\ http' = [http EXCEPT ![t] = "deferred"]
    /\ UNCHANGED <<mem, copy, task, clock, process>>

(* The turn is complete: on time nothing is stashed; late, the copy in the *)
(* process comes first.                                                    *)
Complete(t) ==
    /\ task[t] = "graph"
    /\ IF clock[t] = "late"
       THEN mem' = Ended(t, mem, "done") /\ task' = [task EXCEPT ![t] = "stash"]
       ELSE UNCHANGED mem /\ task' = [task EXCEPT ![t] = "over"]
    /\ UNCHANGED <<stored, copy, http, clock, process>>

StashDone(t) ==
    /\ task[t] = "stash"
    /\ Stash(Ended(t, stored, "done"))
    /\ task' = [task EXCEPT ![t] = "over"]
    /\ UNCHANGED <<mem, copy, http, clock, process>>

(* The turn raises: before the deadline send_message answers for it, after *)
(* it _cleanup records the error and starts a task that stashes it.        *)
Raise(t) ==
    /\ task[t] = "graph"
    /\ IF http[t] = "waiting"
       THEN UNCHANGED mem /\ task' = [task EXCEPT ![t] = "over"]
       ELSE mem' = Ended(t, mem, "error") /\ task' = [task EXCEPT ![t] = "failed"]
    /\ UNCHANGED <<stored, copy, http, clock, process>>

StashError(t) ==
    /\ task[t] = "failed"
    /\ Stash(Ended(t, stored, "error"))
    /\ task' = [task EXCEPT ![t] = "over"]
    /\ UNCHANGED <<mem, copy, http, clock, process>>

(* asyncio.wait returns with the task done: the answer is in the response. *)
Answer(t) ==
    /\ http[t] = "waiting"
    /\ task[t] = "over"
    /\ http' = [http EXCEPT ![t] = "answered"]
    /\ UNCHANGED <<stored, mem, copy, task, clock, process>>

(* The process restarts: turns, requests and the copy are gone. *)
Restart ==
    /\ restarts < MaxRestarts
    /\ restarts' = restarts + 1
    /\ mem' = NoTurn
    /\ task' = [t \in Turn |-> IF task[t] = "idle" THEN "idle" ELSE "killed"]
    /\ http' = [t \in Turn |-> IF http[t] \in {"waiting", "deferring"} THEN "answered" ELSE http[t]]
    /\ survived' = IF stored # NoTurn /\ stored.status # "running" THEN {stored.id} ELSE {}
    /\ UNCHANGED <<stored, copy, clock>>

Next ==
    \/ \E t \in Turn :
       \/ Begin(t) \/ Overlay(t) \/ SaveWhole(t) \/ Elapse(t) \/ Defer(t)
       \/ StashRunning(t) \/ Complete(t) \/ StashDone(t) \/ Raise(t)
       \/ StashError(t) \/ Answer(t)
    \/ Restart

Spec == Init /\ [][Next]_vars

(* The event loop runs what is ready: a graph returns or raises, awaits on *)
(* Redis are bounded, and time passes.                                     *)
Fairness ==
    \A t \in Turn :
       /\ WF_vars(Complete(t) \/ StashDone(t) \/ Raise(t) \/ StashError(t))
       /\ WF_vars(Defer(t) \/ StashRunning(t) \/ Answer(t))

FairSpec == Spec /\ Fairness

-----------------------------------------------------------------------------
(* Mutant: the copy in the process is for a session that cannot be read. *)
StoredFirst(readable) == IF readable THEN stored ELSE mem

(* The pending_turn get_pending_turn looks at: the session's, unless the   *)
(* session cannot be read or holds nothing, or holds a "running" that the  *)
(* process knows to be over.                                               *)
Looked(readable) ==
    IF readable /\ (mem = NoTurn
                    \/ (stored # NoTurn
                        /\ ~ (stored.id = mem.id /\ stored.status = "running"
                              /\ mem.status \in {"done", "error"})))
    THEN stored
    ELSE mem

(* What it answers to a poll for turn t. *)
Poll(t, readable) ==
    LET pt == Looked(readable) IN
    IF pt = NoTurn THEN "none"
    ELSE IF pt.id # t THEN "superseded"
    ELSE pt.status

Recorded(t) == task[t] \in {"stash", "failed"} \/ (mem # NoTurn /\ mem.id = t /\ mem.status # "running")

(* With one turn of the thread that can overrun, once the process has its  *)
(* outcome every poll gets it, whatever Redis lost and whatever other      *)
(* turns wrote back; and once the session has it when the process          *)
(* restarts, every poll that can read the session gets it from then on.    *)
OutcomeIsServed ==
    \A t \in Slow : http[t] = "deferred" =>
        \A readable \in BOOLEAN :
            Recorded(t) \/ (readable /\ t \in survived) => Poll(t, readable) \in {"done", "error"}

(* A turn that was answered with a handle stops being "running" for good   *)
(* (the comment above _PENDING_TURN_MEM: no poll says "running" forever),  *)
(* unless it returned in the gap between the two clocks' deadlines, too    *)
(* late for asyncio.wait and too early to stash, or the process restarted  *)
(* before the session had its outcome.                                     *)
DeferredTurnEnds ==
    \A t \in Slow : (http[t] = "deferred")
        ~> [](\/ Poll(t, TRUE) # "running"
              \/ task[t] = "over" /\ clock[t] = "timer"
              \/ task[t] = "killed" /\ t \notin survived)
=============================================================================
