------------------------ MODULE DeferredTurnsProofs ------------------------
(* Proofs about deferred turns, for any number of turns in a thread of     *)
(* which one can overrun the deadline.                                     *)
EXTENDS DeferredTurns, TLAPS

(* Only a slow turn sees the deadline pass, is deferred or fails after it. *)
OnlySlow ==
    \A t \in Turn :
        /\ clock[t] # "early" => t \in Slow
        /\ http[t] \in {"deferring", "deferred"} => t \in Slow /\ task[t] # "idle"
        /\ task[t] \in {"stash", "failed"} => t \in Slow
        /\ task[t] = "graph" => http[t] \in {"waiting", "deferring", "deferred"}

(* Every record of a pending turn is a slow turn's that has begun, in the  *)
(* process, in the session and in the dicts other turns hold.              *)
SlowRecords ==
    /\ mem # NoTurn => mem.id \in Slow
    /\ stored # NoTurn => stored.id \in Slow /\ task[stored.id] # "idle"
    /\ \A t \in Turn : copy[t] # NoTurn => copy[t].id \in Slow /\ task[copy[t].id] # "idle"

(* The process has the outcome before its stash is tried.                  *)
MemFirst ==
    \A t \in Turn : task[t] \in {"stash", "failed"} => mem # NoTurn /\ mem.status # "running"

(* What the session had of the slow turn when the process restarted stays  *)
(* there: that turn is gone, and the dicts of the turns since hold it.     *)
Survivors ==
    \A t \in survived :
        /\ t \in Slow /\ task[t] = "killed" /\ http[t] \notin {"waiting", "deferring"}
        /\ mem = NoTurn
        /\ stored # NoTurn /\ stored.status # "running"
        /\ \A u \in Turn : task[u] = "graph" => copy[u] # NoTurn /\ copy[u].status # "running"

IInv == TypeOK /\ OnlySlow /\ SlowRecords /\ MemFirst /\ Survivors

-----------------------------------------------------------------------------
(* What the mutators of pending_turn make is a record of the turn.         *)
LEMMA RecordsTyped ==
    ASSUME NEW t \in Turn, NEW pt \in Pending \union {NoTurn}
    PROVE  /\ Running(t, pt) \in Pending
           /\ Running(t, pt).id = t
           /\ pt # NoTurn /\ pt.id = t /\ pt.status # "running" => Running(t, pt).status # "running"
           /\ \A status \in {"done", "error"} :
                 /\ Ended(t, pt, status) \in Pending
                 /\ Ended(t, pt, status).id = t
                 /\ Ended(t, pt, status).status = status
           /\ NoTurn \notin Pending
<1>1. KindOf[t] \in Kind /\ NoTurn \notin Pending
  BY TurnAssumption
<1>2. CarriedKind(pt) \in Kind
  BY <1>1 DEF CarriedKind, Pending, Kind
<1>3. Running(t, pt) \in Pending
  BY <1>1 DEF Running, Pending
<1> QED
  BY <1>1, <1>2, <1>3 DEF Running, Ended, Pending

LEMMA InitInv == Init => IInv
  BY TurnAssumption DEF Init, IInv, TypeOK, OnlySlow, SlowRecords, MemFirst, Survivors

LEMMA WritesBack ==
    ASSUME IInv, NEW t \in Turn, Begin(t) \/ Overlay(t) \/ SaveWhole(t) \/ Answer(t)
    PROVE  IInv'
<1> USE DEF IInv, TypeOK, OnlySlow, SlowRecords, MemFirst, Survivors, process
<1>1. CASE Begin(t)
  BY <1>1 DEF Begin
<1>2. CASE Overlay(t)
  BY <1>2 DEF Overlay
<1>3. CASE SaveWhole(t)
  BY <1>3 DEF SaveWhole
<1>4. CASE Answer(t)
  BY <1>4 DEF Answer
<1> QED
  BY <1>1, <1>2, <1>3, <1>4

LEMMA Clocks == ASSUME IInv, NEW t \in Turn, Elapse(t) PROVE IInv'
  BY DEF Elapse, IInv, TypeOK, OnlySlow, SlowRecords, MemFirst, Survivors, process

(* The handle does not replace an outcome of the only slow turn.           *)
LEMMA Defers ==
    ASSUME IInv, NEW s \in Turn, Slow = {s}, NEW t \in Turn, Defer(t) \/ StashRunning(t)
    PROVE  IInv'
<1>1. CASE Defer(t)
  <2>1. t = s /\ mem \in Pending \union {NoTurn}
    BY <1>1 DEF Defer, IInv, OnlySlow, TypeOK
  <2>2. /\ mem' \in Pending /\ mem' # NoTurn /\ mem'.id = s
        /\ mem # NoTurn /\ mem.status # "running" => mem'.status # "running"
    BY <1>1, <2>1, RecordsTyped DEF Defer, IInv, SlowRecords
  <2> QED
    BY <1>1, <2>1, <2>2 DEF Defer, IInv, TypeOK, OnlySlow, SlowRecords, MemFirst, Survivors, process
<1>2. CASE StashRunning(t)
  <2>1. t = s /\ stored \in Pending \union {NoTurn}
    BY <1>2 DEF StashRunning, IInv, OnlySlow, TypeOK
  <2>2. stored' \in Pending \union {NoTurn} /\ (stored' # NoTurn => stored'.id = s) /\ task[s] # "idle"
    BY <1>2, <2>1, RecordsTyped DEF StashRunning, Stash, IInv, OnlySlow, SlowRecords
  <2> QED
    BY <1>2, <2>1, <2>2 DEF StashRunning, IInv, TypeOK, OnlySlow, SlowRecords, MemFirst, Survivors, process
<1> QED
  BY <1>1, <1>2

LEMMA Ends ==
    ASSUME IInv, NEW s \in Turn, Slow = {s}, NEW t \in Turn,
           Complete(t) \/ Raise(t) \/ StashDone(t) \/ StashError(t)
    PROVE  IInv'
<1>0. mem \in Pending \union {NoTurn} /\ stored \in Pending \union {NoTurn}
  BY DEF IInv, TypeOK
<1>1. CASE Complete(t) \/ Raise(t)
  <2>1. \/ mem' = mem /\ task' = [task EXCEPT ![t] = "over"]
        \/ /\ t = s /\ mem' \in {Ended(t, mem, "done"), Ended(t, mem, "error")}
           /\ task' \in {[task EXCEPT ![t] = "stash"], [task EXCEPT ![t] = "failed"]}
    BY <1>1 DEF Complete, Raise, IInv, OnlySlow
  <2>2. UNCHANGED <<stored, copy, http, clock, restarts, survived>>
    BY <1>1 DEF Complete, Raise, process
  <2>3. t \notin survived /\ (t = s => survived = {})
    BY <1>1 DEF Complete, Raise, IInv, Survivors
  <2>4. CASE mem' = mem /\ task' = [task EXCEPT ![t] = "over"]
    BY <2>2, <2>3, <2>4 DEF IInv, TypeOK, OnlySlow, SlowRecords, MemFirst, Survivors
  <2>5. CASE /\ t = s /\ mem' \in Pending /\ mem' # NoTurn /\ mem'.id = s
             /\ mem'.status # "running"
             /\ task' \in {[task EXCEPT ![t] = "stash"], [task EXCEPT ![t] = "failed"]}
    BY <2>2, <2>3, <2>5 DEF IInv, TypeOK, OnlySlow, SlowRecords, MemFirst, Survivors
  <2>6. t = s /\ mem' \in {Ended(t, mem, "done"), Ended(t, mem, "error")}
          => mem' \in Pending /\ mem' # NoTurn /\ mem'.id = s /\ mem'.status # "running"
    BY <1>0, RecordsTyped
  <2> QED
    BY <2>1, <2>4, <2>5, <2>6
<1>2. CASE StashDone(t) \/ StashError(t)
  <2>1. /\ t = s /\ task' = [task EXCEPT ![t] = "over"]
        /\ stored' \in {stored, Ended(t, stored, "done"), Ended(t, stored, "error")}
        /\ UNCHANGED <<mem, copy, http, clock, restarts, survived>>
    BY <1>2 DEF StashDone, StashError, Stash, IInv, OnlySlow, process
  <2>2. stored' \in Pending \union {NoTurn} /\ (stored' # NoTurn => stored'.id \in Slow)
    BY <1>0, <2>1, RecordsTyped DEF IInv, SlowRecords
  <2>3. survived = {}
    BY <1>2, <2>1 DEF StashDone, StashError, IInv, Survivors
  <2> QED
    BY <2>1, <2>2, <2>3 DEF IInv, TypeOK, OnlySlow, SlowRecords, MemFirst, Survivors
<1> QED
  BY <1>1, <1>2

(* A restart leaves neither turns nor records but those of the session.    *)
LEMMA RestartInv == IInv /\ Restart => IInv'
<1> SUFFICES ASSUME IInv, Restart PROVE IInv'
  OBVIOUS
<1> USE DEF IInv, Restart
<1>1. TypeOK'
  BY TurnAssumption DEF TypeOK, Pending
<1>2. OnlySlow' /\ MemFirst'
  BY DEF TypeOK, OnlySlow, MemFirst
<1>3. SlowRecords'
  BY TurnAssumption DEF SlowRecords, TypeOK
<1>4. Survivors'
  <2>1. ASSUME NEW t \in survived' PROVE t \in Slow /\ stored # NoTurn /\ stored.status # "running"
    BY <2>1 DEF SlowRecords
  <2>2. \A t \in Slow : http'[t] \notin {"waiting", "deferring"}
    BY TurnAssumption DEF TypeOK
  <2>3. \A t \in survived' : task'[t] = "killed"
    BY <2>1, TurnAssumption DEF TypeOK, SlowRecords
  <2>4. \A u \in Turn : task'[u] # "graph"
    BY DEF TypeOK
  <2> QED
    BY <2>1, <2>2, <2>3, <2>4 DEF Survivors
<1> QED
  BY <1>1, <1>2, <1>3, <1>4

LEMMA StepInv ==
    ASSUME NEW s \in Turn, Slow = {s} PROVE IInv /\ [Next]_vars => IInv'
<1>1. IInv /\ UNCHANGED vars => IInv'
  BY DEF vars, IInv, TypeOK, OnlySlow, SlowRecords, MemFirst, Survivors, process
<1> QED
  BY <1>1, WritesBack, Clocks, Defers, Ends, RestartInv DEF Next

(* While one turn of the thread can overrun, its invariant holds.          *)
THEOREM TurnsInvariant == ASSUME NEW s \in Turn, Slow = {s} PROVE Spec => []IInv
<1>1. IInv /\ [Next]_vars => IInv'
  BY StepInv
<1> QED
  BY <1>1, InitInv, PTL DEF Spec

(* Once the process has the outcome of a deferred turn every poll gets it, *)
(* whichever stashes Redis lost, and whatever dicts of any number of other *)
(* turns were written back over the session; and an outcome the session    *)
(* had at a restart is served from it ever after.                          *)
THEOREM OutcomeServed == ASSUME NEW s \in Turn, Slow = {s} PROVE Spec => []OutcomeIsServed
<1>1. ASSUME IInv, Recorded(s), NEW readable \in BOOLEAN
      PROVE  Poll(s, readable) \in {"done", "error"}
  <2>1. mem \in Pending /\ mem.id = s /\ mem.status # "running"
    BY <1>1 DEF IInv, TypeOK, SlowRecords, MemFirst, Recorded
  <2>2. mem.status \in {"done", "error"} /\ mem # NoTurn
    BY <2>1, TurnAssumption DEF Pending
  <2>3. Looked(readable) \in {stored, mem}
    BY DEF Looked
  <2>4. CASE Looked(readable) = mem
    BY <2>1, <2>2, <2>4 DEF Poll
  <2>5. CASE Looked(readable) = stored /\ stored # mem
    <3>1. stored # NoTurn /\ stored.id = s /\ stored \in Pending
      BY <1>1, <2>2, <2>5 DEF Looked, IInv, SlowRecords, TypeOK
    <3>2. stored.status # "running"
      BY <2>1, <2>2, <2>5, <3>1 DEF Looked
    <3> QED
      BY <2>5, <3>1, <3>2 DEF Poll, Pending
  <2> QED
    BY <2>3, <2>4, <2>5
<1>2. ASSUME IInv, s \in survived PROVE Poll(s, TRUE) \in {"done", "error"}
  <2>1. stored # NoTurn /\ stored \in Pending /\ stored.id = s /\ stored.status # "running" /\ mem = NoTurn
    BY <1>2 DEF IInv, TypeOK, SlowRecords, Survivors
  <2> QED
    BY <2>1 DEF Poll, Looked, Pending
<1>3. IInv => OutcomeIsServed
  <2> SUFFICES ASSUME IInv, NEW readable \in BOOLEAN,
                      Recorded(s) \/ (readable /\ s \in survived)
               PROVE  Poll(s, readable) \in {"done", "error"}
    BY DEF OutcomeIsServed
  <2>1. CASE Recorded(s)
    BY <1>1, <2>1
  <2>2. CASE readable = TRUE /\ s \in survived
    BY <1>2, <2>2
  <2> QED
    BY <2>1, <2>2
<1> QED
  BY <1>3, TurnsInvariant, PTL
=============================================================================
