------------------------- MODULE SessionStoreProofs -------------------------
(***************************************************************************)
(* Proofs about SessionStore: its types, that a turn's locked write is     *)
(* never refused, and that the update_session writers alone implement the  *)
(* SessionRegister, whatever Redis and the breaker do; and about           *)
(* DatasetIndex: a dataset with a session is found, a deleted one is not.  *)
(***************************************************************************)
EXTENDS SessionStore, DatasetIndex, SequenceTheorems, TLAPS

(* The lock queue of the operations stays a sequence of operations. *)
LEMMA QueueTyped ==
    ASSUME NEW q \in Seq(Task), NEW t \in Task
    PROVE  /\ Append(q, t) \in Seq(Task)
           /\ q # <<>> => Tail(q) \in Seq(Task) /\ Head(q) \in Task
           /\ q # <<>> => Append(q, t) # <<>> /\ Head(Append(q, t)) = Head(q)
  BY AppendProperties, HeadTailProperties

(* A turn that is past its first read holds a session. *)
TurnHoldsDict == \A t \in Turn : pc[t] \notin {"idle", "done"} => copy[t] \in Dict

TypeInv == TypeOK /\ TurnHoldsDict

LEMMA TurnsAreTasks == Turn \subseteq Task
  BY DEF Task

(* What the writers build from dicts are dicts. *)
LEMMA DictsTyped ==
    /\ FreshSession \in Dict
    /\ \A t \in Task : \A d \in Dict : Set(d, t) \in Dict
    /\ \A whole, d \in Dict : Overlay(whole, d) \in Dict
    /\ \A whole \in Dict : Overlay(whole, NoDict) \in Dict
<1>1. FreshSession \in Dict
  BY DEF FreshSession, Dict
<1>2. \A t \in Task : \A d \in Dict : Set(d, t) \in Dict
  BY DEF Set, Dict
<1>3. \A whole, d \in Dict : Overlay(whole, d) \in Dict
  BY SessionAssumption DEF Overlay, Dict
<1>4. \A whole \in Dict : Overlay(whole, NoDict) \in Dict
  BY DEF Overlay
<1> QED
  BY <1>1, <1>2, <1>3, <1>4

(* So is what update_session saves. *)
LEMMA MergeTyped ==
    ASSUME TypeInv, NEW t \in Task, pc[t] = "waiting", NEW d \in Dict \union {NoDict}
    PROVE  Merge(t, d) \in Dict \union {NoDict}
<1>1. CASE t \in Turn
  <2>1. copy[t] \in Dict
    BY <1>1 DEF TypeInv, TurnHoldsDict
  <2> QED
    BY <1>1, <2>1, DictsTyped DEF Merge
<1>2. CASE t \notin Turn
  BY <1>2, DictsTyped DEF Merge
<1> QED
  BY <1>1, <1>2

LEMMA InitTyped == Init => TypeInv
<1> SUFFICES ASSUME Init PROVE TypeInv
  OBVIOUS
<1>1. blob \in Dict \union {NoDict}
  BY DictsTyped DEF Init
<1>2. lockQueue \in Seq(Task)
  BY EmptySeq DEF Init
<1>3. TurnHoldsDict
  BY DEF Init, TurnHoldsDict, Task
<1> QED
  BY <1>1, <1>2, <1>3 DEF Init, TypeInv, TypeOK

(* Leaving a write: the queue loses at most its head, a turn goes on. *)
LEMMA ReturnTyped ==
    ASSUME TypeInv, NEW t \in Task, NEW v \in {"ok", "failed", "refused"},
           Return(t, v), pc[t] # "idle", pc[t] # "done", UNCHANGED copy
    PROVE  /\ lockQueue' \in Seq(Task)
           /\ pc' \in [Task -> {"idle", "working", "waiting", "saving", "indexing", "done"}]
           /\ merged' \in [Task -> Dict \union {NoDict}]
           /\ result' \in [Task -> {"none", "ok", "failed", "refused"}]
           /\ TurnHoldsDict'
<1>1. lockQueue' \in Seq(Task)
  BY QueueTyped DEF TypeInv, TypeOK, Return, Release
<1>2. AfterWrite(t) \in {"working", "done"}
  BY DEF AfterWrite
<1>3. TurnHoldsDict'
  BY <1>2 DEF TypeInv, TypeOK, TurnHoldsDict, Return
<1> QED
  BY <1>1, <1>2, <1>3 DEF TypeInv, TypeOK, Return

LEMMA StepTyped == TypeInv /\ [Next]_vars => TypeInv'
<1> SUFFICES ASSUME TypeInv, [Next]_vars PROVE TypeInv'
  OBVIOUS
<1>0. TypeOK
  BY DEF TypeInv
<1>1. ASSUME NEW t \in Task, Enter(t) PROVE TypeInv'
  <2>1. lockQueue' \in Seq(Task)
    BY <1>0, <1>1, QueueTyped DEF Enter, TypeOK
  <2>2. TurnHoldsDict'
    BY <1>1, SessionAssumption DEF Enter, TypeInv, TypeOK, TurnHoldsDict
  <2> QED
    BY <1>0, <1>1, <2>1, <2>2 DEF Enter, TypeInv, TypeOK
<1>2. ASSUME NEW t \in Task, LockedRead(t) PROVE TypeInv'
  <2>1. PICK dict \in {blob, NoDict} :
           /\ GetSession(dict)
           /\ \/ Return(t, "refused")
              \/ /\ merged' = [merged EXCEPT ![t] = Merge(t, dict)]
                 /\ pc' = [pc EXCEPT ![t] = "saving"]
                 /\ UNCHANGED <<lockQueue, result>>
    BY <1>2 DEF LockedRead
  <2>2. breaker' \in BOOLEAN
    BY <1>0, <2>1 DEF GetSession, TypeOK
  <2>3. Merge(t, dict) \in Dict \union {NoDict}
    BY <1>0, <1>2, MergeTyped DEF TypeOK, LockedRead
  <2>4. pc[t] = "waiting" /\ UNCHANGED <<blob, copy, late>>
    BY <1>2 DEF LockedRead
  <2>5. CASE Return(t, "refused")
    BY <1>0, <2>2, <2>4, <2>5, ReturnTyped DEF TypeInv, TypeOK
  <2>6. CASE /\ merged' = [merged EXCEPT ![t] = Merge(t, dict)]
             /\ pc' = [pc EXCEPT ![t] = "saving"]
             /\ UNCHANGED <<lockQueue, result>>
    <3>1. TurnHoldsDict'
      BY <2>4, <2>6 DEF TypeInv, TypeOK, TurnHoldsDict
    <3> QED
      BY <1>0, <2>2, <2>3, <2>4, <2>6, <3>1 DEF TypeInv, TypeOK
  <2> QED
    BY <2>1, <2>5, <2>6
<1>3. ASSUME NEW t \in Task, SetBlob(t) PROVE TypeInv'
  BY <1>0, <1>3 DEF SetBlob, TypeInv, TypeOK, TurnHoldsDict
<1>4. ASSUME NEW t \in Task, SetBlobFails(t) PROVE TypeInv'
  BY <1>0, <1>4, ReturnTyped DEF SetBlobFails, TypeInv, TypeOK
<1>5. ASSUME NEW t \in Task, SaveIndexes(t) \/ SaveIndexesFail(t) PROVE TypeInv'
  BY <1>0, <1>5, ReturnTyped DEF SaveIndexes, SaveIndexesFail, TypeInv, TypeOK
<1>6. ASSUME NEW t \in Task, Load(t) PROVE TypeInv'
  <2>1. PICK dict \in {blob, NoDict} :
           /\ GetSession(dict)
           /\ \/ /\ dict # NoDict
                 /\ copy' = [copy EXCEPT ![t] = Set(dict, t)]
                 /\ pc' = [pc EXCEPT ![t] = "working"]
                 /\ UNCHANGED merged
              \/ /\ pc' = [pc EXCEPT ![t] = "done"]
                 /\ UNCHANGED <<copy, merged>>
              \/ /\ copy' = [copy EXCEPT ![t] = Set(FreshSession, t)]
                 /\ merged' = [merged EXCEPT ![t] = FreshSession]
                 /\ pc' = [pc EXCEPT ![t] = "saving"]
    BY <1>6 DEF Load
  <2>2. breaker' \in BOOLEAN
    BY <1>0, <2>1 DEF GetSession, TypeOK
  <2>3. dict # NoDict => Set(dict, t) \in Dict
    BY <1>0, DictsTyped DEF TypeOK
  <2>4. FreshSession \in Dict /\ Set(FreshSession, t) \in Dict
    BY DictsTyped
  <2>5. UNCHANGED <<blob, lockQueue, late, result>>
    BY <1>6 DEF Load
  <2>6. TypeOK'
    BY <1>0, <2>1, <2>2, <2>3, <2>4, <2>5 DEF TypeOK
  <2>7. TurnHoldsDict'
    <3>1. ASSUME NEW w \in Turn, pc'[w] \notin {"idle", "done"} PROVE copy'[w] \in Dict
      <4>1. CASE w = t
        BY <1>0, <2>1, <2>3, <2>4, <3>1, <4>1 DEF TypeOK
      <4>2. CASE w # t
        <5>1. pc'[w] = pc[w] /\ copy'[w] = copy[w]
          BY <1>0, <2>1, <4>2, TurnsAreTasks DEF TypeOK
        <5> QED
          BY <3>1, <5>1 DEF TypeInv, TurnHoldsDict
      <4> QED
        BY <4>1, <4>2
    <3> QED
      BY <3>1 DEF TurnHoldsDict
  <2> QED
    BY <2>6, <2>7 DEF TypeInv
<1>7. ASSUME NEW t \in Task, SaveWhole(t) \/ FinishTurn(t) PROVE TypeInv'
  <2>1. TypeOK'
    BY <1>0, <1>7 DEF SaveWhole, FinishTurn, TypeOK
  <2>2. TurnHoldsDict'
    BY <1>0, <1>7, TurnsAreTasks DEF SaveWhole, FinishTurn, TypeInv, TypeOK, TurnHoldsDict
  <2> QED
    BY <2>1, <2>2 DEF TypeInv
<1>8. ASSUME NEW t \in Task, DeleteBlob(t) \/ LateSet(t) PROVE TypeInv'
  <2>1. TypeOK'
    BY <1>0, <1>8 DEF DeleteBlob, LateSet, TypeOK
  <2>2. TurnHoldsDict'
    BY <1>0, <1>8, TurnsAreTasks DEF DeleteBlob, LateSet, TypeInv, TypeOK, TurnHoldsDict
  <2> QED
    BY <2>1, <2>2 DEF TypeInv
<1>9. CASE TripBreaker \/ BreakerCloses \/ UNCHANGED vars
  BY <1>0, <1>9 DEF TripBreaker, BreakerCloses, vars, TypeInv, TypeOK, TurnHoldsDict
<1> QED
  BY <1>1, <1>2, <1>3, <1>4, <1>5, <1>6, <1>7, <1>8, <1>9 DEF Next, Write

(* Every reachable state is of the declared type: in particular the stored *)
(* session is always a whole session or absent, never a bare delta.        *)
THEOREM TypeCorrect == Spec => []TypeOK
<1>1. TypeInv => TypeOK
  BY DEF TypeInv
<1> QED
  BY InitTyped, StepTyped, <1>1, PTL DEF Spec

-----------------------------------------------------------------------------
(* A turn's locked write is never refused, whatever the breaker says: the  *)
(* dict it overlays on a skipped read already has its user_id.             *)
THEOREM TurnsAreAttempted == Spec => []TurnWritesAreAttempted
<1>1. Init => TurnWritesAreAttempted
  BY TurnsAreTasks DEF Init, TurnWritesAreAttempted
<1>2. TypeInv /\ TurnWritesAreAttempted /\ [Next]_vars => TurnWritesAreAttempted'
  <2> SUFFICES ASSUME TypeInv, TurnWritesAreAttempted, [Next]_vars,
                      NEW w \in Turn
               PROVE  result'[w] # "refused"
    BY DEF TurnWritesAreAttempted
  <2>0. w \in Task /\ TypeOK /\ result[w] # "refused"
    BY TurnsAreTasks DEF TurnWritesAreAttempted, TypeInv
  <2>1. ASSUME NEW t \in Task, LockedRead(t) PROVE result'[w] # "refused"
    <3>1. CASE t = w
      <4>1. copy[w] \in Dict
        BY <2>1, <3>1 DEF LockedRead, TypeInv, TurnHoldsDict
      <4>2. \A d \in Dict \union {NoDict} : Merge(w, d) \in Dict
        BY <4>1, DictsTyped DEF Merge
      <4>3. \A d \in {blob, NoDict} : Merge(w, d) # NoDict
        BY <2>0, <4>2, SessionAssumption DEF TypeOK
      <4> QED
        BY <2>0, <2>1, <3>1, <4>3 DEF LockedRead
    <3>2. CASE t # w
      BY <2>0, <2>1, <3>2 DEF LockedRead, Return, TypeOK
    <3> QED
      BY <3>1, <3>2
  <2>2. ASSUME NEW t \in Task, SetBlobFails(t) \/ SaveIndexes(t) \/ SaveIndexesFail(t)
        PROVE  result'[w] # "refused"
    BY <2>0, <2>2 DEF SetBlobFails, SaveIndexes, SaveIndexesFail, Return, TypeOK
  <2>3. ASSUME NEW t \in Task,
               \/ Enter(t) \/ SetBlob(t) \/ Load(t) \/ SaveWhole(t)
               \/ FinishTurn(t) \/ DeleteBlob(t) \/ LateSet(t)
        PROVE  result'[w] # "refused"
    BY <2>0, <2>3 DEF Enter, SetBlob, Load, SaveWhole, FinishTurn, DeleteBlob, LateSet
  <2>4. CASE TripBreaker \/ BreakerCloses \/ UNCHANGED vars
    BY <2>0, <2>4 DEF TripBreaker, BreakerCloses, vars
  <2> QED
    BY <2>1, <2>2, <2>3, <2>4 DEF Next, Write
<1> QED
  BY <1>1, <1>2, InitTyped, StepTyped, PTL DEF Spec

-----------------------------------------------------------------------------
(* The lock alone is enough when every writer goes through update_session  *)
(* with a delta.                                                           *)
OnlyUpdates == Turn = {} /\ Handler = {} /\ Delete = {}

LEMMA LockInit == OnlyUpdates /\ Init => LockInv
  BY DictsTyped DEF Init, LockInv

(* Leaving a write gives the lock to nobody who is writing. *)
LEMMA LockReturn ==
    ASSUME OnlyUpdates, TypeInv, LockInv, NEW t \in Task, NEW v,
           pc[t] \in {"waiting", "saving", "indexing"},
           lockQueue # <<>>, Head(lockQueue) = t, Return(t, v)
    PROVE  \A u \in Task : pc'[u] \notin {"saving", "indexing"}
<1>1. \A u \in Task \ {t} : pc[u] \notin {"saving", "indexing"}
  BY DEF LockInv
<1>2. pc' = [pc EXCEPT ![t] = "done"]
  BY DEF OnlyUpdates, Return, AfterWrite
<1> QED
  BY <1>1, <1>2 DEF TypeInv, TypeOK

LEMMA LockStep == OnlyUpdates /\ TypeInv /\ LockInv /\ [Next]_vars => LockInv'
<1> SUFFICES ASSUME OnlyUpdates, TypeInv, LockInv, [Next]_vars PROVE LockInv'
  OBVIOUS
<1>0. TypeOK
  BY DEF TypeInv
<1>1. ASSUME NEW t \in Task, Enter(t) PROVE LockInv'
  <2>1. lockQueue # <<>> => lockQueue' # <<>> /\ Head(lockQueue') = Head(lockQueue)
    BY <1>0, <1>1, QueueTyped DEF Enter, TypeOK
  <2> QED
    BY <1>0, <1>1, <2>1 DEF Enter, LockInv, TypeOK
<1>2. ASSUME NEW t \in Task, LockedRead(t) PROVE LockInv'
  <2>1. PICK dict \in {blob, NoDict} :
           /\ GetSession(dict)
           /\ \/ Merge(t, dict) = NoDict /\ Return(t, "refused")
              \/ /\ Merge(t, dict) # NoDict
                 /\ merged' = [merged EXCEPT ![t] = Merge(t, dict)]
                 /\ pc' = [pc EXCEPT ![t] = "saving"]
                 /\ UNCHANGED <<lockQueue, result>>
    BY <1>2 DEF LockedRead
  <2>2. /\ UNCHANGED <<blob, late>>
        /\ pc[t] = "waiting" /\ lockQueue # <<>> /\ Head(lockQueue) = t
    BY <1>2 DEF LockedRead
  <2>3. breaker => breaker'
    BY <2>1 DEF GetSession
  <2>4. CASE lockQueue # <<>> /\ Return(t, "refused")
    <3>1. \A u \in Task : pc'[u] \notin {"saving", "indexing"}
      BY <2>2, <2>4, LockReturn
    <3> QED
      BY <2>2, <2>3, <3>1 DEF LockInv
  <2>5. CASE /\ lockQueue # <<>>
             /\ Merge(t, dict) # NoDict
             /\ merged' = [merged EXCEPT ![t] = Merge(t, dict)]
             /\ pc' = [pc EXCEPT ![t] = "saving"]
             /\ UNCHANGED lockQueue
    <3>1. dict = blob /\ ~breaker
      BY <2>1, <2>5 DEF Merge, OnlyUpdates, GetSession
    <3>2. Merge(t, dict) = Set(blob, t)
      BY <2>5, <3>1 DEF Merge, OnlyUpdates
    <3>3. \A u \in Task : late[u] = NoDict
      BY <3>1 DEF LockInv
    <3>4. \A u \in Task \ {t} : pc[u] \notin {"saving", "indexing"}
      BY <2>2 DEF LockInv
    <3> QED
      BY <1>0, <2>2, <2>5, <3>2, <3>3, <3>4 DEF LockInv, TypeOK
  <2> QED
    BY <2>1, <2>2, <2>4, <2>5
<1>3. ASSUME NEW t \in Task, SetBlob(t) PROVE LockInv'
  <2>1. blob' = Set(blob, t) /\ blob' \in Dict
    BY <1>3, DictsTyped DEF SetBlob, LockInv
  <2>2. \A u \in Task : late'[u] = NoDict
    BY <1>3 DEF SetBlob, LockInv
  <2>3. \A u \in Task : pc'[u] # "saving"
    BY <1>0, <1>3 DEF SetBlob, LockInv, TypeOK
  <2> QED
    BY <1>0, <1>3, <2>1, <2>2, <2>3 DEF SetBlob, LockInv, TypeOK
<1>4. ASSUME NEW t \in Task, SetBlobFails(t) PROVE LockInv'
  <2>1. \A u \in Task : pc'[u] \notin {"saving", "indexing"}
    BY <1>4, LockReturn DEF SetBlobFails, LockInv
  <2>2. breaker' /\ UNCHANGED blob
    BY <1>4 DEF SetBlobFails
  <2>3. \A u \in Task : late'[u] # NoDict => u = t /\ late'[u] = Set(blob, t)
    BY <1>0, <1>4 DEF SetBlobFails, LockInv, TypeOK
  <2> QED
    BY <2>1, <2>2, <2>3 DEF LockInv
<1>5. ASSUME NEW t \in Task, SaveIndexes(t) \/ SaveIndexesFail(t) PROVE LockInv'
  <2>1. \A u \in Task : pc'[u] \notin {"saving", "indexing"}
    BY <1>5, LockReturn DEF SaveIndexes, SaveIndexesFail, LockInv
  <2>2. (breaker => breaker') /\ UNCHANGED <<blob, late>>
    BY <1>5 DEF SaveIndexes, SaveIndexesFail
  <2> QED
    BY <2>1, <2>2 DEF LockInv
<1>6. ASSUME NEW t \in Task, Load(t) \/ SaveWhole(t) \/ FinishTurn(t) \/ DeleteBlob(t)
      PROVE  FALSE
  BY <1>6 DEF OnlyUpdates, Load, SaveWhole, FinishTurn, DeleteBlob
<1>7. ASSUME NEW t \in Task, LateSet(t) PROVE LockInv'
  <2>1. /\ breaker /\ late[t] = Set(blob, t)
        /\ \A u \in Task \ {t} : late[u] = NoDict
    BY <1>7 DEF LateSet, LockInv
  <2>2. \A u \in Task : late'[u] = NoDict
    BY <1>0, <1>7, <2>1 DEF LateSet, TypeOK
  <2>3. blob' \in Dict
    BY <1>7, <2>1, DictsTyped DEF LateSet, LockInv
  <2>4. \A u \in Task : pc[u] # "saving"
    BY <1>7 DEF LateSet, LockInv
  <2> QED
    BY <1>7, <2>2, <2>3, <2>4 DEF LateSet, LockInv
<1>8. CASE TripBreaker \/ UNCHANGED vars
  BY <1>8 DEF TripBreaker, vars, LockInv
<1>9. CASE BreakerCloses
  BY <1>9 DEF BreakerCloses, LockInv
<1> QED
  BY <1>1, <1>2, <1>3, <1>4, <1>5, <1>6, <1>7, <1>8, <1>9 DEF Next, Write

(* With update_session as the only writer, LockInv holds in every state.   *)
THEOREM LockCorrect == ASSUME OnlyUpdates PROVE Spec => []LockInv
<1>1. Init => LockInv
  BY LockInit
<1>2. TypeInv /\ LockInv /\ [Next]_vars => LockInv'
  BY LockStep
<1> QED
  BY <1>1, <1>2, InitTyped, StepTyped, PTL DEF Spec

(* Each step writes the stored session with one key set, or not at all.    *)
LEMMA StepImplements ==
    OnlyUpdates /\ TypeInv /\ LockInv /\ [Next]_vars => [Register!Next]_blob
<1> SUFFICES ASSUME OnlyUpdates, TypeInv, LockInv, [Next]_vars, blob' # blob
             PROVE  Register!Next
  OBVIOUS
<1>1. ASSUME NEW t \in Task, SetBlob(t) \/ LateSet(t) PROVE blob' = Set(blob, t)
  BY <1>1 DEF SetBlob, LateSet, LockInv
<1>2. PICK t \in Task : SetBlob(t) \/ LateSet(t)
  BY DEF Next, Write, Enter, LockedRead, SetBlobFails, SaveIndexes, SaveIndexesFail,
         Load, SaveWhole, FinishTurn, DeleteBlob, OnlyUpdates, TripBreaker,
         BreakerCloses, vars
<1> QED
  BY <1>1, <1>2 DEF Register!Next, Register!Apply, Set

(* With update_session as the only writer the store is the register of     *)
(* SessionRegister: no update is ever lost, through timeouts, SETs that    *)
(* Redis executes late, and any opening and closing of the breaker.        *)
THEOREM LockedUpdatesAreAtomic == ASSUME OnlyUpdates PROVE Spec => NoLostUpdate
<1>1. Init => Register!Init
  BY DEF Init, Register!Init, FreshSession, Register!FreshSession
<1>2. TypeInv /\ LockInv /\ [Next]_vars => [Register!Next]_blob
  BY StepImplements
<1>3. Spec => []TypeInv
  BY InitTyped, StepTyped, PTL DEF Spec
<1> QED
  BY <1>1, <1>2, <1>3, LockCorrect, PTL DEF Spec, NoLostUpdate, Register!Spec

-----------------------------------------------------------------------------
(* Between its SET and its return the holder's value stays in the session: *)
(* no SET is left that Redis could execute then.                           *)
AckInv ==
    \A t \in Task : pc[t] = "indexing" =>
        /\ blob[FieldOf[t]] = t
        /\ \A u \in Task : late[u] = NoDict

LEMMA AckStep == OnlyUpdates /\ TypeInv /\ LockInv /\ AckInv /\ [Next]_vars => AckInv'
<1> SUFFICES ASSUME OnlyUpdates, TypeInv, LockInv, AckInv, [Next]_vars PROVE AckInv'
  OBVIOUS
<1>0. TypeOK
  BY DEF TypeInv
<1>1. ASSUME NEW t \in Task, Enter(t) \/ LockedRead(t) PROVE AckInv'
  <2>1. /\ UNCHANGED <<blob, late>>
        /\ \A u \in Task : pc'[u] = "indexing" => pc[u] = "indexing"
    BY <1>0, <1>1 DEF Enter, LockedRead, Return, AfterWrite, TypeOK
  <2> QED
    BY <2>1 DEF AckInv
<1>2. ASSUME NEW t \in Task, SetBlob(t) PROVE AckInv'
  <2>1. blob' = Set(blob, t) /\ \A u \in Task : late'[u] = NoDict
    BY <1>2 DEF SetBlob, LockInv
  <2>2. blob'[FieldOf[t]] = t
    BY <2>1, SessionAssumption DEF Set, LockInv, Dict
  <2>3. \A u \in Task : pc'[u] = "indexing" => u = t
    BY <1>0, <1>2 DEF SetBlob, LockInv, TypeOK
  <2> QED
    BY <2>1, <2>2, <2>3 DEF AckInv
<1>3. ASSUME NEW t \in Task, SetBlobFails(t) \/ SaveIndexes(t) \/ SaveIndexesFail(t) PROVE AckInv'
  <2>1. \A u \in Task : pc'[u] \notin {"saving", "indexing"}
    BY <1>3, LockReturn DEF SetBlobFails, SaveIndexes, SaveIndexesFail, LockInv
  <2> QED
    BY <2>1 DEF AckInv
<1>4. ASSUME NEW t \in Task, Load(t) \/ SaveWhole(t) \/ FinishTurn(t) \/ DeleteBlob(t)
      PROVE  FALSE
  BY <1>4 DEF OnlyUpdates, Load, SaveWhole, FinishTurn, DeleteBlob
<1>5. ASSUME NEW t \in Task, LateSet(t) PROVE AckInv'
  BY <1>5 DEF LateSet, AckInv
<1>6. CASE TripBreaker \/ BreakerCloses \/ UNCHANGED vars
  BY <1>6 DEF TripBreaker, BreakerCloses, vars, AckInv
<1> QED
  BY <1>1, <1>2, <1>3, <1>4, <1>5, <1>6 DEF Next, Write

(* When update_session returns the merged dict, the operation's value is   *)
(* in the stored session, with update_session as the only writer.          *)
THEOREM AcksAreStored == ASSUME OnlyUpdates PROVE Spec => AckMeansStored
<1>1. Init => AckInv
  BY DEF Init, AckInv
<1>2. TypeInv /\ LockInv /\ AckInv /\ [Next]_vars => AckInv'
  BY AckStep
<1>3. TypeInv /\ LockInv /\ AckInv /\ [Next]_vars =>
        [\A t \in Update :
            (result'[t] = "ok" /\ result[t] # "ok" /\ blob' # NoDict)
                => blob'[FieldOf[t]] = t]_vars
  <2> SUFFICES ASSUME TypeInv, AckInv, [Next]_vars,
                      NEW t \in Update, result'[t] = "ok", result[t] # "ok"
               PROVE  blob'[FieldOf[t]] = t
    OBVIOUS
  <2>0. t \in Task /\ result \in [Task -> {"none", "ok", "failed", "refused"}]
    BY DEF Task, TypeInv, TypeOK
  <2>1. SaveIndexes(t)
    BY <2>0 DEF Next, Write, Enter, LockedRead, SetBlob, SetBlobFails, SaveIndexes,
           SaveIndexesFail, Load, SaveWhole, FinishTurn, DeleteBlob, LateSet, Return,
           TripBreaker, BreakerCloses, vars
  <2> QED
    BY <2>0, <2>1 DEF SaveIndexes, AckInv
<1>4. Spec => []TypeInv
  BY InitTyped, StepTyped, PTL DEF Spec
<1> QED
  BY <1>1, <1>2, <1>3, <1>4, LockCorrect, PTL DEF Spec, AckMeansStored

(* A deleted session that nobody holds stays deleted, whichever writers    *)
(* there are: an update_session call that reads nothing has no user_id to  *)
(* save, and only a turn rebuilds the session.                             *)
THEOREM DeletedStaysDeleted == Spec => StaysDeleted
<1>1. TypeInv /\ [Next]_vars =>
        [(blob = NoDict /\ NothingInFlight) =>
          /\ blob' = NoDict
          /\ NothingInFlight' \/ \E t \in Turn : pc[t] = "idle" /\ pc'[t] = "saving"]_vars
  <2> SUFFICES ASSUME TypeOK, [Next]_vars, blob = NoDict, NothingInFlight
               PROVE  /\ blob' = NoDict
                      /\ NothingInFlight' \/ \E t \in Turn : pc[t] = "idle" /\ pc'[t] = "saving"
    BY DEF TypeInv
  <2>1. ASSUME NEW t \in Task, Enter(t) PROVE blob' = NoDict /\ NothingInFlight'
    <3>1. t \notin Turn
      BY <2>1, SessionAssumption DEF Enter, NothingInFlight
    <3> QED
      BY <2>1, <3>1 DEF Enter, NothingInFlight, TypeOK
  <2>2. ASSUME NEW t \in Task, LockedRead(t) PROVE blob' = NoDict /\ NothingInFlight'
    <3>1. t \notin Turn
      BY <2>2 DEF LockedRead, NothingInFlight
    <3>2. Return(t, "refused") /\ UNCHANGED <<blob, late>>
      BY <2>2, <3>1 DEF LockedRead, Merge
    <3>3. pc' = [pc EXCEPT ![t] = "done"]
      BY <3>1, <3>2 DEF Return, AfterWrite
    <3> QED
      BY <3>1, <3>2, <3>3 DEF NothingInFlight, TypeOK
  <2>3. ASSUME NEW t \in Task, Load(t)
        PROVE  /\ blob' = NoDict
               /\ NothingInFlight' \/ \E w \in Turn : pc[w] = "idle" /\ pc'[w] = "saving"
    <3>1. UNCHANGED <<blob, late>> /\ pc[t] = "idle"
      BY <2>3 DEF Load
    <3>2. \/ pc' = [pc EXCEPT ![t] = "done"]
          \/ t \in Turn /\ pc' = [pc EXCEPT ![t] = "saving"]
      BY <2>3 DEF Load
    <3> QED
      BY <3>1, <3>2 DEF NothingInFlight, TypeOK
  <2>4. ASSUME NEW t \in Task, DeleteBlob(t) PROVE blob' = NoDict /\ NothingInFlight'
    BY <2>4 DEF DeleteBlob, NothingInFlight, TypeOK
  <2>5. ASSUME NEW t \in Task,
               \/ SetBlob(t) \/ SetBlobFails(t) \/ SaveIndexes(t) \/ SaveIndexesFail(t)
               \/ SaveWhole(t) \/ FinishTurn(t) \/ LateSet(t)
        PROVE  FALSE
    BY <2>5 DEF SetBlob, SetBlobFails, SaveIndexes, SaveIndexesFail, SaveWhole, FinishTurn,
           LateSet, NothingInFlight
  <2>6. CASE TripBreaker \/ BreakerCloses \/ UNCHANGED vars
    BY <2>6 DEF TripBreaker, BreakerCloses, vars, NothingInFlight
  <2> QED
    BY <2>1, <2>2, <2>3, <2>4, <2>5, <2>6 DEF Next, Write
<1>2. Spec => []TypeInv
  BY InitTyped, StepTyped, PTL DEF Spec
<1> QED
  BY <1>1, <1>2, PTL DEF Spec, StaysDeleted

-----------------------------------------------------------------------------
(* DatasetIndex.  An operation takes its step alone, so the proof looks at *)
(* what one step of operation o may change (Moves, Changes) and derives    *)
(* each part of the invariant from that.                                   *)
Deletion == Drop \union DropData
Reader == Find \union DropData
Begun(o) == await[o] # "idle"

(* What an operation lists as over before it is over, and an operation     *)
(* that did not begin holds nothing.                                       *)
OrderInv ==
    /\ \A o, p \in Op : p \in before[o] => await[p] = "over"
    /\ \A o \in Op : ~Begun(o) => found[o] = {} /\ owed[o] = {} /\ answer[o] = NoSid

(* DELETE /datasets deletes sessions of its dataset only.                  *)
TargetInv ==
    \A o \in DropData :
        /\ await[o] \in {"blob", "member"} => \A s \in asked[o] : DatasetOf[s] = AskedFor[o]
        /\ await[o] = "member" => \A s \in owed[o] : DatasetOf[s] = AskedFor[o]

(* A session is there once a save in W wrote it (or it was Saved), while   *)
(* each deletion of it that began was over before some save in W began.    *)
Kept(s, W) ==
    /\ s \in Saved \/ W # {}
    /\ \A d \in Deletion : Begun(d) /\ Deletes(d, s) => \E w \in W : d \in before[w]

WroteBlob(s) == {w \in Save : SidOf[w] = s /\ await[w] \in {"member", "summary", "index", "over"}}
WroteMember(s) ==
    {w \in Save : /\ SidOf[w] = s
                  /\ await[w] \in {"summary", "index"} \/ (await[w] = "over" /\ w \notin failed)}

KeptInv ==
    \A s \in Sid :
        /\ Kept(s, WroteBlob(s)) => s \in stored
        /\ Kept(s, WroteMember(s)) => s \in members

(* A lookup without failure keeps hold of a session it must find.          *)
MustFind(o, s) == DatasetOf[s] = AskedFor[o] /\ SavedBefore(o, s) /\ ~DeletedSince(o, s)
LookupInv ==
    \A o \in Find \ failed :
        /\ await[o] = "backfill" => answer[o] # NoSid
        /\ \A s \in Sid : MustFind(o, s) =>
            /\ await[o] = "metas" => s \in asked[o]
            /\ await[o] = "blobs" => s \in found[o] \union owed[o]
            /\ await[o] = "fill" => s \in found[o]
            /\ await[o] = "over" => answer[o] # NoSid

(* Nothing that could bring the session back ran beside the deletion.      *)
Alone(d) ==
    /\ \A w \in Save : SidOf[w] = SidOf[d] => w \in before[d]
    /\ \A p \in Reader : Begun(p) => p \in before[d] \/ d \in before[p]

HiddenInv ==
    \A d \in Drop \ failed : Alone(d) =>
        /\ await[d] \in {"summary", "member", "index", "over"} => SidOf[d] \notin stored
        /\ await[d] \in {"member", "index", "over"} => SidOf[d] \notin summary
        /\ \A p \in Reader : d \in before[p] =>
            /\ SidOf[d] \notin found[p] /\ answer[p] # SidOf[d]
            /\ await[p] \in {"fastFill", "fill"} => SidOf[d] \notin owed[p]

IndexInv == IndexTypeOK /\ OrderInv /\ TargetInv /\ KeptInv /\ LookupInv /\ HiddenInv

-----------------------------------------------------------------------------
(* One await of operation o: who is over takes no step, who begins lists   *)
(* those that are over, and nobody else's variables change.                *)
Moves(o) ==
    /\ \A p \in Op \ {o} :
          /\ await'[p] = await[p] /\ asked'[p] = asked[p] /\ found'[p] = found[p]
          /\ owed'[p] = owed[p] /\ answer'[p] = answer[p] /\ before'[p] = before[p]
    /\ await[o] # "over" /\ await'[o] # "idle"
    /\ failed \subseteq failed' /\ failed' \subseteq failed \union {o}
    /\ await[o] = "idle" => before'[o] = {p \in Op : await[p] = "over"}
    /\ await[o] # "idle" => before'[o] = before[o]

(* Blobs and set members go with a deletion, blobs come with a save, and   *)
(* summaries with a save or a reader's backfill.                           *)
Changes(o) ==
    /\ \A s \in stored \ stored' : o \in Deletion /\ Deletes(o, s)
    /\ \A s \in members \ members' : o \in Deletion /\ Deletes(o, s)
    /\ \A s \in stored' \ stored : o \in Save /\ SidOf[o] = s
    /\ \A s \in summary' \ summary :
          \/ o \in Save /\ SidOf[o] = s
          \/ o \in Reader /\ await[o] \in {"fastFill", "fill"} /\ s \in owed[o]

(* The initial states are typed.                                           *)
LEMMA IndexInitTyped == IndexInit => IndexTypeOK
  BY IndexAssumption DEF IndexInit, IndexTypeOK, Steps

(* One await of save_session.                                              *)
LEMMA SaveEffect ==
    ASSUME IndexTypeOK, NEW o \in Op, SaveStep(o)
    PROVE  IndexTypeOK' /\ Moves(o) /\ Changes(o) /\ o \in Save
<1> USE DEF IndexTypeOK, Moves, Changes, Goto, Steps, reading
<1>0. o \in Save /\ SidOf[o] \in Sid /\ DatasetOf[SidOf[o]] \in Dataset
  BY IndexAssumption DEF SaveStep, SaveBlob, SaveMember, SaveSummary, SaveIndex, SaveFails
<1>1. CASE SaveBlob(o)
  <2>1. {p \in Op : await[p] = "over"} \in SUBSET Op
    OBVIOUS
  <2> QED
    BY <1>0, <1>1, <2>1 DEF SaveBlob, Begin
<1>2. CASE SaveMember(o)
  BY <1>0, <1>2 DEF SaveMember
<1>3. CASE SaveSummary(o)
  BY <1>0, <1>3 DEF SaveSummary
<1>4. CASE SaveIndex(o)
  BY <1>0, <1>4 DEF SaveIndex, Point
<1>5. CASE SaveFails(o)
  BY <1>0, <1>5 DEF SaveFails, Point, Fails
<1> QED
  BY <1>1, <1>2, <1>3, <1>4, <1>5 DEF SaveStep

(* One await of delete_session.                                            *)
LEMMA DropEffect ==
    ASSUME IndexTypeOK, NEW o \in Op, DropStep(o)
    PROVE  IndexTypeOK' /\ Moves(o) /\ Changes(o) /\ o \in Drop
<1> USE DEF IndexTypeOK, Moves, Changes, Goto, Steps, reading, Deletion, Deletes
<1>0. o \in Drop /\ SidOf[o] \in Sid /\ DatasetOf[SidOf[o]] \in Dataset
  BY IndexAssumption DEF DropStep, DropRead, DropBlob, DropSummary, DropMember, DropIndex, DropFails
<1>1. CASE DropRead(o)
  <2>1. {p \in Op : await[p] = "over"} \in SUBSET Op /\ stored \intersect {SidOf[o]} \in SUBSET Sid
    OBVIOUS
  <2> QED
    BY <1>0, <1>1, <2>1 DEF DropRead, Begin, keys
<1>2. CASE DropBlob(o)
  BY <1>0, <1>2 DEF DropBlob
<1>3. CASE DropSummary(o)
  BY <1>0, <1>3 DEF DropSummary
<1>4. CASE DropMember(o)
  BY <1>0, <1>4 DEF DropMember
<1>5. CASE DropIndex(o)
  BY <1>0, <1>5 DEF DropIndex, Point, End
<1>6. CASE DropFails(o)
  BY <1>0, <1>6 DEF DropFails, End, Fails, keys
<1> QED
  BY <1>1, <1>2, <1>3, <1>4, <1>5, <1>6 DEF DropStep

(* One await of DELETE /datasets/{id}, whose targets are its dataset's.    *)
LEMMA DropDataEffect ==
    ASSUME IndexTypeOK, TargetInv, NEW o \in Op, DropDataStep(o)
    PROVE  IndexTypeOK' /\ Moves(o) /\ Changes(o) /\ o \in DropData
<1> USE DEF IndexTypeOK, Moves, Changes, Goto, Steps, reading, Deletion, Deletes
<1>0. o \in DropData
  BY DEF DropDataStep, DropDataList, DropDataCheck, DropDataMembers, DropDataRead,
     DropDataBlob, DropDataMember, DropDataFails
<1>1. CASE DropDataList(o)
  <2>1. {p \in Op : await[p] = "over"} \in SUBSET Op
    OBVIOUS
  <2> QED
    BY <1>0, <1>1, <2>1 DEF DropDataList, Begin, keys
<1>2. CASE DropDataCheck(o)
  BY <1>0, <1>2 DEF DropDataCheck, End, Fails, keys
<1>3. CASE DropDataMembers(o)
  BY <1>0, <1>3 DEF DropDataMembers, keys
<1>4. CASE DropDataRead(o)
  BY <1>0, <1>4 DEF DropDataRead, keys
<1>5. CASE DropDataBlob(o)
  BY <1>0, <1>5 DEF DropDataBlob, End, TargetInv
<1>6. CASE DropDataMember(o)
  BY <1>0, <1>6 DEF DropDataMember, TargetInv
<1>7. CASE DropDataFails(o)
  BY <1>0, <1>7 DEF DropDataFails, End, Fails, keys
<1> QED
  BY <1>1, <1>2, <1>3, <1>4, <1>5, <1>6, <1>7 DEF DropDataStep

(* One await of a lookup outside _load_metas.                              *)
LEMMA FindEffect ==
    ASSUME IndexTypeOK, NEW o \in Op, FindStep(o)
    PROVE  IndexTypeOK' /\ Moves(o) /\ Changes(o) /\ o \in Find
<1> USE DEF IndexTypeOK, Moves, Changes, Goto, Steps, reading
<1>0. o \in Find /\ AskedFor[o] \in Dataset
  BY IndexAssumption DEF FindStep, FindIndex, FindFast, FindMembers, FindScan, FindBackfill, FindFails
<1>1. CASE FindIndex(o)
  <2>1. /\ {p \in Op : await[p] = "over"} \in SUBSET Op
        /\ {index[AskedFor[o]]} \ {NoSid} \in SUBSET Sid
    BY <1>0
  <2> QED
    BY <1>0, <1>1, <2>1 DEF FindIndex, Begin, keys
<1>2. CASE FindFast(o)
  BY <1>0, <1>2 DEF FindFast, End, keys
<1>3. CASE FindMembers(o)
  BY <1>0, <1>3 DEF FindMembers, End, keys
<1>4. CASE FindScan(o)
  BY <1>0, <1>4 DEF FindScan, End, keys
<1>5. CASE FindBackfill(o)
  BY <1>0, <1>5 DEF FindBackfill, End, Point
<1>6. CASE FindFails(o)
  <2>1. {p \in Op : await[p] = "over"} \in SUBSET Op
    OBVIOUS
  <2> QED
    BY <1>0, <1>6, <2>1 DEF FindFails, Begin, End, Fails, keys
<1> QED
  BY <1>1, <1>2, <1>3, <1>4, <1>5, <1>6 DEF FindStep

(* One await of _load_metas.                                               *)
LEMMA LoadEffect ==
    ASSUME IndexTypeOK, NEW o \in Op, LoadMetas(o)
    PROVE  IndexTypeOK' /\ Moves(o) /\ Changes(o) /\ o \in Reader
<1> USE DEF IndexTypeOK, Moves, Changes, Goto, Steps, Reader
<1>0. o \in Find \union DropData
  BY DEF LoadMetas
<1>1. ASSUME NEW here \in {"fastMeta", "metas"}, NEW next \in {"fastBlob", "blobs"}, Metas(o, here, next)
      PROVE  IndexTypeOK' /\ Moves(o) /\ Changes(o)
  BY <1>0, <1>1 DEF Metas, ReadSome, keys
<1>2. ASSUME NEW here \in {"fastBlob", "blobs"}, NEW next \in {"fastFill", "fill"}, Blobs(o, here, next)
      PROVE  IndexTypeOK' /\ Moves(o) /\ Changes(o)
  BY <1>0, <1>2 DEF Blobs, ReadSome, keys
<1>3. ASSUME NEW here \in {"fastFill", "fill"}, Fill(o, here)
      PROVE  IndexTypeOK' /\ Moves(o) /\ Changes(o)
  BY <1>0, <1>3 DEF Fill
<1> QED
  BY <1>0, <1>1, <1>2, <1>3 DEF LoadMetas

-----------------------------------------------------------------------------
(* Operations that were over before another began stay so.                 *)
LEMMA OrderStep ==
    ASSUME IndexTypeOK, IndexTypeOK', OrderInv, NEW o \in Op, Moves(o)
    PROVE  OrderInv'
<1>1. ASSUME NEW q \in Op, NEW p \in Op, p \in before'[q]
      PROVE  await'[p] = "over"
  <2>1. await[p] = "over"
    BY <1>1 DEF Moves, OrderInv
  <2> QED
    BY <2>1 DEF Moves
<1>2. ASSUME NEW q \in Op, ~Begun(q)'
      PROVE  found'[q] = {} /\ owed'[q] = {} /\ answer'[q] = NoSid
  BY <1>2 DEF Moves, OrderInv, Begun
<1> QED
  BY <1>1, <1>2 DEF OrderInv

(* DELETE /datasets/{id} takes up sessions of its dataset only.            *)
LEMMA TargetStep ==
    ASSUME IndexTypeOK, IndexTypeOK', TargetInv, NEW o \in Op, Moves(o),
           SaveStep(o) \/ DropStep(o) \/ DropDataStep(o) \/ FindStep(o) \/ LoadMetas(o)
    PROVE  TargetInv'
<1> DEFINE Aimed(q) ==
      /\ await[q] \in {"blob", "member"} => \A s \in asked[q] : DatasetOf[s] = AskedFor[q]
      /\ await[q] = "member" => \A s \in owed[q] : DatasetOf[s] = AskedFor[q]
<1> SUFFICES ASSUME NEW q \in DropData PROVE Aimed(q)'
  BY DEF TargetInv
<1>0. Aimed(q) /\ q \in Op
  BY DEF TargetInv, Op
<1>1. CASE q # o
  BY <1>0, <1>1 DEF Moves
<1>2. CASE q = o
  <2> USE DEF IndexTypeOK, Goto, End, reading
  <2>1. CASE DropDataStep(o)
    <3>1. CASE DropDataRead(o)
      BY <1>0, <1>2, <3>1 DEF DropDataRead
    <3>2. CASE DropDataBlob(o)
      BY <1>0, <1>2, <3>2 DEF DropDataBlob
    <3>3. CASE DropDataMember(o)
      BY <1>0, <1>2, <3>3 DEF DropDataMember
    <3>4. CASE DropDataList(o) \/ DropDataCheck(o) \/ DropDataMembers(o) \/ DropDataFails(o)
      BY <1>0, <1>2, <3>4 DEF DropDataList, DropDataCheck, DropDataMembers, DropDataFails
    <3> QED
      BY <2>1, <3>1, <3>2, <3>3, <3>4 DEF DropDataStep
  <2>2. CASE LoadMetas(o)
    BY <1>0, <1>2, <2>2 DEF LoadMetas, Metas, Blobs, Fill
  <2>3. o \notin Save /\ o \notin Drop /\ o \notin Find
    BY <1>2, IndexAssumption
  <2>4. CASE SaveStep(o) \/ DropStep(o) \/ FindStep(o)
    BY <2>3, <2>4 DEF SaveStep, SaveBlob, SaveMember, SaveSummary, SaveIndex, SaveFails,
       DropStep, DropRead, DropBlob, DropSummary, DropMember, DropIndex, DropFails,
       FindStep, FindIndex, FindFast, FindMembers, FindScan, FindBackfill, FindFails
  <2> QED
    BY <2>1, <2>2, <2>4
<1> QED
  BY <1>1, <1>2

-----------------------------------------------------------------------------
(* What the saves in V keep after a step, the saves in W kept before it,   *)
(* and the step was not of a deletion of it: a deletion that began is over *)
(* before some save in V began.                                            *)
LEMMA KeptBack ==
    ASSUME IndexTypeOK, OrderInv, NEW o \in Op, Moves(o), NEW s \in Sid
    PROVE  \A W \in SUBSET Save : \A V \in SUBSET W :
             (/\ \A w \in W : Begun(w)
              /\ s \in Saved \/ V # {}
              /\ \A d \in Deletion : await'[d] # "idle" /\ Deletes(d, s) => \E w \in V : d \in before'[w])
             => Kept(s, W) /\ ~(o \in Deletion /\ Deletes(o, s))
<1> SUFFICES ASSUME NEW W \in SUBSET Save, NEW V \in SUBSET W,
                    \A w \in W : Begun(w),
                    s \in Saved \/ V # {},
                    \A d \in Deletion : await'[d] # "idle" /\ Deletes(d, s) => \E w \in V : d \in before'[w]
             PROVE  Kept(s, W) /\ ~(o \in Deletion /\ Deletes(o, s))
  OBVIOUS
<1>1. \A w \in W : w \in Op /\ before'[w] = before[w]
  BY DEF Begun, Moves, Op
<1>2. ~(o \in Deletion /\ Deletes(o, s))
  BY <1>1 DEF Moves, OrderInv
<1>3. \A d \in Deletion : Begun(d) => await'[d] # "idle"
  BY DEF Moves, Begun, Deletion, Op
<1> QED
  BY <1>1, <1>2, <1>3 DEF Kept

(* Blobs and members stay until a deletion that is later than their saves. *)
LEMMA KeptStep ==
    ASSUME IndexTypeOK, IndexTypeOK', OrderInv, KeptInv, NEW o \in Op, Moves(o), Changes(o),
           o \in Save => SaveStep(o)
    PROVE  KeptInv'
<1> SUFFICES ASSUME NEW s \in Sid
             PROVE  /\ Kept(s, WroteBlob(s))' => s \in stored'
                    /\ Kept(s, WroteMember(s))' => s \in members'
  BY DEF KeptInv
<1>0. \A w \in Save : w \in Op
  BY DEF Op
<1>1. s \in stored' \/ WroteBlob(s)' \subseteq WroteBlob(s)
  <2> SUFFICES ASSUME s \notin stored', NEW w \in Save, SidOf[w] = s,
                      await'[w] \in {"member", "summary", "index", "over"}
               PROVE  await[w] \in {"member", "summary", "index", "over"}
    BY DEF WroteBlob
  <2>1. CASE w = o
    BY <2>1 DEF SaveStep, SaveBlob, SaveMember, SaveSummary, SaveIndex, SaveFails
  <2>2. CASE w # o
    BY <1>0, <2>2 DEF Moves
  <2> QED
    BY <2>1, <2>2
<1>2. s \in members' \/ WroteMember(s)' \subseteq WroteMember(s)
  <2> SUFFICES ASSUME s \notin members', NEW w \in Save, SidOf[w] = s,
                      await'[w] \in {"summary", "index"} \/ (await'[w] = "over" /\ w \notin failed')
               PROVE  await[w] \in {"summary", "index"} \/ (await[w] = "over" /\ w \notin failed)
    BY DEF WroteMember
  <2>1. CASE w = o
    BY <1>0, <2>1 DEF SaveStep, SaveBlob, SaveMember, SaveSummary, SaveIndex, SaveFails,
       Goto, Fails, IndexTypeOK
  <2>2. CASE w # o
    BY <1>0, <2>2 DEF Moves
  <2> QED
    BY <2>1, <2>2
<1>3. WroteBlob(s) \in SUBSET Save /\ WroteMember(s) \in SUBSET Save
  BY DEF WroteBlob, WroteMember
<1>4. (\A w \in WroteBlob(s) : Begun(w)) /\ (\A w \in WroteMember(s) : Begun(w))
  BY DEF WroteBlob, WroteMember, Begun
<1>5. ASSUME s \notin stored', Kept(s, WroteBlob(s))'
      PROVE  FALSE
  <2> DEFINE W == WroteBlob(s)  V == WroteBlob(s)'
  <2>1. /\ s \in Saved \/ V # {}
        /\ \A d \in Deletion : await'[d] # "idle" /\ Deletes(d, s) => \E w \in V : d \in before'[w]
    BY <1>5 DEF Kept, Begun, Deletes
  <2>2. W \in SUBSET Save /\ V \in SUBSET W /\ \A w \in W : Begun(w)
    BY <1>1, <1>3, <1>4, <1>5
  <2> HIDE DEF W, V
  <2>3. Kept(s, W) /\ ~(o \in Deletion /\ Deletes(o, s))
    BY <2>1, <2>2, KeptBack
  <2> QED
    BY <1>5, <2>3 DEF KeptInv, Changes, W
<1>6. ASSUME s \notin members', Kept(s, WroteMember(s))'
      PROVE  FALSE
  <2> DEFINE W == WroteMember(s)  V == WroteMember(s)'
  <2>1. /\ s \in Saved \/ V # {}
        /\ \A d \in Deletion : await'[d] # "idle" /\ Deletes(d, s) => \E w \in V : d \in before'[w]
    BY <1>6 DEF Kept, Begun, Deletes
  <2>2. W \in SUBSET Save /\ V \in SUBSET W /\ \A w \in W : Begun(w)
    BY <1>2, <1>3, <1>4, <1>6
  <2> HIDE DEF W, V
  <2>3. Kept(s, W) /\ ~(o \in Deletion /\ Deletes(o, s))
    BY <2>1, <2>2, KeptBack
  <2> QED
    BY <1>6, <2>3 DEF KeptInv, Changes, W
<1> QED
  BY <1>5, <1>6

-----------------------------------------------------------------------------
(* A lookup that must find a session finds it in the set and its blob.     *)
LEMMA MustBeThere ==
    ASSUME IndexTypeOK, OrderInv, KeptInv, NEW o \in Op, NEW s \in Sid, MustFind(o, s)
    PROVE  s \in stored /\ s \in members
<1> DEFINE V == {w \in (Save \intersect before[o]) \ failed : SidOf[w] = s}
<1>1. V \subseteq WroteBlob(s) /\ V \subseteq WroteMember(s)
  BY DEF WroteBlob, WroteMember, OrderInv, Op
<1>2. s \in Saved \/ V # {}
  BY DEF MustFind, SavedBefore
<1>3. \A d \in Deletion : Begun(d) /\ Deletes(d, s) => \E w \in V : d \in before[w]
  BY DEF MustFind, DeletedSince, Begun, Deletion
<1> QED
  BY <1>1, <1>2, <1>3 DEF Kept, KeptInv

(* What a lookup must find after a step it had to find before it.          *)
LEMMA MustBack ==
    ASSUME IndexTypeOK, OrderInv, NEW o \in Op, Moves(o), NEW p \in Op, Begun(p), NEW s \in Sid,
           MustFind(p, s)'
    PROVE  MustFind(p, s)
<1>1. before'[p] = before[p]
  BY DEF Begun, Moves
<1>2. \A w \in Save \intersect before[p] : before'[w] = before[w]
  BY DEF Moves, OrderInv, Op
<1>3. SavedBefore(p, s)
  BY <1>1 DEF MustFind, SavedBefore, Moves
<1>4. ASSUME DeletedSince(p, s)
      PROVE  FALSE
  <2>1. PICK d \in Drop \union DropData :
           /\ await[d] # "idle" /\ Deletes(d, s)
           /\ \A w \in (Save \intersect before[p]) \ failed : SidOf[w] = s => d \notin before[w]
    BY <1>4 DEF DeletedSince
  <2>2. await'[d] # "idle"
    BY <2>1 DEF Moves, Op
  <2>3. \A w \in (Save \intersect before'[p]) \ failed' : SidOf[w] = s => d \notin before'[w]
    BY <1>1, <1>2, <2>1 DEF Moves
  <2>4. DeletedSince(p, s)'
    BY <2>1, <2>2, <2>3 DEF DeletedSince, Deletes
  <2> QED
    BY <2>4 DEF MustFind
<1> QED
  BY <1>3, <1>4 DEF MustFind

(* The lookup that takes the step. *)
LEMMA LookupOwn ==
    ASSUME IndexTypeOK, IndexTypeOK', OrderInv, KeptInv, LookupInv, NEW o \in Find, Moves(o),
           FindStep(o) \/ LoadMetas(o), o \notin failed'
    PROVE  /\ await'[o] = "backfill" => answer'[o] # NoSid
           /\ \A s \in Sid : MustFind(o, s) =>
                /\ await'[o] = "metas" => s \in asked'[o]
                /\ await'[o] = "blobs" => s \in found'[o] \union owed'[o]
                /\ await'[o] = "fill" => s \in found'[o]
                /\ await'[o] = "over" => answer'[o] # NoSid
<1> USE DEF IndexTypeOK, Goto, End, reading, keys
<1>0. /\ o \in Op /\ o \notin failed /\ NoSid \notin Sid
      /\ \A s \in Sid : MustFind(o, s) => s \in stored /\ s \in members
  <2>1. o \in Op
    BY DEF Op
  <2> QED
    BY <2>1, MustBeThere, IndexAssumption DEF Moves
<1>L. /\ await[o] = "backfill" => answer[o] # NoSid
      /\ \A s \in Sid : MustFind(o, s) =>
           /\ await[o] = "metas" => s \in asked[o]
           /\ await[o] = "blobs" => s \in found[o] \union owed[o]
           /\ await[o] = "fill" => s \in found[o]
           /\ await[o] = "over" => answer[o] # NoSid
  BY <1>0 DEF LookupInv
<1>1. CASE FindIndex(o)
  BY <1>0, <1>1 DEF FindIndex
<1>2. CASE FindFast(o)
  BY <1>0, <1>2 DEF FindFast
<1>3. CASE FindMembers(o)
  BY <1>0, <1>3 DEF FindMembers
<1>4. CASE FindScan(o)
  <2>1. \A s \in Sid : MustFind(o, s) => s \in found[o] /\ DatasetOf[s] = AskedFor[o]
    BY <1>L, <1>4 DEF FindScan, MustFind
  <2> QED
    BY <1>0, <1>4, <2>1 DEF FindScan
<1>5. CASE FindBackfill(o)
  BY <1>0, <1>L, <1>5 DEF FindBackfill
<1>6. CASE FindFails(o)
  BY <1>0, <1>6 DEF FindFails, Fails
<1>7. CASE LoadMetas(o)
  <2>1. CASE Metas(o, "fastMeta", "fastBlob") \/ Blobs(o, "fastBlob", "fastFill") \/ Fill(o, "fastFill")
    BY <1>0, <2>1 DEF Metas, Blobs, Fill
  <2>2. CASE Metas(o, "metas", "blobs")
    BY <1>0, <1>L, <2>2 DEF Metas
  <2>3. CASE Blobs(o, "blobs", "fill")
    <3>1. PICK seen \in SUBSET (owed[o] \intersect stored) :
             /\ found' = [found EXCEPT ![o] = @ \union seen]
             /\ failed' = IF seen = owed[o] \intersect stored THEN failed
                          ELSE failed \union ({o} \intersect Find)
      BY <2>3 DEF Blobs, ReadSome
    <3>2. seen = owed[o] \intersect stored
      BY <3>1
    <3>3. found'[o] = found[o] \union (owed[o] \intersect stored)
      BY <1>0, <3>1, <3>2
    <3> QED
      BY <1>0, <1>L, <2>3, <3>3 DEF Blobs
  <2>4. CASE Fill(o, "fill")
    BY <1>0, <1>L, <2>4 DEF Fill
  <2> QED
    BY <1>7, <2>1, <2>2, <2>3, <2>4 DEF LoadMetas
<1> QED
  BY <1>1, <1>2, <1>3, <1>4, <1>5, <1>6, <1>7 DEF FindStep

(* A lookup keeps hold of what it must find, its own step and others'.     *)
LEMMA LookupStep ==
    ASSUME IndexTypeOK, IndexTypeOK', OrderInv, KeptInv, LookupInv, NEW o \in Op, Moves(o),
           o \in Find => FindStep(o) \/ LoadMetas(o)
    PROVE  LookupInv'
<1> DEFINE Own(p, s) ==
      /\ await[p] = "metas" => s \in asked[p]
      /\ await[p] = "blobs" => s \in found[p] \union owed[p]
      /\ await[p] = "fill" => s \in found[p]
      /\ await[p] = "over" => answer[p] # NoSid
<1> SUFFICES ASSUME NEW p \in Find, p \notin failed'
             PROVE  /\ await'[p] = "backfill" => answer'[p] # NoSid
                    /\ \A s \in Sid : MustFind(p, s)' => Own(p, s)'
  BY DEF LookupInv
<1>0. p \in Op /\ p \notin failed
  BY DEF Op, Moves
<1>1. CASE p = o
  <2>1. CASE Begun(p)
    <3>1. \A s \in Sid : MustFind(p, s)' => MustFind(p, s)
      BY <1>0, <2>1, MustBack
    <3> QED
      BY <1>1, <3>1, LookupOwn
  <2>2. CASE ~Begun(p)
    <3>1. FindIndex(p) \/ FindFails(p)
      BY <1>1, <2>2 DEF Begun, FindStep, FindIndex, FindFast, FindMembers, FindScan, FindBackfill,
         LoadMetas, Metas, Blobs, Fill
    <3>2. ~FindFails(p)
      BY <1>0, <1>1 DEF FindFails, Fails
    <3>3. await'[p] \in {"members", "fastMeta"}
      BY <1>0, <3>1, <3>2 DEF FindIndex, Goto, IndexTypeOK
    <3> QED
      BY <3>3
  <2> QED
    BY <2>1, <2>2
<1>2. CASE p # o
  <2>1. /\ await'[p] = await[p] /\ asked'[p] = asked[p] /\ found'[p] = found[p]
        /\ owed'[p] = owed[p] /\ answer'[p] = answer[p]
    BY <1>0, <1>2 DEF Moves
  <2>2. CASE Begun(p)
    <3>1. \A s \in Sid : MustFind(p, s)' => MustFind(p, s)
      BY <1>0, <2>2, MustBack
    <3> QED
      BY <1>0, <2>1, <3>1 DEF LookupInv
  <2>3. CASE ~Begun(p)
    BY <2>1, <2>3 DEF Begun
  <2> QED
    BY <2>2, <2>3
<1> QED
  BY <1>1, <1>2

-----------------------------------------------------------------------------
(* What a reader takes up in a step: only blobs and summaries that are     *)
(* there, and what it owes a backfill is among what it found.              *)
LEMMA ReaderEffect ==
    ASSUME IndexTypeOK, NEW o \in Reader, FindStep(o) \/ DropDataStep(o) \/ LoadMetas(o)
    PROVE  /\ found'[o] \subseteq found[o] \union stored \union summary
           /\ answer'[o] = answer[o] \/ answer'[o] \in found[o]
           /\ await'[o] \in {"fastFill", "fill"} =>
                 \/ owed'[o] \subseteq found'[o]
                 \/ await[o] = await'[o] /\ owed'[o] \subseteq owed[o]
<1> USE DEF IndexTypeOK, Goto, End, reading, keys
<1>0. o \in Op
  BY DEF Op, Reader
<1>1. CASE FindStep(o)
  BY <1>0, <1>1 DEF FindStep, FindIndex, FindFast, FindMembers, FindScan, FindBackfill, FindFails
<1>2. CASE DropDataStep(o)
  BY <1>0, <1>2 DEF DropDataStep, DropDataList, DropDataCheck, DropDataMembers, DropDataRead,
     DropDataBlob, DropDataMember, DropDataFails
<1>3. CASE LoadMetas(o)
  <2>1. ASSUME NEW here, NEW next \in {"fastBlob", "blobs"}, Metas(o, here, next)
        PROVE  found'[o] \subseteq found[o] \union summary /\ answer' = answer /\ await'[o] = next
    BY <1>0, <2>1 DEF Metas, ReadSome
  <2>2. ASSUME NEW here, NEW next \in {"fastFill", "fill"}, Blobs(o, here, next)
        PROVE  found'[o] \subseteq found[o] \union stored /\ answer' = answer /\ owed'[o] \subseteq found'[o]
    BY <1>0, <2>2 DEF Blobs, ReadSome
  <2>3. ASSUME NEW here, Fill(o, here)
        PROVE  found' = found /\ answer' = answer /\ await' = await /\ owed'[o] \subseteq owed[o]
    BY <1>0, <2>3 DEF Fill
  <2> QED
    BY <1>3, <2>1, <2>2, <2>3 DEF LoadMetas
<1> QED
  BY <1>1, <1>2, <1>3

(* A deletion that is alone after a step was so before it, and the step    *)
(* was no save of its session.                                             *)
LEMMA AloneBack ==
    ASSUME IndexTypeOK, OrderInv, NEW o \in Op, Moves(o), NEW d \in Drop,
           d # o \/ Begun(d), Alone(d)'
    PROVE  /\ Alone(d) /\ before'[d] = before[d]
           /\ ~(o \in Save /\ SidOf[o] = SidOf[d])
<1>0. d \in Op /\ \A w \in Save \union Reader : w \in Op
  BY DEF Op, Reader
<1>1. before'[d] = before[d]
  BY <1>0 DEF Moves, Begun
<1>2. \A w \in Save : SidOf[w] = SidOf[d] => w \in before[d]
  BY <1>1 DEF Alone
<1>3. ~(o \in Save /\ SidOf[o] = SidOf[d])
  BY <1>0, <1>2 DEF OrderInv, Moves
<1>4. \A p \in Reader : Begun(p) => Begun(p)' /\ before'[p] = before[p]
  BY <1>0 DEF Moves, Begun
<1>5. \A p \in Reader : Begun(p) => p \in before[d] \/ d \in before[p]
  BY <1>1, <1>4 DEF Alone
<1> QED
  BY <1>1, <1>2, <1>3, <1>5 DEF Alone

(* A deletion that is over, while others step. *)
LEMMA HiddenOthers ==
    ASSUME IndexTypeOK, IndexTypeOK', OrderInv, HiddenInv, NEW o \in Op, Moves(o), Changes(o),
           o \in Reader => FindStep(o) \/ DropDataStep(o) \/ LoadMetas(o),
           NEW d \in Drop, d # o, d \notin failed', Alone(d)'
    PROVE  /\ await'[d] \in {"summary", "member", "index", "over"} => SidOf[d] \notin stored'
           /\ await'[d] \in {"member", "index", "over"} => SidOf[d] \notin summary'
           /\ \A p \in Reader : d \in before'[p] =>
                /\ SidOf[d] \notin found'[p] /\ answer'[p] # SidOf[d]
                /\ await'[p] \in {"fastFill", "fill"} => SidOf[d] \notin owed'[p]
<1>0. /\ d \in Op /\ (\A p \in Reader : p \in Op) /\ SidOf[d] \in Sid /\ NoSid \notin Sid
      /\ d \notin failed /\ await'[d] = await[d]
  BY IndexAssumption DEF Op, Reader, Moves
<1>1. Alone(d) /\ before'[d] = before[d] /\ ~(o \in Save /\ SidOf[o] = SidOf[d])
  BY AloneBack
<1>2. /\ await[d] \in {"summary", "member", "index", "over"} => SidOf[d] \notin stored
      /\ await[d] \in {"member", "index", "over"} => SidOf[d] \notin summary
      /\ \A p \in Reader : d \in before[p] =>
           /\ SidOf[d] \notin found[p] /\ answer[p] # SidOf[d]
           /\ await[p] \in {"fastFill", "fill"} => SidOf[d] \notin owed[p]
  BY <1>0, <1>1 DEF HiddenInv
<1>3. SidOf[d] \in stored' => SidOf[d] \in stored
  BY <1>1 DEF Changes
<1>4. SidOf[d] \in summary' => SidOf[d] \in summary
  <2>1. ~(o \in Reader /\ await[o] \in {"fastFill", "fill"} /\ SidOf[d] \in owed[o])
    <3> SUFFICES ASSUME o \in Reader, await[o] \in {"fastFill", "fill"}, SidOf[d] \in owed[o]
                 PROVE  FALSE
      OBVIOUS
    <3>1. o \in before[d] \/ d \in before[o]
      BY <1>1 DEF Alone, Begun
    <3>2. o \notin before[d]
      BY <1>0 DEF OrderInv, Moves
    <3> QED
      BY <1>2, <3>1, <3>2
  <2> QED
    BY <1>1, <2>1 DEF Changes
<1>5. ASSUME NEW p \in Reader, d \in before'[p]
      PROVE  /\ SidOf[d] \notin found'[p] /\ answer'[p] # SidOf[d]
             /\ await'[p] \in {"fastFill", "fill"} => SidOf[d] \notin owed'[p]
  <2>1. CASE p # o
    <3>1. /\ before'[p] = before[p] /\ found'[p] = found[p] /\ answer'[p] = answer[p]
          /\ await'[p] = await[p] /\ owed'[p] = owed[p]
      BY <1>0, <2>1 DEF Moves
    <3> QED
      BY <1>2, <1>5, <3>1
  <2>2. CASE p = o
    <3>1. await[d] = "over"
      BY <1>0, <1>5, <2>2 DEF Moves, OrderInv
    <3>2. SidOf[d] \notin stored /\ SidOf[d] \notin summary
      BY <1>2, <3>1
    <3>3. SidOf[d] \notin found[p] /\ answer[p] # SidOf[d]
      <4>1. CASE Begun(p)
        BY <1>2, <1>5, <2>2, <4>1 DEF Moves, Begun
      <4>2. CASE ~Begun(p)
        BY <1>0, <4>2 DEF OrderInv
      <4> QED
        BY <4>1, <4>2
    <3>4. /\ found'[p] \subseteq found[p] \union stored \union summary
          /\ answer'[p] = answer[p] \/ answer'[p] \in found[p]
          /\ await'[p] \in {"fastFill", "fill"} =>
                \/ owed'[p] \subseteq found'[p]
                \/ await[p] = await'[p] /\ owed'[p] \subseteq owed[p]
      BY <2>2, ReaderEffect
    <3>5. SidOf[d] \notin found'[p] /\ answer'[p] # SidOf[d]
      BY <3>2, <3>3, <3>4
    <3>6. await[p] \in {"fastFill", "fill"} => SidOf[d] \notin owed[p]
      BY <1>2, <1>5, <2>2 DEF Moves
    <3> QED
      BY <3>4, <3>5, <3>6
  <2> QED
    BY <2>1, <2>2
<1> QED
  BY <1>0, <1>2, <1>3, <1>4, <1>5

(* The deletion that takes the step. *)
LEMMA HiddenOwn ==
    ASSUME IndexTypeOK, IndexTypeOK', OrderInv, OrderInv', HiddenInv, NEW o \in Drop, Moves(o),
           DropStep(o), o \notin failed', Alone(o)'
    PROVE  /\ await'[o] \in {"summary", "member", "index", "over"} => SidOf[o] \notin stored'
           /\ await'[o] \in {"member", "index", "over"} => SidOf[o] \notin summary'
           /\ \A p \in Reader : o \notin before'[p]
<1> USE DEF IndexTypeOK, Goto, End, reading, keys
<1>0. o \in Op /\ o \notin failed /\ \A p \in Reader : p \in Op /\ p # o
  BY IndexAssumption DEF Op, Reader, Moves
<1>1. \A p \in Reader : o \notin before'[p]
  BY <1>0 DEF Moves, OrderInv
<1>2. Begun(o) => Alone(o)
  BY <1>0, AloneBack
<1>3. Begun(o) => /\ await[o] \in {"summary", "member", "index", "over"} => SidOf[o] \notin stored
                  /\ await[o] \in {"member", "index", "over"} => SidOf[o] \notin summary
  BY <1>0, <1>2 DEF HiddenInv
<1>4. CASE DropRead(o)
  BY <1>0, <1>1, <1>4 DEF DropRead
<1>5. CASE DropBlob(o)
  BY <1>0, <1>1, <1>5 DEF DropBlob
<1>6. CASE DropSummary(o)
  BY <1>0, <1>1, <1>3, <1>6 DEF DropSummary, Begun
<1>7. CASE DropMember(o)
  BY <1>0, <1>1, <1>3, <1>7 DEF DropMember, Begun
<1>8. CASE DropIndex(o)
  BY <1>0, <1>1, <1>3, <1>8 DEF DropIndex, Begun
<1>9. CASE DropFails(o)
  BY <1>0, <1>9 DEF DropFails, Fails
<1> QED
  BY <1>4, <1>5, <1>6, <1>7, <1>8, <1>9 DEF DropStep

(* What was deleted alone stays hidden.                                    *)
LEMMA HiddenStep ==
    ASSUME IndexTypeOK, IndexTypeOK', OrderInv, OrderInv', HiddenInv, NEW o \in Op, Moves(o), Changes(o),
           o \in Reader => FindStep(o) \/ DropDataStep(o) \/ LoadMetas(o),
           o \in Drop => DropStep(o)
    PROVE  HiddenInv'
<1> SUFFICES ASSUME NEW d \in Drop, d \notin failed', Alone(d)'
             PROVE  /\ await'[d] \in {"summary", "member", "index", "over"} => SidOf[d] \notin stored'
                    /\ await'[d] \in {"member", "index", "over"} => SidOf[d] \notin summary'
                    /\ \A p \in Reader : d \in before'[p] =>
                         /\ SidOf[d] \notin found'[p] /\ answer'[p] # SidOf[d]
                         /\ await'[p] \in {"fastFill", "fill"} => SidOf[d] \notin owed'[p]
  BY DEF HiddenInv
<1>1. CASE d = o
  BY <1>1, HiddenOwn
<1>2. CASE d # o
  BY <1>2, HiddenOthers
<1> QED
  BY <1>1, <1>2

-----------------------------------------------------------------------------
(* The invariant holds initially ...                                       *)
LEMMA IndexInitInv == IndexInit => IndexInv
<1> SUFFICES ASSUME IndexInit PROVE IndexInv
  OBVIOUS
<1>1. IndexTypeOK
  BY IndexInitTyped
<1>2. \A o \in Op : /\ await[o] = "idle" /\ before[o] = {} /\ found[o] = {}
                    /\ owed[o] = {} /\ answer[o] = NoSid
  BY DEF IndexInit
<1>3. \A o \in Save \union Drop \union DropData \union Find : o \in Op
  BY DEF Op
<1>4. OrderInv /\ TargetInv
  BY <1>2, <1>3 DEF OrderInv, TargetInv
<1>5. KeptInv
  BY <1>2, <1>3 DEF KeptInv, Kept, WroteBlob, WroteMember, IndexInit
<1>6. LookupInv
  BY <1>2, <1>3 DEF LookupInv
<1>7. HiddenInv
  BY <1>2, <1>3 DEF HiddenInv, Reader
<1> QED
  BY <1>1, <1>4, <1>5, <1>6, <1>7 DEF IndexInv

(* Without a step of an operation only the index changes. *)
LEMMA IndexStutter ==
    ASSUME IndexInv, UNCHANGED <<stored, summary, members, await, reading, failed, before>>,
           IndexTypeOK'
    PROVE  IndexInv'
<1> USE DEF reading, IndexInv
<1>1. OrderInv' /\ TargetInv'
  BY DEF OrderInv, TargetInv, Begun
<1>2. KeptInv'
  BY DEF KeptInv, Kept, WroteBlob, WroteMember, Begun, Deletes
<1>3. LookupInv'
  BY DEF LookupInv, MustFind, SavedBefore, DeletedSince, Deletes
<1>4. HiddenInv'
  BY DEF HiddenInv, Alone, Begun
<1> QED
  BY <1>1, <1>2, <1>3, <1>4

(* ... and every step keeps it.                                            *)
LEMMA IndexNextInv == IndexInv /\ [IndexNext]_indexVars => IndexInv'
<1> SUFFICES ASSUME IndexInv, [IndexNext]_indexVars PROVE IndexInv'
  OBVIOUS
<1>1. ASSUME NEW o \in Op, SaveStep(o) \/ DropStep(o) \/ DropDataStep(o) \/ FindStep(o) \/ LoadMetas(o)
      PROVE  IndexInv'
  <2>1. IndexTypeOK' /\ Moves(o) /\ Changes(o)
    BY <1>1, SaveEffect, DropEffect, DropDataEffect, FindEffect, LoadEffect DEF IndexInv
  <2>2. /\ SaveStep(o) => o \in Save
        /\ DropStep(o) => o \in Drop
        /\ DropDataStep(o) => o \in DropData
        /\ FindStep(o) => o \in Find
        /\ LoadMetas(o) => o \in Reader
    BY SaveEffect, DropEffect, DropDataEffect, FindEffect, LoadEffect DEF IndexInv
  <2>3. /\ o \in Save => SaveStep(o)
        /\ o \in Drop => DropStep(o)
        /\ o \in Find => FindStep(o) \/ LoadMetas(o)
        /\ o \in Reader => FindStep(o) \/ DropDataStep(o) \/ LoadMetas(o)
    BY <1>1, <2>2, IndexAssumption DEF Reader
  <2>4. OrderInv'
    BY <2>1, OrderStep DEF IndexInv
  <2>5. TargetInv'
    BY <1>1, <2>1, TargetStep DEF IndexInv
  <2>6. KeptInv'
    BY <2>1, <2>3, KeptStep DEF IndexInv
  <2>7. LookupInv'
    BY <2>1, <2>3, LookupStep DEF IndexInv
  <2>8. HiddenInv'
    BY <2>1, <2>3, <2>4, HiddenStep DEF IndexInv
  <2> QED
    BY <2>1, <2>4, <2>5, <2>6, <2>7, <2>8 DEF IndexInv
<1>2. ASSUME NEW d \in Expiring, IndexExpires(d)
      PROVE  IndexInv'
  <2>1. IndexTypeOK'
    BY <1>2, IndexAssumption DEF IndexInv, IndexTypeOK, IndexExpires, Point, reading
  <2> QED
    BY <1>2, <2>1, IndexStutter DEF IndexExpires
<1>3. CASE UNCHANGED indexVars
  <2>1. IndexTypeOK'
    BY <1>3 DEF IndexInv, IndexTypeOK, indexVars
  <2> QED
    BY <1>3, <2>1, IndexStutter DEF indexVars, reading
<1> QED
  BY <1>1, <1>2, <1>3 DEF IndexNext

(* The invariant holds in every reachable state of DatasetIndex.           *)
THEOREM IndexInvariant == IndexSpec => []IndexInv
BY IndexInitInv, IndexNextInv, PTL DEF IndexSpec

(* A lookup that meets no failure answers None only when every session of  *)
(* the dataset saved before it began is being deleted or has been.         *)
THEOREM DatasetsAreFound == IndexSpec => []FindsLive
<1>1. IndexInv => FindsLive
  BY DEF IndexInv, LookupInv, FindsLive, MustFind
<1> QED
  BY <1>1, IndexInvariant, PTL

(* After a delete_session without failure no later lookup answers with its *)
(* session, unless a save or another reader's backfill ran beside it or    *)
(* after it.                                                               *)
THEOREM DeletedAreHidden == IndexSpec => []DeletedStaysHidden
<1>1. IndexInv => DeletedStaysHidden
  <2> SUFFICES ASSUME IndexInv, NEW o \in Find, NEW d \in (Drop \intersect before[o]) \ failed,
                      answer[o] = SidOf[d],
                      \A w \in Save : SidOf[w] = SidOf[d] => w \in before[d],
                      \A p \in (Find \union DropData) \ {o} : await[p] # "idle" => ~Overlap(p, d)
               PROVE  FALSE
    BY DEF DeletedStaysHidden
  <2>1. Alone(d)
    BY DEF Alone, Overlap, Reader, Begun
  <2> QED
    BY <2>1 DEF IndexInv, HiddenInv, Reader
<1> QED
  BY <1>1, IndexInvariant, PTL
=============================================================================
