----------------------- MODULE UploadFinalizerProofs -----------------------
(* Proofs about one upload, for any number of requests that write its      *)
(* session back, of deletions and of re-checks, whenever Redis fails.      *)
EXTENDS UploadFinalizer, TLAPS

(* Nobody else has a session to work on before the upload succeeded.       *)
Alone == \A p \in Writer \union Deleter : pc[p] = "idle"
NotDeleted == \A d \in Deleter : pc[d] = "idle"

(* The finalizer waits for the push, goes on as the push ended, and stops  *)
(* short of its last check only when a fault hides the session from it.    *)
PushInv ==
    /\ object # "absent" => push = "done"
    /\ fin \in {"reading", "applying", "saving"} => push = "done"
    /\ fin = "noting" => push = "failed"
    /\ fin = "over" => push # "running"

(* A request that has not ended is alone with its session; checks begin    *)
(* with the session unseen.                                                *)
RequestInv ==
    /\ request \in {"profiling", "saved", "failing"} => fin = "none" /\ Alone
    /\ request = "saved" => session # Gone
    /\ fin \in {"none", "waiting", "noting"} => attempt = 0
    /\ fin \in {"none", "waiting", "noting", "reading"} /\ attempt = 0 => ~seen
    /\ fin \in {"reading", "applying", "saving"} => attempt < Checks
    /\ fin = "saving" => merged # Gone /\ "location" \in merged

(* A failed upload has no session, so the first check finds none and       *)
(* deletes the object; or a fault kept its session.                        *)
RolledBack ==
    request = "failed" =>
        /\ Alone
        /\ session # Gone => unrolled
        /\ session = Gone =>
              /\ attempt = 0 /\ fin \in {"waiting", "reading", "noting", "over"}
              /\ fin = "over" => object # "stored"

(* Written since a check: by a request that saved during it or later.      *)
WrittenSince(check) == \E w \in Writer : pc[w] = "over" /\ savedAt[w] >= check

(* Without a deletion a session that was saved is never missing, and it    *)
(* has the URI after each check that did its work, unless a dict was       *)
(* written back since.                                                     *)
KeptInv ==
    request = "ok" /\ NotDeleted =>
        /\ session # Gone
        /\ \A w \in Writer : pc[w] = "working" => copy[w] # Gone
        /\ \A check \in (0 .. Checks - 1) \ missed :
              check < attempt => "location" \in session \/ WrittenSince(check)
        /\ fin = "over" /\ push = "done" =>
              attempt = Checks \/ attempt .. Checks - 1 \subseteq missed

(* An object goes without a deletion of the dataset only at a first check, *)
(* which saw no session; the finalizer is over then.                       *)
OrphanInv ==
    object = "deleted" /\ NotDeleted =>
        fin = "over" /\ ~seen /\ (session = Gone \/ 0 \in missed)

IInv == TypeOK /\ PushInv /\ RequestInv /\ RolledBack /\ KeptInv /\ OrphanInv

-----------------------------------------------------------------------------
LEMMA Dicts == {} # Gone /\ {"location"} # Gone /\ {"location"} \in Session /\ {} \in Session
  BY GoneAssumption DEF Session, Key

LEMMA InitInv == Init => IInv
<1> SUFFICES ASSUME Init PROVE IInv
  OBVIOUS
<1>1. missed \subseteq 0 .. Checks - 1 /\ seen \in BOOLEAN /\ unrolled \in BOOLEAN
  BY DEF Init
<1>2. TypeOK
  BY <1>1, UploadAssumption DEF Init, TypeOK, Session
<1> QED
  BY <1>2, UploadAssumption
  DEF Init, IInv, PushInv, RequestInv, RolledBack, KeptInv, OrphanInv, Alone

LEMMA RequestSteps ==
    /\ IInv
    /\ Push \/ FailEarly \/ SaveSession \/ FailLate \/ RollBack \/ Succeed
    => IInv'
<1> SUFFICES ASSUME IInv,
                    Push \/ FailEarly \/ SaveSession \/ FailLate \/ RollBack \/ Succeed
             PROVE  IInv'
  OBVIOUS
<1>0. Checks \in Nat \ {0}
  BY UploadAssumption
<1> USE DEF IInv, TypeOK, PushInv, RequestInv, RolledBack, KeptInv, OrphanInv,
           Alone, NotDeleted, WrittenSince
<1>1. CASE Push
  BY <1>0, <1>1 DEF Push
<1>2. CASE FailEarly
  BY <1>0, <1>2 DEF FailEarly
<1>3. CASE SaveSession
  BY <1>0, <1>3, Dicts DEF SaveSession
<1>4. CASE FailLate
  BY <1>0, <1>4 DEF FailLate
<1>5. CASE RollBack
  BY <1>0, <1>5 DEF RollBack, Session
<1>6. CASE Succeed
  BY <1>0, <1>6 DEF Succeed
<1> QED
  BY <1>1, <1>2, <1>3, <1>4, <1>5, <1>6

LEMMA FinalizerSteps == IInv /\ Finalizer => IInv'
<1> SUFFICES ASSUME IInv, Finalizer PROVE IInv'
  OBVIOUS
<1>0. Checks \in Nat \ {0} /\ attempt \in 0 .. Checks /\ \A dict \in Reads : dict \in {session, Gone}
  BY UploadAssumption DEF IInv, TypeOK, Reads
<1> USE DEF IInv, TypeOK, PushInv, RequestInv, RolledBack, KeptInv, OrphanInv,
           Alone, NotDeleted, WrittenSince
<1>1. CASE Await
  BY <1>0, <1>1 DEF Await
<1>2. CASE NoteError
  <2>1. /\ session' \in Session
        /\ session = Gone => session' = Gone
        /\ session # Gone => session' # Gone
    <3>1. session \in Session /\ (session # Gone => session \in SUBSET Key)
      BY DEF Session
    <3>2. session # Gone => session \union {"error"} \in SUBSET Key
      BY <3>1 DEF Key
    <3> QED
      BY <1>2, <3>1, <3>2, GoneAssumption DEF NoteError, Session
  <2> QED
    BY <1>0, <1>2, <2>1 DEF NoteError
<1>3. CASE Check
  <2>1. PICK dict \in {session, Gone} :
          /\ CheckFound(dict) \/ CheckMissing(dict)
          /\ seen' = (seen \/ dict # Gone)
          /\ missed' = IF dict = session THEN missed
                       ELSE missed \union attempt .. Checks - 1
    BY <1>0, <1>3 DEF Check
  <2>2. /\ fin = "reading" /\ push = "done" /\ attempt < Checks
        /\ UNCHANGED <<push, session, request, merged, copy, pc, savedAt, unrolled>>
    BY <1>3 DEF Check
  <2>3. CASE CheckFound(dict)
    <3>1. dict = session /\ dict # Gone
      BY <2>3 DEF CheckFound
    <3>2. CASE "location" \in session
      BY <1>0, <2>1, <2>2, <2>3, <3>1, <3>2 DEF CheckFound, NextCheck
    <3>3. CASE "location" \notin session
      BY <1>0, <2>1, <2>2, <2>3, <3>1, <3>3 DEF CheckFound
    <3> QED
      BY <3>2, <3>3
  <2>4. CASE CheckMissing(dict)
    <3>1. /\ dict = Gone /\ fin' = "over" /\ UNCHANGED <<attempt, seen>>
          /\ object' = IF attempt = 0 THEN "deleted" ELSE object
      BY <2>1, <2>4 DEF CheckMissing
    <3>2. CASE session = Gone
      <4>1. UNCHANGED missed
        BY <2>1, <3>1, <3>2
      <4>2. TypeOK' /\ PushInv' /\ RequestInv'
        BY <2>2, <3>1, <4>1
      <4>3. RolledBack' /\ OrphanInv'
        BY <2>2, <3>1, <3>2, <4>1
      <4>4. KeptInv'
        BY <2>2, <3>1, <3>2, <4>1
      <4> QED
        BY <4>2, <4>3, <4>4
    <3>3. CASE session # Gone
      <4>1. missed' = missed \union attempt .. Checks - 1
        BY <2>1, <3>1, <3>3
      <4>2. missed' \subseteq 0 .. Checks - 1 /\ missed \subseteq missed'
        BY <1>0, <4>1
      <4>3. attempt .. Checks - 1 \subseteq missed' /\ (attempt = 0 => 0 \in missed')
        BY <1>0, <4>1
      <4>4. TypeOK' /\ PushInv' /\ RequestInv'
        BY <2>2, <3>1, <4>2
      <4>5. RolledBack' /\ OrphanInv'
        BY <2>2, <3>1, <3>3, <4>2, <4>3
      <4>6. KeptInv'
        BY <2>2, <3>1, <3>3, <4>2, <4>3
      <4> QED
        BY <4>4, <4>5, <4>6
    <3> QED
      BY <3>2, <3>3
  <2> QED
    BY <2>1, <2>3, <2>4
<1>4. CASE ApplyRead
  <2>1. /\ fin = "applying" /\ attempt < Checks
        /\ UNCHANGED <<push, object, session, request, copy, pc, savedAt, seen, unrolled>>
    BY <1>4 DEF ApplyRead
  <2>2. CASE /\ NextCheck
             /\ missed' = IF session = Gone THEN missed ELSE missed \union {attempt}
             /\ UNCHANGED merged
    BY <1>0, <2>1, <2>2 DEF NextCheck
  <2>3. CASE /\ session # Gone
             /\ merged' = IF "location" \in session THEN session ELSE {"location"}
             /\ fin' = "saving"
             /\ UNCHANGED <<attempt, missed>>
    <3>1. merged' \in Session /\ merged' # Gone /\ "location" \in merged'
      BY <2>3, Dicts
    <3> QED
      BY <1>0, <2>1, <2>3, <3>1
  <2> QED
    BY <1>0, <1>4, <2>2, <2>3 DEF ApplyRead
<1>5. CASE ApplyWrite
  <2>1. /\ fin = "saving" /\ attempt < Checks
        /\ merged' = Gone /\ NextCheck
        /\ UNCHANGED <<push, object, request, copy, pc, savedAt, seen, unrolled>>
    BY <1>5 DEF ApplyWrite
  <2>2. CASE session' = merged /\ UNCHANGED missed
    BY <1>0, <2>1, <2>2 DEF NextCheck, Session
  <2>3. CASE UNCHANGED session /\ missed' = missed \union {attempt}
    BY <1>0, <2>1, <2>3 DEF NextCheck, Session
  <2> QED
    BY <1>5, <2>2, <2>3 DEF ApplyWrite
<1> QED
  BY <1>1, <1>2, <1>3, <1>4, <1>5 DEF Finalizer

LEMMA WriterSteps ==
    ASSUME IInv, NEW w \in Writer, WriterReads(w) \/ WriterSaves(w)
    PROVE  IInv'
<1>0. Checks \in Nat \ {0} /\ attempt \in 0 .. Checks /\ w \notin Deleter
  BY UploadAssumption DEF IInv, TypeOK
<1> USE DEF IInv, TypeOK, PushInv, RequestInv, RolledBack, KeptInv, OrphanInv,
           Alone, NotDeleted, WrittenSince
<1>1. CASE WriterReads(w)
  BY <1>0, <1>1 DEF WriterReads
<1>2. CASE WriterSaves(w)
  BY <1>0, <1>2 DEF WriterSaves
<1> QED
  BY <1>1, <1>2

LEMMA DeleterSteps ==
    ASSUME IInv, NEW d \in Deleter, DeleteObject(d) \/ DeleteSession(d)
    PROVE  IInv'
<1>0. Checks \in Nat \ {0}
  BY UploadAssumption
<1> USE DEF IInv, TypeOK, PushInv, RequestInv, RolledBack, KeptInv, OrphanInv,
           Alone, NotDeleted, WrittenSince
<1>1. CASE DeleteObject(d)
  BY <1>0, <1>1 DEF DeleteObject
<1>2. CASE DeleteSession(d)
  BY <1>0, <1>2 DEF DeleteSession, Session
<1> QED
  BY <1>1, <1>2

LEMMA StepInv == IInv /\ [Next]_vars => IInv'
<1>1. IInv /\ UNCHANGED vars => IInv'
  BY DEF vars, IInv, TypeOK, PushInv, RequestInv, RolledBack, KeptInv, OrphanInv,
     Alone, NotDeleted, WrittenSince
<1> QED
  BY <1>1, RequestSteps, FinalizerSteps, WriterSteps, DeleterSteps DEF Next

(* The invariant holds throughout every run, whenever Redis fails.         *)
THEOREM UploadInvariant == Spec => []IInv
<1> QED
  BY InitInv, StepInv, PTL DEF Spec

(* A failed upload leaves neither session nor object, however the push and *)
(* the request interleave, and never an object without its session.        *)
THEOREM NothingLeft == Spec => []RollBackLeavesNothing
<1>1. IInv => RollBackLeavesNothing
  BY DEF IInv, RolledBack, RollBackLeavesNothing
<1> QED
  BY <1>1, UploadInvariant, PTL

(* The URI survives any number of dicts written back before a check that   *)
(* does its work, whatever faults kept the other checks from theirs.       *)
THEOREM LocationKept == Spec => []LocationSurvives
<1>1. IInv => LocationSurvives
  <2> SUFFICES ASSUME IInv, fin = "over", push = "done", request = "ok", NotDeleted,
                      NEW check \in (0 .. Checks - 1) \ missed,
                      \A w \in Writer : pc[w] = "over" => savedAt[w] < check
               PROVE  session # Gone /\ "location" \in session
    BY DEF LocationSurvives, NotDeleted
  <2>1. Checks \in Nat /\ attempt \in Nat /\ \A w \in Writer : savedAt[w] \in Nat
    BY UploadAssumption DEF IInv, TypeOK
  <2>2. ~WrittenSince(check)
    BY <2>1 DEF WrittenSince
  <2>3. check < attempt
    BY <2>1 DEF IInv, KeptInv
  <2> QED
    BY <2>2, <2>3 DEF IInv, KeptInv
<1> QED
  BY <1>1, UploadInvariant, PTL

(* The finalizer takes the object of a session in use at its first check   *)
(* or never: what it has read once it keeps.                               *)
THEOREM OrphansOnly == Spec => []OnlyOrphansDeleted
<1>1. IInv => OnlyOrphansDeleted
  BY DEF IInv, OrphanInv, NotDeleted, OnlyOrphansDeleted
<1> QED
  BY <1>1, UploadInvariant, PTL
=============================================================================
