--------------------------- MODULE RayJobsProofs ---------------------------
(* Proofs about a Ray job's record, for any number of requests and faults. *)
EXTENDS RayJobs, TLAPS

(* Ray answers an end only of a job that ended so, and none before.        *)
JobInv ==
    /\ ray \in Terminal => ray = ended
    /\ ray \in Live \union {"none"} => ended = "no"
    /\ runner.at = "idle" => ray = "none"

(* Whoever has an end in hand, the row, the runner or a request, has the   *)
(* end of the job; what the runner carries to the row is of its branch.    *)
HandsInv ==
    /\ row \in Terminal => row = ended
    /\ runner.status \in Terminal => runner.status = ended
    /\ runner.at = "ended" => runner.status \in Terminal
    /\ runner.at = "late" => runner.status \in Live
    /\ \A q \in Requests : req[q].status \in Terminal => req[q].status = ended

(* The call has an outcome exactly when it is over, and one that tells an  *)
(* end is that of the job.                                                 *)
OutcomeInv ==
    /\ outcome # "none" <=> runner.at = "over"
    /\ outcome = "SUCCEEDED" => ended = "SUCCEEDED"
    /\ outcome = "FAILED" => ended \in {"FAILED", "STOPPED"}

(* Once the call told an end, a row that shows none was written late, or   *)
(* the write of the end was lost.                                          *)
RowInv ==
    outcome \in {"SUCCEEDED", "FAILED"} =>
        row \notin Live \/ "ended" \in lost \/ late

IInv == TypeOK /\ JobInv /\ HandsInv /\ OutcomeInv /\ RowInv

-----------------------------------------------------------------------------
LEMMA InitTyped == Init => TypeOK
<1> SUFFICES ASSUME Init PROVE TypeOK
  OBVIOUS
<1>1. Idle \in [at : {"idle", "refresh", "store", "stop", "ask", "write"},
                stop : BOOLEAN, status : Known \union {"none"}]
  BY DEF Idle
<1>2. faults \in 0 .. MaxFaults
  BY FaultsAssumption DEF Init
<1> QED
  BY <1>1, <1>2 DEF Init, TypeOK, Known, Live, Terminal

LEMMA UpdateTyped ==
    ASSUME TypeOK, NEW status \in Known \union {"none"},
           NEW write \in {"submission", "late", "ended", "refresh", "stop"},
           Update(status, write)
    PROVE  /\ row' \in Known \union {"none"}
           /\ lost' \subseteq {"submission", "late", "ended", "refresh", "stop"}
           /\ late' \in BOOLEAN
           /\ faults' \in 0 .. MaxFaults
<1>1. row' \in Known \union {"none"}
  BY DEF Update, TypeOK
<1>2. lost' \subseteq {"submission", "late", "ended", "refresh", "stop"}
  BY DEF Update, TypeOK
<1>3. late' \in BOOLEAN
  BY DEF Update, TypeOK
<1>4. faults' \in 0 .. MaxFaults
  BY FaultsAssumption DEF Update, Fault, TypeOK
<1> QED
  BY <1>1, <1>2, <1>3, <1>4

LEMMA FaultTyped == TypeOK /\ (Fault \/ UNCHANGED faults) => faults' \in 0 .. MaxFaults
  BY FaultsAssumption DEF Fault, TypeOK

LEMMA RunnerTyped == TypeOK /\ (RunnerStep \/ BackendDies) => TypeOK'
<1> SUFFICES ASSUME TypeOK, RunnerStep \/ BackendDies PROVE TypeOK'
  OBVIOUS
<1> USE DEF TypeOK, Known, Live, Terminal, job
<1>1. CASE Submit
  BY <1>1, FaultTyped DEF Submit, RunnerOver
<1>2. CASE RecordSubmission
  BY <1>2, FaultTyped DEF RecordSubmission
<1>3. CASE Poll
  BY <1>3, FaultTyped DEF Poll, PollEnd, PollLate, PollFails, NoAnswer, RunnerOver
<1>4. CASE RecordTimeout
  BY <1>4, UpdateTyped DEF RecordTimeout, RunnerOver
<1>5. CASE RecordEnd
  BY <1>5, UpdateTyped DEF RecordEnd, RunnerOver
<1>6. CASE BackendDies
  BY <1>6, FaultTyped DEF BackendDies, Idle
<1> QED
  BY <1>1, <1>2, <1>3, <1>4, <1>5, <1>6 DEF RunnerStep

Request == [at : {"idle", "refresh", "store", "stop", "ask", "write"},
            stop : BOOLEAN, status : Known \union {"none"}]

LEMMA AnswerTyped ==
    ASSUME req \in [Requests -> Request], NEW q \in Requests, Answer(q)
    PROVE  req' \in [Requests -> Request]
<1>1. Idle \in Request
  BY DEF Idle, Request
<1> QED
  BY <1>1 DEF Answer

LEMMA MoveTyped ==
    ASSUME req \in [Requests -> Request], NEW q \in Requests,
           NEW at \in {"refresh", "store", "stop", "ask", "write"},
           NEW status \in Known \union {"none"}, Move(q, at, status)
    PROVE  req' \in [Requests -> Request]
<1>1. [req[q] EXCEPT !.at = at, !.status = status] \in Request
  BY DEF Request
<1>2. req' = [req EXCEPT ![q] = [req[q] EXCEPT !.at = at, !.status = status]]
  BY DEF Move
<1> QED
  BY <1>1, <1>2

LEMMA LoadedTyped ==
    ASSUME req \in [Requests -> Request], NEW q \in Requests, NEW stop \in BOOLEAN,
           NEW status \in Known, Loaded(q, stop, status)
    PROVE  req' \in [Requests -> Request]
<1>1. [at |-> "refresh", stop |-> stop, status |-> status] \in Request
  BY DEF Request
<1> QED
  BY <1>1, AnswerTyped DEF Loaded

LEMMA RequestTyped ==
    ASSUME TypeOK, NEW q \in Requests, LoadRecord(q) \/ Step(q)
    PROVE  TypeOK'
<1>0. req \in [Requests -> Request] /\ req[q] \in Request /\ req[q].status \in Known \union {"none"}
  BY DEF TypeOK, Request
<1>1. CASE LoadRecord(q)
  <2>1. req' \in [Requests -> Request]
    BY <1>0, <1>1, LoadedTyped DEF LoadRecord, TypeOK, Known
  <2> QED
    BY <1>1, <2>1, FaultTyped DEF LoadRecord, TypeOK, Request, job
<1>2. CASE Refresh(q)
  <2>1. req' \in [Requests -> Request]
    BY <1>0, <1>2, MoveTyped, AnswerTyped DEF Refresh, Answers, Known
  <2> QED
    BY <1>2, <2>1, FaultTyped DEF Refresh, Answers, NoAnswer, TypeOK, Request, job
<1>3. CASE StoreEnd(q)
  <2>1. req' \in [Requests -> Request]
    BY <1>0, <1>3, AnswerTyped DEF StoreEnd
  <2> QED
    BY <1>0, <1>3, <2>1, UpdateTyped DEF StoreEnd, TypeOK, Request, job
<1>4. CASE StopCall(q)
  <2>1. req' \in [Requests -> Request]
    BY <1>0, <1>4, MoveTyped, AnswerTyped DEF StopCall
  <2>2. stopping' \in BOOLEAN
    BY <1>4 DEF StopCall, TypeOK
  <2> QED
    BY <1>4, <2>1, <2>2, FaultTyped DEF StopCall, Answers, NoAnswer, TypeOK, Request, job
<1>5. CASE AskStatus(q)
  <2>1. req' \in [Requests -> Request]
    BY <1>0, <1>5, MoveTyped, AnswerTyped DEF AskStatus, Answers
  <2> QED
    BY <1>5, <2>1, FaultTyped DEF AskStatus, Answers, NoAnswer, TypeOK, Request, job
<1>6. CASE WriteStop(q)
  <2>1. req' \in [Requests -> Request]
    BY <1>0, <1>6, AnswerTyped DEF WriteStop
  <2> QED
    BY <1>0, <1>6, <2>1, UpdateTyped DEF WriteStop, TypeOK, Request, job
<1> QED
  BY <1>1, <1>2, <1>3, <1>4, <1>5, <1>6 DEF Step

LEMMA ClusterTyped ==
    TypeOK /\ (JobStarts \/ JobEnds \/ HeadRestarts \/ UNCHANGED vars) => TypeOK'
<1> USE DEF TypeOK, Known, Live, Terminal
<1>1. TypeOK /\ JobStarts => TypeOK'
  BY DEF JobStarts
<1>2. TypeOK /\ JobEnds => TypeOK'
  BY DEF JobEnds
<1>3. TypeOK /\ HeadRestarts => TypeOK'
  BY DEF HeadRestarts
<1>4. TypeOK /\ UNCHANGED vars => TypeOK'
  BY DEF vars
<1> QED
  BY <1>1, <1>2, <1>3, <1>4

LEMMA StepTyped == TypeOK /\ [Next]_vars => TypeOK'
  BY RunnerTyped, RequestTyped, ClusterTyped DEF Next

(* The record of the job keeps the type of every field, whatever requests, *)
(* lost writes and restarts come.                                          *)
THEOREM RecordTyped == Spec => []TypeOK
  BY InitTyped, StepTyped, PTL DEF Spec

-----------------------------------------------------------------------------
LEMMA InitInv == Init => IInv
<1> SUFFICES ASSUME Init PROVE IInv
  OBVIOUS
<1>1. \A q \in Requests : req[q].status = "none"
  BY DEF Init, Idle
<1>2. HandsInv
  BY <1>1 DEF Init, HandsInv, Terminal
<1> QED
  BY <1>2, InitTyped DEF Init, IInv, JobInv, OutcomeInv, RowInv, Live, Terminal

(* A write keeps the row true if what it writes is.                        *)
LEMMA UpdateInv ==
    ASSUME TypeOK, HandsInv, RowInv, NEW status, NEW write, Update(status, write),
           status \in Terminal => status = ended
    PROVE  /\ row' \in Terminal => row' = ended
           /\ row \notin Live \/ "ended" \in lost \/ late
                => row' \notin Live \/ "ended" \in lost' \/ late'
  BY DEF HandsInv, Update, TypeOK, Known

LEMMA RunnerInv == IInv /\ TypeOK' /\ (RunnerStep \/ BackendDies) => IInv'
<1> SUFFICES ASSUME IInv, TypeOK', RunnerStep \/ BackendDies PROVE IInv'
  OBVIOUS
<1> USE DEF IInv, JobInv, HandsInv, OutcomeInv, RowInv, Live, Terminal, job
<1>1. CASE Submit
  BY <1>1 DEF Submit, RunnerOver, TypeOK
<1>2. CASE RecordSubmission
  BY <1>2 DEF RecordSubmission, TypeOK
<1>3. CASE Poll
  BY <1>3 DEF Poll, PollEnd, PollLate, PollFails, RunnerOver, TypeOK
<1>4. CASE RecordTimeout
  BY <1>4 DEF RecordTimeout, Update, RunnerOver, TypeOK
<1>5. CASE RecordEnd
  BY <1>5 DEF RecordEnd, Update, RunnerOver, TypeOK
<1>6. CASE BackendDies
  BY <1>6 DEF BackendDies, Idle, TypeOK
<1> QED
  BY <1>1, <1>2, <1>3, <1>4, <1>5, <1>6 DEF RunnerStep

LEMMA RequestInv ==
    ASSUME IInv, TypeOK', NEW q \in Requests, LoadRecord(q) \/ Step(q)
    PROVE  IInv'
<1> USE DEF IInv, JobInv, HandsInv, OutcomeInv, RowInv, job
<1>1. CASE LoadRecord(q)
  BY <1>1 DEF LoadRecord, Loaded, Answer, Idle, TypeOK, Terminal
<1>2. CASE Refresh(q)
  BY <1>2 DEF Refresh, Move, Answer, Idle, TypeOK, Terminal
<1>3. CASE StoreEnd(q)
  BY <1>3, UpdateInv DEF StoreEnd, Answer, Idle, TypeOK, Terminal
<1>4. CASE StopCall(q)
  BY <1>4 DEF StopCall, Move, Answer, Idle, TypeOK, Terminal
<1>5. CASE AskStatus(q)
  BY <1>5 DEF AskStatus, Move, Answer, Idle, TypeOK, Terminal
<1>6. CASE WriteStop(q)
  BY <1>6, UpdateInv DEF WriteStop, Answer, Idle, TypeOK, Terminal
<1> QED
  BY <1>1, <1>2, <1>3, <1>4, <1>5, <1>6 DEF Step

(* A job ends once: until it does nobody has an end in hand.               *)
LEMMA ClusterInv ==
    IInv /\ TypeOK' /\ (JobStarts \/ JobEnds \/ HeadRestarts \/ UNCHANGED vars)
        => IInv'
  BY DEF IInv, JobInv, HandsInv, OutcomeInv, RowInv, Known, Live, Terminal, TypeOK,
     JobStarts, JobEnds, HeadRestarts, vars

(* IInv holds throughout every run.                                        *)
THEOREM RecordInvariant == Spec => []IInv
<1>1. IInv /\ [Next]_vars => IInv'
  BY StepTyped, RunnerInv, RequestInv, ClusterInv DEF Next, IInv
<1> QED
  BY <1>1, InitInv, PTL DEF Spec

(* Neither the row nor the call makes up an end: a row that is terminal,   *)
(* and a call that returned one, tell how the job ended, for any number of *)
(* requests that read and stop it, of lost writes and of restarts.         *)
THEOREM EndsTold == Spec => []EndsAreTrue
<1>1. IInv => EndsAreTrue
  BY DEF IInv, HandsInv, OutcomeInv, EndsAreTrue
<1> QED
  BY <1>1, RecordInvariant, PTL

(* A row that is left live although its job ended has one of the causes    *)
(* StaleRowsHaveCause lists, and no other.                                 *)
THEOREM StaleRowsExplained == Spec => []StaleRowsHaveCause
<1>1. IInv => StaleRowsHaveCause
  BY DEF IInv, OutcomeInv, RowInv, TypeOK, StaleRowsHaveCause
<1> QED
  BY <1>1, RecordInvariant, PTL
=============================================================================
