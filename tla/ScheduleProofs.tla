---------------------------- MODULE ScheduleProofs ----------------------------
(* Proofs about scheduled tasks. Of one schedule, for any max_runs and any *)
(* number of failures: its dispatches, its cancellation and task_ids. Of   *)
(* its runs, for any number of runs and workers, of writes that fail and   *)
(* of processes that die: their rows and their Ray jobs.                   *)
EXTENDS Scheduler, ScheduledRuns, FiniteSetTheorems, TLAPS

(* The dispatches max_runs allows.                                         *)
Budget == IF MaxRuns = 0 THEN 1 ELSE MaxRuns

(* The tick is past the point where it decided to dispatch.                *)
Committed == beat = "reserved" \/ (beat = "loaded" /\ entry.enabled)

(* While the schedule is enabled it was not cancelled, and its count is    *)
(* not behind its dispatches: the tick works on the count it read.         *)
CountInv ==
    definition = "enabled" =>
        /\ sentBefore = NotCancelled
        /\ Len(sent) <= count
        /\ beat = "loaded" => entry.enabled /\ entry.count = count
        /\ beat = "reserved" => count = entry.count + 1 /\ Len(sent) <= entry.count
        /\ beat = "sent" => count = entry.count + 1

(* Whoever can still dispatch has one dispatch left.                       *)
BudgetInv ==
    Bounded =>
        /\ Len(sent) <= Budget + crashes
        /\ Committed => Len(sent) + 1 <= Budget + crashes
        /\ definition = "enabled" /\ beat # "sent" => Len(sent) + 1 <= Budget + crashes

CancelInv ==
    sentBefore # NotCancelled =>
        /\ sentBefore \in Nat
        /\ definition # "enabled"
        /\ Len(sent) <= sentBefore + 1
        /\ Committed => Len(sent) <= sentBefore

(* What task_ids holds of a schedule that was not cancelled.               *)
Pending == IF beat \in {"sent", "read"} THEN 1 ELSE 0
RecordInv ==
    sentBefore = NotCancelled =>
        /\ beat = "read" => readIds = taskIds
        /\ Len(sent) <= Len(taskIds) + crashes + Pending
        /\ \A i \in 1 .. Len(taskIds) : taskIds[i] + Pending <= Len(sent)
        /\ \A i, j \in 1 .. Len(taskIds) : i < j => taskIds[i] < taskIds[j]

IInv == TypeOK /\ CountInv /\ BudgetInv /\ CancelInv /\ RecordInv

-----------------------------------------------------------------------------
LEMMA AppendFacts ==
    ASSUME NEW s \in Seq(Nat), NEW n \in Nat
    PROVE  /\ Append(s, n) \in Seq(Nat)
           /\ Len(Append(s, n)) = Len(s) + 1
           /\ Append(s, n)[Len(s) + 1] = n
           /\ \A i \in 1 .. Len(s) : Append(s, n)[i] = s[i]
           /\ Len(s) \in Nat
           /\ \A i \in 1 .. Len(s) : s[i] \in Nat
  OBVIOUS

LEMMA EmptyTyped == <<>> \in Seq(Nat)
  OBVIOUS

LEMMA InitTyped == Init => TypeOK
  BY SchedulerAssumption DEF Init, TypeOK

LEMMA StepTyped == TypeOK /\ [Next]_vars => TypeOK'
<1> SUFFICES ASSUME TypeOK, [Next]_vars PROVE TypeOK'
  OBVIOUS
<1> USE DEF TypeOK, hash
<1>1. CASE Load
  <2>1. [enabled |-> definition = "enabled", count |-> count] \in [enabled : BOOLEAN, count : Nat]
    OBVIOUS
  <2> QED
    BY <1>1, <2>1 DEF Load
<1>2. CASE Skip
  BY <1>2 DEF Skip
<1>3. CASE Reserve
  BY <1>3 DEF Reserve
<1>4. CASE Send
  BY <1>4, AppendFacts DEF Send
<1>5. CASE SendFails
  BY <1>5, SchedulerAssumption DEF SendFails
<1>6. CASE Disable
  BY <1>6 DEF Disable
<1>7. CASE Record
  BY <1>7, AppendFacts DEF Record
<1>8. CASE Crash
  BY <1>8, SchedulerAssumption DEF Crash
<1>9. CASE Cancel
  <2>1. sentBefore' \in Nat \union {NotCancelled}
    BY <1>9, AppendFacts DEF Cancel
  <2> QED
    BY <1>9, <2>1, EmptyTyped DEF Cancel
<1>10. CASE UNCHANGED vars
  BY <1>10 DEF vars
<1> QED
  BY <1>1, <1>2, <1>3, <1>4, <1>5, <1>6, <1>7, <1>8, <1>9, <1>10 DEF Next, Tick

(* Every field of the entry keeps its type.                                *)
THEOREM EntryTyped == Spec => []TypeOK
  BY InitTyped, StepTyped, PTL DEF Spec

-----------------------------------------------------------------------------
LEMMA InitInv == Init => IInv
<1> SUFFICES ASSUME Init PROVE IInv
  OBVIOUS
<1>1. CountInv /\ CancelInv /\ RecordInv
  BY DEF Init, CountInv, CancelInv, RecordInv, Pending, NotCancelled
<1>2. BudgetInv
  BY SchedulerAssumption DEF Init, BudgetInv, Budget, Bounded, Committed
<1> QED
  BY <1>1, <1>2, InitTyped DEF IInv

(* The steps that dispatch nothing and record nothing.                     *)
LEMMA QuietInv ==
    IInv /\ (Load \/ Skip \/ Reserve \/ SendFails \/ UNCHANGED vars) => IInv'
<1> SUFFICES ASSUME IInv, Load \/ Skip \/ Reserve \/ SendFails \/ UNCHANGED vars
             PROVE  IInv'
  OBVIOUS
<1>0. /\ TypeOK' /\ Len(sent) \in Nat /\ crashes \in Nat /\ Len(taskIds) \in Nat
      /\ Bounded => Budget \in Nat
  BY StepTyped, AppendFacts, SchedulerAssumption DEF IInv, TypeOK, Next, Tick, Bounded, Budget
<1> USE DEF IInv, CountInv, BudgetInv, CancelInv, RecordInv, Committed, Pending
<1>1. CASE Load
  <2>1. definition # "absent" =>
            /\ entry'.enabled <=> definition = "enabled"
            /\ entry'.count = count
            /\ beat' = "loaded"
    <3> SUFFICES ASSUME definition # "absent"
                 PROVE  /\ entry'.enabled <=> definition = "enabled"
                        /\ entry'.count = count
                        /\ beat' = "loaded"
      OBVIOUS
    <3>1. entry' = [enabled |-> definition = "enabled", count |-> count]
      BY <1>1 DEF Load
    <3>2. entry'.enabled = (definition = "enabled") /\ entry'.count = count
      BY <3>1
    <3> QED
      BY <1>1, <3>2 DEF Load
  <2>2. definition = "absent" => beat' = "idle" /\ entry' = entry
    BY <1>1 DEF Load
  <2>3. /\ UNCHANGED <<definition, count, taskIds, readIds, sent, crashes, sentBefore>>
        /\ beat = "idle"
    BY <1>1 DEF Load
  <2> QED
    BY <1>0, <2>1, <2>2, <2>3
<1>2. CASE Skip
  BY <1>0, <1>2 DEF Skip, hash, TypeOK
<1>3. CASE Reserve
  BY <1>0, <1>3 DEF Reserve, TypeOK
<1>4. CASE SendFails
  BY <1>0, <1>4 DEF SendFails, hash, TypeOK
<1>5. CASE UNCHANGED vars
  BY <1>0, <1>5 DEF vars
<1> QED
  BY <1>1, <1>2, <1>3, <1>4, <1>5

LEMMA SendInv == IInv /\ Send => IInv'
<1> SUFFICES ASSUME IInv, Send PROVE IInv'
  OBVIOUS
<1>0. /\ TypeOK' /\ Len(sent) \in Nat /\ crashes \in Nat /\ Len(taskIds) \in Nat
      /\ Bounded => Budget \in Nat
      /\ \A i \in 1 .. Len(taskIds) : taskIds[i] \in Nat
  BY StepTyped, AppendFacts, SchedulerAssumption DEF IInv, TypeOK, Next, Tick, Bounded, Budget
<1>1. Len(sent') = Len(sent) + 1
  BY AppendFacts DEF Send, IInv, TypeOK
<1>2. /\ beat = "reserved" /\ beat' = "sent"
      /\ UNCHANGED <<definition, count, taskIds, entry, readIds, crashes, sentBefore>>
  BY DEF Send, hash
<1>3. entry.count \in Nat /\ count \in Nat
  BY DEF IInv, TypeOK
<1> HIDE DEF TypeOK
<1>4. CountInv' /\ BudgetInv'
  BY <1>0, <1>1, <1>2, <1>3 DEF IInv, CountInv, BudgetInv, Committed
<1>5. CancelInv' /\ RecordInv'
  BY <1>0, <1>1, <1>2 DEF IInv, CancelInv, RecordInv, Committed, Pending
<1> QED
  BY <1>0, <1>4, <1>5 DEF IInv

(* The last dispatch max_runs allows disables the definition; after any    *)
(* other the count, and with it the dispatches, are below max_runs.        *)
LEMMA DisableInv == IInv /\ Disable => IInv'
<1> SUFFICES ASSUME IInv, Disable PROVE IInv'
  OBVIOUS
<1>0. /\ TypeOK' /\ Len(sent) \in Nat /\ crashes \in Nat /\ entry.count \in Nat
      /\ Bounded => MaxRuns \in Nat
  BY StepTyped, AppendFacts, SchedulerAssumption DEF IInv, TypeOK, Next, Tick, Bounded
<1>1. /\ beat = "sent" /\ beat' = "read" /\ readIds' = taskIds
      /\ definition' \in {definition, "disabled"}
      /\ UNCHANGED <<count, taskIds, entry, sent, crashes, sentBefore>>
  BY DEF Disable
<1>2. definition' = "enabled" /\ Bounded => entry.count + 1 < MaxRuns
  BY <1>0 DEF Disable, LastRun, Bounded
<1>3. CountInv' /\ CancelInv' /\ RecordInv'
  BY <1>1 DEF IInv, CountInv, CancelInv, RecordInv, Committed, Pending
<1>4. BudgetInv'
  BY <1>0, <1>1, <1>2 DEF IInv, CountInv, BudgetInv, Committed, Budget, Bounded
<1> QED
  BY <1>0, <1>3, <1>4 DEF IInv

LEMMA RecordStepInv == IInv /\ Record => IInv'
<1> SUFFICES ASSUME IInv, Record PROVE IInv'
  OBVIOUS
<1>0. /\ TypeOK' /\ Len(sent) \in Nat /\ crashes \in Nat
      /\ taskIds \in Seq(Nat) /\ Len(taskIds) \in Nat
  BY StepTyped, AppendFacts DEF IInv, TypeOK, Next, Tick
<1>1. /\ beat = "read" /\ beat' = "idle"
      /\ UNCHANGED <<definition, count, entry, sent, crashes, sentBefore>>
  BY DEF Record
<1>2. CountInv' /\ BudgetInv' /\ CancelInv'
  BY <1>1 DEF IInv, CountInv, BudgetInv, CancelInv, Committed
<1>3. RecordInv'
  <2> SUFFICES ASSUME sentBefore = NotCancelled PROVE RecordInv'
    BY <1>1 DEF RecordInv
  <2>1. taskIds' = Append(taskIds, Len(sent))
    BY <1>1 DEF Record, IInv, RecordInv
  <2>2. /\ Len(taskIds') = Len(taskIds) + 1
        /\ taskIds'[Len(taskIds) + 1] = Len(sent)
        /\ \A i \in 1 .. Len(taskIds) : taskIds'[i] = taskIds[i] /\ taskIds[i] \in Nat
    BY <1>0, <2>1, AppendFacts
  <2>3. /\ Len(sent) <= Len(taskIds) + crashes + 1
        /\ \A i \in 1 .. Len(taskIds) : taskIds[i] + 1 <= Len(sent)
        /\ \A i, j \in 1 .. Len(taskIds) : i < j => taskIds[i] < taskIds[j]
    BY <1>1 DEF IInv, RecordInv, Pending
  <2>4. Len(sent') <= Len(taskIds') + crashes'
    BY <1>0, <1>1, <2>2, <2>3
  <2>5. \A i \in 1 .. Len(taskIds') : taskIds'[i] <= Len(sent')
    <3> TAKE i \in 1 .. Len(taskIds')
    <3>0. Len(taskIds') = Len(taskIds) + 1 /\ Len(taskIds) \in Nat /\ Len(sent) \in Nat
      BY <1>0, <2>2
    <3>1. i \in 1 .. Len(taskIds) \/ i = Len(taskIds) + 1
      BY <3>0
    <3>2. CASE i \in 1 .. Len(taskIds)
      <4>1. taskIds'[i] = taskIds[i] /\ taskIds[i] \in Nat /\ taskIds[i] + 1 <= Len(sent)
        BY <2>2, <2>3, <3>2
      <4> QED
        BY <1>1, <3>0, <4>1
    <3>3. CASE i = Len(taskIds) + 1
      <4>1. taskIds'[i] = Len(sent)
        BY <2>2, <3>3
      <4> QED
        BY <1>1, <3>0, <4>1
    <3> QED
      BY <3>1, <3>2, <3>3
  <2>6. \A i, j \in 1 .. Len(taskIds') : i < j => taskIds'[i] < taskIds'[j]
    <3> TAKE i, j \in 1 .. Len(taskIds')
    <3>0. Len(taskIds') = Len(taskIds) + 1 /\ Len(taskIds) \in Nat
      BY <1>0, <2>2
    <3>2. j \in 1 .. Len(taskIds) \/ j = Len(taskIds) + 1
      BY <3>0
    <3> HAVE i < j
    <3>1. i \in 1 .. Len(taskIds)
      BY <3>0
    <3>3. taskIds'[i] = taskIds[i] /\ taskIds[i] \in Nat /\ taskIds[i] + 1 <= Len(sent)
      BY <2>2, <2>3, <3>1
    <3>4. CASE j \in 1 .. Len(taskIds)
      BY <2>2, <2>3, <3>1, <3>3, <3>4
    <3>5. CASE j = Len(taskIds) + 1
      BY <1>0, <2>2, <3>3, <3>5
    <3> QED
      BY <3>2, <3>4, <3>5
  <2> QED
    BY <1>0, <1>1, <2>4, <2>5, <2>6 DEF RecordInv, Pending, TypeOK
<1> QED
  BY <1>0, <1>2, <1>3 DEF IInv

(* A scheduler that dies may have dispatched a run nothing else shows: the *)
(* crash counts for it.                                                    *)
LEMMA CrashInv == IInv /\ Crash => IInv'
<1> SUFFICES ASSUME IInv, Crash PROVE IInv'
  OBVIOUS
<1>0. /\ TypeOK' /\ Len(sent) \in Nat /\ crashes \in Nat /\ Len(taskIds) \in Nat
      /\ entry.count \in Nat
      /\ Bounded => Budget \in Nat
      /\ \A i \in 1 .. Len(taskIds) : taskIds[i] \in Nat
  BY StepTyped, AppendFacts, SchedulerAssumption DEF IInv, TypeOK, Next, Bounded, Budget
<1>1. /\ beat # "idle" /\ beat' = "idle" /\ crashes' = crashes + 1
      /\ UNCHANGED <<definition, count, taskIds, entry, readIds, sent, sentBefore>>
  BY DEF Crash, hash
<1>2. CountInv' /\ CancelInv'
  BY <1>0, <1>1 DEF IInv, CountInv, CancelInv, Committed, TypeOK
<1>3. BudgetInv'
  BY <1>0, <1>1 DEF IInv, CountInv, BudgetInv, Committed
<1>4. RecordInv'
  BY <1>0, <1>1 DEF IInv, RecordInv, Pending
<1> QED
  BY <1>0, <1>2, <1>3, <1>4 DEF IInv

(* A tick that had loaded the entry dispatches once more at most.          *)
LEMMA CancelStepInv == IInv /\ Cancel => IInv'
<1> SUFFICES ASSUME IInv, Cancel PROVE IInv'
  OBVIOUS
<1>0. TypeOK' /\ Len(sent) \in Nat
  BY StepTyped, AppendFacts DEF IInv, TypeOK, Next
<1>1. /\ definition' = "absent"
      /\ sentBefore' = IF sentBefore = NotCancelled THEN Len(sent) ELSE sentBefore
      /\ UNCHANGED <<beat, entry, readIds, sent, crashes>>
  BY DEF Cancel
<1>2. CountInv' /\ BudgetInv'
  BY <1>1 DEF IInv, CountInv, BudgetInv, Committed
<1>3. CancelInv'
  BY <1>0, <1>1 DEF IInv, CancelInv, Committed
<1>4. RecordInv'
  BY <1>0, <1>1 DEF IInv, RecordInv, CancelInv, NotCancelled
<1> QED
  BY <1>0, <1>2, <1>3, <1>4 DEF IInv

(* IInv holds throughout every run.                                        *)
THEOREM ScheduleInvariant == Spec => []IInv
<1>1. IInv /\ [Next]_vars => IInv'
  BY QuietInv, SendInv, DisableInv, RecordStepInv, CrashInv, CancelStepInv DEF Next, Tick
<1> QED
  BY <1>1, InitInv, PTL DEF Spec

(* max_runs bounds the dispatches, but for one per scheduler that died.    *)
THEOREM BudgetKept == Spec => []RunsWithinBudget
<1>1. IInv => RunsWithinBudget
  BY DEF IInv, BudgetInv, Budget, RunsWithinBudget
<1> QED
  BY <1>1, ScheduleInvariant, PTL

(* At most one run is dispatched after a cancellation.                     *)
THEOREM CancelTakesEffect == Spec => []CancelStops
<1>1. IInv => CancelStops
  BY DEF IInv, CancelInv, CancelStops
<1> QED
  BY <1>1, ScheduleInvariant, PTL

(* Between ticks task_ids numbers the runs in their order, and misses only *)
(* those of schedulers that died.                                          *)
THEOREM RunsNumbered == Spec => []RunsAreRecorded
<1>1. IInv => RunsAreRecorded
  BY AppendFacts DEF IInv, TypeOK, RecordInv, Pending, RunsAreRecorded
<1> QED
  BY <1>1, ScheduleInvariant, PTL

-----------------------------------------------------------------------------
(* A run in front of its first write has no row, and no run has a job      *)
(* before it submitted one.                                                *)
StageInv ==
    \A r \in Runs :
        /\ stage[r] \in {"queued", "starting"} => row[r] = NoRow
        /\ stage[r] \in {"queued", "starting", "working", "refused"} => job[r] = "none"
        /\ stage[r] = "waiting" => job[r] # "none"
        /\ stage[r] = "queued" => counted[r] = {}

(* The row while the run works, and after it.                              *)
OutcomeOf(r) ==
    /\ stage[r] \in {"working", "refused", "waiting"} =>
           \/ row[r] = NoRow /\ <<r, "start">> \in lost
           \/ row[r].status = "running"
    /\ Ended(r) =>
           \/ r \in killed
           \/ row[r] = NoRow /\ <<r, "start">> \in lost
           \/ row[r].status = "running" /\ <<r, "end">> \in lost
           \/ row[r].status = verdict[r] /\ verdict[r] # "none"
    /\ row[r].status = "success" => job[r] \in {"none", "success"}
    /\ Ended(r) /\ r \notin killed /\ job[r] # "none" =>
           /\ job[r] # "running"
           /\ row[r].status \in Verdicts => row[r].job
OutcomeInv == \A r \in Runs : OutcomeOf(r)

(* A count is of rows that stay, and of all the rows its rows counted.     *)
RowCountInv ==
    \A r \in Runs :
        /\ counted[r] \subseteq Stored
        /\ r \notin counted[r]
        /\ \A s \in counted[r] : counted[s] \subseteq counted[r]
        /\ row[r] # NoRow => row[r].number = Cardinality(counted[r]) + 1

(* Messages are taken in their order, and a run that is still to POST has  *)
(* a POST left.                                                            *)
PostsInv ==
    \A r \in Runs :
        /\ r > taken => stage[r] = "queued"
        /\ stage[r] \in {"queued", "starting", "working"} => posts[r] < MaxRetries

RunsInv == RunsTypeOK /\ PostsInv /\ StageInv /\ OutcomeInv /\ RowCountInv

-----------------------------------------------------------------------------
LEMMA CountsAreNumbers ==
    \A S \in SUBSET Runs : IsFiniteSet(S) /\ Cardinality(S) \in Nat
<1>1. IsFiniteSet(Runs)
  BY FS_Interval, WorkersAssumption DEF Runs
<1> QED
  BY <1>1, FS_Subset, FS_CardinalityType

LEMMA SmallerCounts ==
    ASSUME NEW S \in SUBSET Runs, NEW T \in SUBSET S, NEW x \in S, x \notin T
    PROVE  Cardinality(T) < Cardinality(S)
<1>1. /\ IsFiniteSet(S) /\ Cardinality(S) \in Nat
      /\ Cardinality(T) \in Nat
  BY CountsAreNumbers
<1>2. Cardinality(T) <= Cardinality(S) /\ (Cardinality(S) = Cardinality(T) => S = T)
  BY <1>1, FS_Subset
<1> QED
  BY <1>1, <1>2

LEMMA RunsInitInv == RunsInit => RunsInv
<1> SUFFICES ASSUME RunsInit PROVE RunsInv
  OBVIOUS
<1>1. RunsTypeOK
  BY WorkersAssumption DEF RunsInit, RunsTypeOK, NoRow, Row, Runs
<1> QED
  BY <1>1, WorkersAssumption DEF RunsInit, RunsInv, PostsInv, StageInv, OutcomeInv, OutcomeOf, RowCountInv, NoRow, Ended, Verdicts

-----------------------------------------------------------------------------
Rowless ==
    \/ Dispatch \/ Take \/ UNCHANGED runsVars
    \/ \E r \in Runs : PostUnanswered(r) \/ JobEnds(r) \/ Kill(r)

(* The steps that leave the rows alone.                                    *)
LEMMA RowlessTyped ==
    RunsTypeOK /\ PostsInv /\ Rowless => RunsTypeOK' /\ PostsInv'
<1> SUFFICES ASSUME RunsTypeOK, PostsInv, Rowless
             PROVE  RunsTypeOK' /\ PostsInv'
  OBVIOUS
<1> USE DEF RunsTypeOK, PostsInv, Running, Verdicts
<1>0. dispatched \in Nat /\ taken \in Nat /\ MaxDispatched \in Nat
  BY WorkersAssumption
<1>1. CASE Dispatch
  BY <1>0, <1>1 DEF Dispatch
<1>2. CASE Take
  <2>1. taken + 1 \in Runs
    BY <1>0, <1>2 DEF Take, Runs
  <2>2. Stored \in SUBSET Runs
    BY DEF Stored
  <2>3. stage[taken + 1] = "queued"
    BY <1>0, <2>1 DEF Runs
  <2> QED
    BY <1>0, <1>2, <2>1, <2>2, <2>3 DEF Take, Runs
<1>3. ASSUME NEW r \in Runs, PostUnanswered(r) PROVE RunsTypeOK' /\ PostsInv'
  <2>1. posts[r] < MaxRetries
    BY <1>3 DEF PostUnanswered
  <2>2. /\ posts' = [posts EXCEPT ![r] = posts[r] + 1]
        /\ posts[r] + 1 \in 0 .. MaxRetries
    BY <1>3, <2>1, WorkersAssumption DEF PostUnanswered
  <2>3. posts' \in [Runs -> 0 .. MaxRetries] /\ posts'[r] = posts[r] + 1
    BY <2>2
  <2> QED
    BY <1>3, <2>2, <2>3, WorkersAssumption DEF PostUnanswered
<1>4. ASSUME NEW r \in Runs, JobEnds(r) PROVE RunsTypeOK' /\ PostsInv'
  BY <1>4 DEF JobEnds
<1>5. ASSUME NEW r \in Runs, Kill(r) PROVE RunsTypeOK' /\ PostsInv'
  BY <1>5 DEF Kill
<1>6. CASE UNCHANGED runsVars
  BY <1>6 DEF runsVars
<1> QED
  BY <1>1, <1>2, <1>3, <1>4, <1>5, <1>6 DEF Rowless

LEMMA RowlessInv == RunsInv /\ Rowless => StageInv' /\ OutcomeInv' /\ RowCountInv'
<1> SUFFICES ASSUME RunsInv, Rowless PROVE StageInv' /\ OutcomeInv' /\ RowCountInv'
  OBVIOUS
<1>0. /\ stage \in [Runs -> {"queued", "ended"} \union Running]
      /\ counted \in [Runs -> SUBSET Runs]
      /\ job \in [Runs -> {"none", "running", "gone"} \union Verdicts]
      /\ verdict \in [Runs -> {"none", "success", "failure"}]
      /\ Rowless => row' = row
  BY DEF RunsInv, RunsTypeOK, Rowless, Dispatch, Take, PostUnanswered, JobEnds, Kill, runsVars
<1>1. Stored' = Stored
  BY <1>0 DEF Stored
<1> USE DEF RunsInv, StageInv, OutcomeInv, OutcomeOf, RowCountInv, Ended, Verdicts
<1>2. CASE Dispatch \/ UNCHANGED runsVars
  BY <1>0, <1>1, <1>2 DEF Dispatch, runsVars
<1>3. CASE Take
  <2> DEFINE t == taken + 1
  <2>1. t \in Runs /\ stage[t] = "queued"
    <3>1. dispatched \in Nat /\ taken \in Nat /\ MaxDispatched \in Nat /\ dispatched <= MaxDispatched
      BY WorkersAssumption DEF RunsTypeOK
    <3>2. t \in Runs /\ t > taken
      BY <1>3, <3>1 DEF Take, Runs
    <3> QED
      BY <3>2 DEF PostsInv
  <2>2. /\ stage' = [stage EXCEPT ![t] = "starting"]
        /\ counted' = [counted EXCEPT ![t] = Stored]
        /\ UNCHANGED <<row, job, verdict, lost, killed>>
    BY <1>3 DEF Take
  <2>3. t \notin Stored /\ \A r \in Runs : t \notin counted[r]
    BY <2>1 DEF Stored
  <2>4. StageInv' /\ OutcomeInv'
    BY <1>0, <2>1, <2>2
  <2>5. RowCountInv'
    <3> SUFFICES ASSUME NEW r \in Runs
                 PROVE  /\ counted'[r] \subseteq Stored
                        /\ r \notin counted'[r]
                        /\ \A s \in counted'[r] : counted'[s] \subseteq counted'[r]
                        /\ row[r] # NoRow => row[r].number = Cardinality(counted'[r]) + 1
      BY <1>1, <2>2 DEF RowCountInv
    <3>1. Stored \subseteq Runs
      BY DEF Stored
    <3>2. CASE r = t
      <4>1. counted'[r] = Stored /\ row[r] = NoRow
        BY <1>0, <2>1, <2>2, <3>2
      <4>2. \A s \in Stored : counted'[s] = counted[s]
        BY <1>0, <2>2, <2>3, <3>1
      <4> QED
        BY <2>3, <3>1, <3>2, <4>1, <4>2
    <3>3. CASE r # t
      <4>1. counted'[r] = counted[r]
        BY <1>0, <2>2, <3>3
      <4>2. \A s \in counted[r] : s \in Runs /\ counted'[s] = counted[s]
        BY <1>0, <2>2, <2>3
      <4> QED
        BY <4>1, <4>2
    <3> QED
      BY <3>2, <3>3
  <2> QED
    BY <2>4, <2>5
<1>4. ASSUME NEW r \in Runs, PostUnanswered(r) PROVE StageInv' /\ OutcomeInv' /\ RowCountInv'
  BY <1>0, <1>1, <1>4 DEF PostUnanswered
<1>5. ASSUME NEW r \in Runs, JobEnds(r) PROVE StageInv' /\ OutcomeInv' /\ RowCountInv'
  BY <1>0, <1>1, <1>5 DEF JobEnds
<1>6. ASSUME NEW r \in Runs, Kill(r) PROVE StageInv' /\ OutcomeInv' /\ RowCountInv'
  BY <1>0, <1>1, <1>6 DEF Kill, Running
<1> QED
  BY <1>2, <1>3, <1>4, <1>5, <1>6 DEF Rowless

-----------------------------------------------------------------------------
(* A write leaves the other rows, and numbers its own after the count.     *)
LEMMA CountKept ==
    ASSUME RunsTypeOK, RowCountInv, UNCHANGED counted,
           \A s \in Runs : row'[s] = row[s] \/ row'[s].number = Cardinality(counted[s]) + 1
    PROVE  RowCountInv'
<1>1. \A s \in Runs : Cardinality(counted[s]) \in Nat
  BY CountsAreNumbers DEF RunsTypeOK
<1>2. \A s \in Runs : row'[s].number = Cardinality(counted[s]) + 1 => row'[s] # NoRow
  BY <1>1 DEF NoRow
<1>3. Stored \subseteq Stored'
  BY <1>2 DEF Stored
<1>4. \A s \in Runs : row'[s] # NoRow => row'[s].number = Cardinality(counted[s]) + 1
  BY DEF RowCountInv
<1> QED
  BY <1>3, <1>4 DEF RowCountInv

(* A step of one run leaves what the others came to.                       *)
LEMMA OutcomeStays ==
    ASSUME NEW s, OutcomeOf(s), row'[s] = row[s], stage'[s] = stage[s], job'[s] = job[s],
           verdict'[s] = verdict[s], lost \subseteq lost', killed' = killed
    PROVE  OutcomeOf(s)'
  BY DEF OutcomeOf, Ended

LEMMA LoseTyped ==
    ASSUME RunsTypeOK, NEW r \in Runs, NEW write \in {"start", "job", "end"}, Lose(r, write)
    PROVE  lost' \subseteq Runs \X {"start", "job", "end"} /\ <<r, write>> \in lost' /\ lost \subseteq lost'
  BY DEF RunsTypeOK, Lose

LEMMA InsertStartInv == ASSUME RunsInv, NEW r \in Runs, InsertStart(r) PROVE RunsInv'
<1> DEFINE new == [number |-> Cardinality(counted[r]) + 1, status |-> "running", job |-> FALSE]
<1>1. /\ stage[r] = "starting" /\ stage' = [stage EXCEPT ![r] = "working"]
      /\ UNCHANGED <<dispatched, taken, counted, verdict, job, posts, killed>>
      /\ \/ row' = [row EXCEPT ![r] = new] /\ lost' = lost
         \/ row' = row /\ Lose(r, "start")
  BY DEF InsertStart
<1>2. new \in Row
  <2>1. Cardinality(counted[r]) \in Nat
    BY CountsAreNumbers DEF RunsInv, RunsTypeOK
  <2> QED
    BY <2>1 DEF Row
<1>3. row' \in [Runs -> Row] /\ lost' \subseteq Runs \X {"start", "job", "end"} /\ lost \subseteq lost'
  BY <1>1, <1>2, LoseTyped DEF RunsInv, RunsTypeOK
<1>4. RunsTypeOK' /\ PostsInv'
  BY <1>1, <1>3 DEF RunsInv, RunsTypeOK, PostsInv, Running
<1>5. \A s \in Runs \ {r} : row'[s] = row[s] /\ stage'[s] = stage[s]
  BY <1>1 DEF RunsInv, RunsTypeOK
<1>6. /\ row[r] = NoRow /\ stage'[r] = "working"
      /\ row'[r] = new \/ (row'[r] = NoRow /\ <<r, "start">> \in lost')
  BY <1>1, LoseTyped DEF RunsInv, RunsTypeOK, StageInv
<1>7. StageInv'
  BY <1>1, <1>5, <1>6 DEF RunsInv, StageInv
<1>8. OutcomeInv'
  <2>1. OutcomeOf(r)'
    <3>1. row'[r].status \in {"none", "running"}
      BY <1>6 DEF NoRow
    <3> QED
      BY <1>6, <3>1 DEF OutcomeOf, Ended
  <2>2. \A s \in Runs \ {r} : OutcomeOf(s)'
    BY <1>1, <1>3, <1>5, OutcomeStays DEF RunsInv, OutcomeInv
  <2> QED
    BY <2>1, <2>2 DEF OutcomeInv
<1>9. RowCountInv'
  <2>1. \A s \in Runs : row'[s] = row[s] \/ row'[s].number = Cardinality(counted[s]) + 1
    BY <1>5, <1>6
  <2> QED
    BY <1>1, <2>1, CountKept DEF RunsInv
<1> QED
  BY <1>4, <1>7, <1>8, <1>9 DEF RunsInv

LEMMA SubmitJobInv == ASSUME RunsInv, NEW r \in Runs, SubmitJob(r) PROVE RunsInv'
<1> DEFINE new == [row[r] EXCEPT !.status = "running", !.job = TRUE]
<1>1. /\ stage[r] = "working" /\ stage' = [stage EXCEPT ![r] = "waiting"]
      /\ job' = [job EXCEPT ![r] = "running"]
      /\ UNCHANGED <<dispatched, taken, counted, verdict, posts, killed>>
      /\ \/ row' = row /\ lost \subseteq lost'
         \/ row[r] # NoRow /\ row' = [row EXCEPT ![r] = new] /\ lost' = lost
      /\ lost' = lost \/ Lose(r, "job")
  BY DEF SubmitJob, Lose
<1>2. row[r] \in Row /\ new \in Row /\ new.number = row[r].number /\ new.status = "running"
  BY DEF RunsInv, RunsTypeOK, Row
<1>3. row' \in [Runs -> Row] /\ lost' \subseteq Runs \X {"start", "job", "end"} /\ lost \subseteq lost'
  BY <1>1, <1>2, LoseTyped DEF RunsInv, RunsTypeOK
<1>4. RunsTypeOK' /\ PostsInv'
  BY <1>1, <1>3 DEF RunsInv, RunsTypeOK, PostsInv, Running
<1>5. \A s \in Runs \ {r} : row'[s] = row[s] /\ stage'[s] = stage[s] /\ job'[s] = job[s]
  BY <1>1 DEF RunsInv, RunsTypeOK
<1>6. /\ stage'[r] = "waiting" /\ job'[r] = "running"
      /\ row'[r] = row[r] \/ (row[r] # NoRow /\ row'[r] = new)
  BY <1>1 DEF RunsInv, RunsTypeOK
<1>7. StageInv'
  BY <1>1, <1>5, <1>6 DEF RunsInv, StageInv
<1>8. OutcomeInv'
  <2>1. row'[r].status = "running" \/ (row'[r] = NoRow /\ <<r, "start">> \in lost')
    BY <1>1, <1>2, <1>3, <1>6 DEF RunsInv, OutcomeInv, OutcomeOf
  <2>2. row'[r].status # "success"
    BY <2>1 DEF NoRow
  <2>3. OutcomeOf(r)'
    BY <1>6, <2>1, <2>2 DEF OutcomeOf, Ended
  <2>4. \A s \in Runs \ {r} : OutcomeOf(s)'
    BY <1>1, <1>3, <1>5, OutcomeStays DEF RunsInv, OutcomeInv
  <2> QED
    BY <2>3, <2>4 DEF OutcomeInv
<1>9. RowCountInv'
  <2>1. \A s \in Runs : row'[s] = row[s] \/ row'[s].number = Cardinality(counted[s]) + 1
    BY <1>2, <1>5, <1>6 DEF RunsInv, RowCountInv
  <2> QED
    BY <1>1, <2>1, CountKept DEF RunsInv
<1> QED
  BY <1>4, <1>7, <1>8, <1>9 DEF RunsInv

LEMMA SettleInv ==
    ASSUME RunsInv, NEW r \in Runs, NEW v \in Verdicts,
           stage[r] \in {"working", "refused", "waiting"},
           job[r] # "running", v = "success" => job[r] \in {"none", "success"},
           Settle(r, v, v)
    PROVE  RunsInv'
<1> DEFINE new == [row[r] EXCEPT !.status = v, !.job = (job[r] # "none")]
<1>1. /\ stage' = [stage EXCEPT ![r] = "ended"]
      /\ verdict' = [verdict EXCEPT ![r] = v]
      /\ UNCHANGED <<dispatched, taken, counted, job, posts, killed>>
      /\ \/ row' = row /\ row[r] = NoRow /\ lost' = lost
         \/ row' = row /\ Lose(r, "end")
         \/ row[r] # NoRow /\ row' = [row EXCEPT ![r] = new] /\ lost' = lost
  BY DEF Settle
<1>2. row[r] \in Row
  BY DEF RunsInv, RunsTypeOK
<1>3. /\ new \in Row /\ new.number = row[r].number /\ new.status = v
      /\ job[r] # "none" => new.job
  <2>1. (job[r] # "none") \in BOOLEAN
    OBVIOUS
  <2>2. v \in {"none", "running"} \union Verdicts
    OBVIOUS
  <2>3. new \in Row
    BY <1>2, <2>1, <2>2 DEF Row
  <2>4. new.number = row[r].number /\ new.status = v /\ new.job = (job[r] # "none")
    BY <1>2 DEF Row
  <2> QED
    BY <2>3, <2>4
<1>4. row' \in [Runs -> Row] /\ lost' \subseteq Runs \X {"start", "job", "end"} /\ lost \subseteq lost'
  BY <1>1, <1>3, LoseTyped DEF RunsInv, RunsTypeOK
<1>5. RunsTypeOK' /\ PostsInv'
  BY <1>1, <1>4 DEF RunsInv, RunsTypeOK, PostsInv, Running, Verdicts
<1>6. \A s \in Runs \ {r} :
         row'[s] = row[s] /\ stage'[s] = stage[s] /\ job'[s] = job[s] /\ verdict'[s] = verdict[s]
  BY <1>1 DEF RunsInv, RunsTypeOK
<1>7. /\ stage'[r] = "ended" /\ verdict'[r] = v /\ job'[r] = job[r]
      /\ \/ row'[r] = row[r] /\ (row[r] = NoRow \/ <<r, "end">> \in lost')
         \/ row[r] # NoRow /\ row'[r] = new
  BY <1>1, LoseTyped DEF RunsInv, RunsTypeOK
<1>8. StageInv'
  BY <1>6, <1>7, <1>1 DEF RunsInv, StageInv
<1>9. OutcomeInv'
  <2>1. \/ row[r] = NoRow /\ <<r, "start">> \in lost'
        \/ row[r].status = "running"
    BY <1>4 DEF RunsInv, OutcomeInv, OutcomeOf
  <2>2. ASSUME row'[r] = row[r], row[r] = NoRow \/ <<r, "end">> \in lost' PROVE OutcomeOf(r)'
    <3>1. row'[r].status \in {"none", "running"}
      BY <2>1, <2>2 DEF NoRow
    <3>2. \/ row'[r] = NoRow /\ <<r, "start">> \in lost'
          \/ row'[r].status = "running" /\ <<r, "end">> \in lost'
      BY <2>1, <2>2 DEF NoRow
    <3> QED
      BY <1>7, <3>1, <3>2 DEF OutcomeOf, Ended, Verdicts
  <2>3. ASSUME row'[r] = new PROVE OutcomeOf(r)'
    BY <1>3, <1>7, <2>3 DEF OutcomeOf, Ended, Verdicts
  <2>4. \A s \in Runs \ {r} : OutcomeOf(s)'
    BY <1>1, <1>4, <1>6, OutcomeStays DEF RunsInv, OutcomeInv
  <2> QED
    BY <1>7, <2>2, <2>3, <2>4 DEF OutcomeInv
<1>10. RowCountInv'
  <2>1. \A s \in Runs : row'[s] = row[s] \/ row'[s].number = Cardinality(counted[s]) + 1
    BY <1>3, <1>6, <1>7 DEF RunsInv, RowCountInv
  <2> QED
    BY <1>1, <2>1, CountKept DEF RunsInv
<1> QED
  BY <1>5, <1>8, <1>9, <1>10 DEF RunsInv

LEMMA EndsInv == ASSUME RunsInv, NEW r \in Runs, RecordFinish(r) \/ RecordFailure(r) PROVE RunsInv'
<1>1. /\ stage[r] = "working" => job[r] = "none"
      /\ stage[r] = "refused" => job[r] = "none"
  BY DEF RunsInv, StageInv
<1>2. CASE RecordFinish(r)
  <2>1. PICK v \in Verdicts : (stage[r] = "working" \/ TrainingComesTo(r, v)) /\ Settle(r, v, v)
    BY <1>2 DEF RecordFinish
  <2>2. /\ stage[r] \in {"working", "refused", "waiting"} /\ job[r] # "running"
        /\ v = "success" => job[r] \in {"none", "success"}
    BY <1>1, <2>1 DEF TrainingComesTo
  <2> QED
    BY <2>1, <2>2, SettleInv
<1>3. CASE RecordFailure(r)
  <2>1. "failure" \in Verdicts /\ stage[r] = "working" /\ Settle(r, "failure", "failure")
    BY <1>3 DEF RecordFailure, Verdicts
  <2> QED
    BY <1>1, <2>1, SettleInv
<1> QED
  BY <1>2, <1>3

(* RunsInv holds throughout every run.                                        *)
THEOREM RunsInvariant == RunsSpec => []RunsInv
<1>1. RunsInv /\ [RunsNext]_runsVars => RunsInv'
  <2>1. RunsInv /\ Rowless => RunsInv'
    BY RowlessTyped, RowlessInv DEF RunsInv
  <2> QED
    BY <2>1, InsertStartInv, SubmitJobInv, EndsInv DEF RunsNext, Work, Rowless
<1> QED
  BY <1>1, RunsInitInv, PTL DEF RunsSpec

(* A run whose start counted another's row has the higher number: what it  *)
(* counted contains all the other had counted, and the other itself.       *)
THEOREM NumbersAscend == RunsSpec => []NumbersFollowStarts
<1>1. ASSUME RunsInv, NEW r \in Stored, NEW s \in Stored, s \in counted[r]
      PROVE  row[s].number < row[r].number
  <2>1. /\ r \in Runs /\ s \in Runs
        /\ counted[r] \in SUBSET Runs /\ counted[s] \subseteq counted[r] /\ s \notin counted[s]
        /\ row[r].number = Cardinality(counted[r]) + 1
        /\ row[s].number = Cardinality(counted[s]) + 1
    BY <1>1 DEF Stored, RunsInv, RunsTypeOK, RowCountInv
  <2>2. Cardinality(counted[s]) < Cardinality(counted[r])
    BY <1>1, <2>1, SmallerCounts
  <2> QED
    BY <2>1, <2>2, CountsAreNumbers
<1>2. RunsInv => NumbersFollowStarts
  BY <1>1 DEF NumbersFollowStarts
<1> QED
  BY <1>2, RunsInvariant, PTL

(* A row tells what its ended run came to, or one of three things went     *)
(* wrong: the process died, or the first or the last write was lost.       *)
THEOREM OutcomeTold == RunsSpec => []RowsTellOutcome
<1>1. RunsInv => RowsTellOutcome
  BY DEF RunsInv, OutcomeInv, OutcomeOf, RowsTellOutcome
<1> QED
  BY <1>1, RunsInvariant, PTL

(* No training is listed as a success before its Ray job succeeded.        *)
THEOREM SuccessesAreDone == RunsSpec => []SuccessMeansJobDone
<1>1. RunsInv => SuccessMeansJobDone
  BY DEF RunsInv, OutcomeInv, OutcomeOf, SuccessMeansJobDone
<1> QED
  BY <1>1, RunsInvariant, PTL

(* A run that ended by itself has ended its Ray job, and lists it.         *)
THEOREM JobsListed == RunsSpec => []EndedJobsAreListed
<1>1. RunsInv => EndedJobsAreListed
  BY DEF RunsInv, OutcomeInv, OutcomeOf, EndedJobsAreListed
<1> QED
  BY <1>1, RunsInvariant, PTL
=============================================================================
