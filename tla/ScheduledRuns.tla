---------------------------- MODULE ScheduledRuns ----------------------------
(***************************************************************************)
(* The Celery workers of app/core/celery_app.py for one schedule: the      *)
(* scheduler dispatches its runs (Scheduler's Send), a message is          *)
(* acknowledged when a worker takes it, so a run is executed at most once. *)
(* agent_task keeps one row per run in scheduled_runs with writes that may *)
(* fail and are only logged; a training run starts a Ray job of its own    *)
(* and reports it in the row.                                              *)
(***************************************************************************)
EXTENDS Integers, FiniteSets

CONSTANTS
    MaxDispatched,  \* bound: runs the scheduler dispatches
    Workers,        \* processes that run tasks
    MaxRetries,     \* POSTs of a job that submit_ray_job makes
    MaxUnanswered,  \* bound: POSTs without an answer
    MaxLost,        \* bound: writes to scheduled_runs that fail
    MaxKilled       \* bound: worker processes that die or are killed

ASSUME WorkersAssumption ==
    /\ MaxDispatched \in Nat /\ Workers \in Nat \ {0}
    /\ MaxRetries \in Nat \ {0} /\ MaxUnanswered \in Nat
    /\ MaxLost \in Nat /\ MaxKilled \in Nat

VARIABLES
    dispatched, \* runs dispatched to the workers
    taken,      \* runs the workers took, in that order
    stage,      \* where agent_task stands, per run
    counted,    \* the runs with a row when the run's start counted them
    row,        \* scheduled_runs, per run
    verdict,    \* what the run came to: its final state, or an exception
    job,        \* the nested Ray job the run waits for
    posts,      \* the POSTs of a job that got no answer, per run
    lost,       \* <<run, write>>: the writes that failed
    killed      \* the runs whose process died

runsVars == <<dispatched, taken, stage, counted, row, verdict, job, posts,
          lost, killed>>

Runs == 1 .. MaxDispatched
Verdicts == {"success", "failure"}
NoRow == [number |-> 0, status |-> "none", job |-> FALSE]
Row == [number : Nat, status : {"none", "running"} \union Verdicts, job : BOOLEAN]

Stored == {r \in Runs : row[r] # NoRow}
Running == {"starting", "working", "refused", "waiting"}
Busy == {r \in Runs : stage[r] \in Running}
Ended(r) == stage[r] = "ended"

RunsTypeOK ==
    /\ dispatched \in 0 .. MaxDispatched
    /\ taken \in 0 .. dispatched
    /\ stage \in [Runs -> {"queued", "ended"} \union Running]
    /\ counted \in [Runs -> SUBSET Runs]
    /\ row \in [Runs -> Row]
    /\ verdict \in [Runs -> {"none", "success", "failure"}]
    /\ job \in [Runs -> {"none", "running", "gone"} \union Verdicts]
    /\ posts \in [Runs -> 0 .. MaxRetries]
    /\ lost \subseteq Runs \X {"start", "job", "end"}
    /\ killed \subseteq Runs

RunsInit ==
    /\ dispatched = 0
    /\ taken = 0
    /\ stage = [r \in Runs |-> "queued"]
    /\ counted = [r \in Runs |-> {}]
    /\ row = [r \in Runs |-> NoRow]
    /\ verdict = [r \in Runs |-> "none"]
    /\ job = [r \in Runs |-> "none"]
    /\ posts = [r \in Runs |-> 0]
    /\ lost = {}
    /\ killed = {}

-----------------------------------------------------------------------------
(* A write of the table that fails is logged, and agent_task goes on.      *)
Lose(r, write) ==
    /\ Cardinality(lost) < MaxLost
    /\ lost' = lost \union {<<r, write>>}

Dispatch ==
    /\ dispatched < MaxDispatched
    /\ dispatched' = dispatched + 1
    /\ UNCHANGED <<taken, stage, counted, row, verdict, job, posts, lost, killed>>

(* A free worker takes the next message, and _record_run_start counts the  *)
(* schedule's rows.                                                        *)
Take ==
    /\ taken < dispatched
    /\ Cardinality(Busy) < Workers
    /\ LET r == taken + 1 IN
        /\ taken' = taken + 1
        /\ stage' = [stage EXCEPT ![r] = "starting"]
        /\ counted' = [counted EXCEPT ![r] = Stored]
    /\ UNCHANGED <<dispatched, row, verdict, job, posts, lost, killed>>

(* Mutant: only the runs that succeeded are counted. *)
InsertStartPastSuccesses(r) ==
    /\ stage[r] = "starting"
    /\ stage' = [stage EXCEPT ![r] = "working"]
    /\ \/ /\ row' = [row EXCEPT ![r] =
                [number |-> 1 + Cardinality({s \in counted[r] : row[s].status = "success"}),
                 status |-> "running", job |-> FALSE]]
          /\ UNCHANGED lost
       \/ Lose(r, "start") /\ UNCHANGED row
    /\ UNCHANGED <<dispatched, taken, counted, verdict, job, posts, killed>>

(* The upsert of the row, with the number that follows the count. *)
InsertStart(r) ==
    /\ stage[r] = "starting"
    /\ stage' = [stage EXCEPT ![r] = "working"]
    /\ \/ /\ row' = [row EXCEPT ![r] =
                [number |-> Cardinality(counted[r]) + 1, status |-> "running", job |-> FALSE]]
          /\ UNCHANGED lost
       \/ Lose(r, "start") /\ UNCHANGED row
    /\ UNCHANGED <<dispatched, taken, counted, verdict, job, posts, killed>>

(* submit_ray_job repeats a POST that got no answer. The job has no id of  *)
(* the caller's: one that Ray started all the same is nobody's.            *)
PostUnanswered(r) ==
    /\ stage[r] = "working"
    /\ Cardinality({p \in Runs \X (1 .. MaxRetries) : p[2] <= posts[p[1]]}) < MaxUnanswered
    /\ posts' = [posts EXCEPT ![r] = @ + 1]
    /\ stage' = [stage EXCEPT ![r] = IF posts'[r] = MaxRetries THEN "refused" ELSE @]
    /\ UNCHANGED <<dispatched, taken, counted, row, verdict, job, lost, killed>>

(* The POST that is answered, and _record_ray_job_submission puts the job  *)
(* in the row, where there is one.                                         *)
SubmitJob(r) ==
    /\ stage[r] = "working"
    /\ stage' = [stage EXCEPT ![r] = "waiting"]
    /\ job' = [job EXCEPT ![r] = "running"]
    /\ \/ /\ row' = IF row[r] = NoRow THEN row
                    ELSE [row EXCEPT ![r].status = "running", ![r].job = TRUE]
          /\ UNCHANGED lost
       \/ Lose(r, "job") /\ UNCHANGED row
    /\ UNCHANGED <<dispatched, taken, counted, verdict, posts, killed>>

(* The Ray cluster ends the job, or its head restarts and forgets it.      *)
JobEnds(r) ==
    /\ job[r] = "running"
    /\ \E end \in Verdicts \union {"gone"} : job' = [job EXCEPT ![r] = end]
    /\ UNCHANGED <<dispatched, taken, stage, counted, row, verdict, posts, lost, killed>>

(* Mutant: the result of a run that ends does not name its job. *)
SettleWithoutJob(r, v, status) ==
    /\ \/ /\ row' = IF row[r] = NoRow THEN row
                    ELSE [row EXCEPT ![r].status = status, ![r].job = FALSE]
          /\ UNCHANGED lost
       \/ Lose(r, "end") /\ UNCHANGED row
    /\ stage' = [stage EXCEPT ![r] = "ended"]
    /\ verdict' = [verdict EXCEPT ![r] = v]
    /\ UNCHANGED <<dispatched, taken, counted, job, posts, killed>>

(* The update by run_id that ends the row, none where the start was lost;  *)
(* its result names the job again.                                         *)
Settle(r, v, status) ==
    /\ \/ /\ row' = IF row[r] = NoRow THEN row
                    ELSE [row EXCEPT ![r].status = status, ![r].job = job[r] # "none"]
          /\ UNCHANGED lost
       \/ Lose(r, "end") /\ UNCHANGED row
    /\ stage' = [stage EXCEPT ![r] = "ended"]
    /\ verdict' = [verdict EXCEPT ![r] = v]
    /\ UNCHANGED <<dispatched, taken, counted, job, posts, killed>>

(* What RayTrainer.train returns: a failure when no POST was answered, and *)
(* otherwise, once the job has ended or is not found any more, a success   *)
(* only of a job that succeeded.                                           *)
TrainingComesTo(r, v) ==
    \/ stage[r] = "refused" /\ v = "failure"
    \/ /\ stage[r] = "waiting"
       /\ job[r] # "running"
       /\ v = "failure" \/ job[r] = "success"

(* Mutant: a task that returns is a success. *)
RecordReturned(r) ==
    \E v \in Verdicts :
        /\ stage[r] = "working" \/ TrainingComesTo(r, v)
        /\ Settle(r, v, "success")

(* Mutant: the task ends only after its row shows the job. *)
RecordTracked(r) ==
    \E v \in Verdicts :
        /\ stage[r] = "working" \/ (TrainingComesTo(r, v) /\ row[r].job)
        /\ Settle(r, v, v)

(* Mutant: the trainer does not wait for its job. *)
RecordSubmitted(r) ==
    \E v \in Verdicts : stage[r] \in {"working", "waiting"} /\ Settle(r, v, v)

(* A run without a Ray job returns a final state with or without an error  *)
(* in it; _run_status_from_final tells which.                              *)
RecordFinish(r) ==
    \E v \in Verdicts :
        /\ stage[r] = "working" \/ TrainingComesTo(r, v)
        /\ Settle(r, v, v)

(* _run_agent_task raises. *)
RecordFailure(r) == stage[r] = "working" /\ Settle(r, "failure", "failure")

(* The process dies, or a run meets its time limit. task_time_limit (1800) *)
(* lies below task_soft_time_limit (1860): the process is killed before    *)
(* any SoftTimeLimitExceeded is raised in it, and the message is gone.     *)
Kill(r) ==
    /\ stage[r] \in Running
    /\ Cardinality(killed) < MaxKilled
    /\ killed' = killed \union {r}
    /\ stage' = [stage EXCEPT ![r] = "ended"]
    /\ UNCHANGED <<dispatched, taken, counted, row, verdict, job, posts, lost>>

Work(r) ==
    InsertStart(r) \/ PostUnanswered(r) \/ SubmitJob(r) \/ RecordFinish(r) \/ RecordFailure(r)

RunsNext == Dispatch \/ Take \/ \E r \in Runs : Work(r) \/ JobEnds(r) \/ Kill(r)

RunsSpec == RunsInit /\ [][RunsNext]_runsVars

(* The workers keep taking and running tasks, and a Ray job ends.          *)
RunsFairSpec ==
    /\ RunsSpec
    /\ WF_runsVars(Take)
    /\ \A r \in Runs : WF_runsVars(Work(r)) /\ WF_runsVars(JobEnds(r))

-----------------------------------------------------------------------------
(* Rows are numbered in the order of their starts: a run whose start saw   *)
(* another's row has the higher number.                                    *)
NumbersFollowStarts ==
    \A r, s \in Stored : s \in counted[r] => row[s].number < row[r].number

(* What the row of an ended run says is what the run came to; a row that   *)
(* is left "running", or was never stored, belongs to a process that died  *)
(* or to a write that failed.                                              *)
RowsTellOutcome ==
    \A r \in Runs : Ended(r) =>
        \/ r \in killed
        \/ row[r] = NoRow /\ <<r, "start">> \in lost
        \/ row[r].status = "running" /\ <<r, "end">> \in lost
        \/ row[r].status = verdict[r] /\ verdict[r] # "none"

(* A training that is listed as a success has no Ray job that goes on or   *)
(* that failed.                                                            *)
SuccessMeansJobDone ==
    \A r \in Runs : row[r].status = "success" => job[r] \in {"none", "success"}

(* The row of a run that ended by itself lists its Ray job, also when the  *)
(* write at the job's submission was lost, and that job has ended.         *)
EndedJobsAreListed ==
    \A r \in Runs : Ended(r) /\ r \notin killed /\ job[r] # "none" =>
        /\ job[r] # "running"
        /\ row[r].status \in Verdicts => row[r].job

(* Every run that was dispatched comes to an end. *)
EveryRunEnds == \A r \in Runs : dispatched >= r ~> Ended(r)
=============================================================================
