------------------------------ MODULE RayJobs ------------------------------
(***************************************************************************)
(* One Ray job in DIRECT mode: the backend thread that submits it, records *)
(* it in the ray_jobs table and polls it (app/infra/ray_job_runner.py),    *)
(* the owner's requests of the Ray jobs API (app/infra/ray_jobs_service.py *)
(* over app/infra/ray_jobs_store.py), and the Ray cluster, whose head      *)
(* forgets its jobs when it restarts. No lock orders the writers of the    *)
(* row.                                                                    *)
(***************************************************************************)
EXTENDS Integers

CONSTANTS
    Requests,   \* the owner's requests
    MaxFaults   \* bound: writes lost, calls unanswered, backends that die

ASSUME FaultsAssumption == MaxFaults \in Nat

VARIABLES
    ray,        \* the status Ray answers for the job
    ended,      \* history: how the job ended
    stopping,   \* Ray was asked to stop it
    row,        \* the status in the ray_jobs table
    runner,     \* where _run_ray_job_direct stands, and the status it read
    outcome,    \* what it returned to the chat turn
    req,        \* per request: where it stands, and the status it has in hand
    lost,       \* history: the writes of the row that failed
    late,       \* history: a stop or a timeout wrote over the recorded end
    faults

vars == <<ray, ended, stopping, row, runner, outcome, req, lost, late, faults>>
job == <<ray, ended, stopping>>

Live == {"PENDING", "RUNNING"}
Terminal == {"SUCCEEDED", "FAILED", "STOPPED"}
Known == Live \union Terminal
Idle == [at |-> "idle", stop |-> FALSE, status |-> "none"]

TypeOK ==
    /\ ray \in Known \union {"none", "forgotten"}
    /\ ended \in Terminal \union {"no"}
    /\ stopping \in BOOLEAN
    /\ row \in Known \union {"none"}
    /\ runner \in [at : {"idle", "submitted", "polling", "late", "ended", "over"},
                   status : Known \union {"none"}]
    /\ outcome \in {"none", "SUCCEEDED", "FAILED", "TIMEOUT", "ERROR", "DIED"}
    /\ req \in [Requests -> [at : {"idle", "refresh", "store", "stop", "ask", "write"},
                             stop : BOOLEAN, status : Known \union {"none"}]]
    /\ lost \subseteq {"submission", "late", "ended", "refresh", "stop"}
    /\ late \in BOOLEAN
    /\ faults \in 0 .. MaxFaults

Init ==
    /\ ray = "none"
    /\ ended = "no"
    /\ stopping = FALSE
    /\ row = "none"
    /\ runner = [at |-> "idle", status |-> "none"]
    /\ outcome = "none"
    /\ req = [q \in Requests |-> Idle]
    /\ lost = {}
    /\ late = FALSE
    /\ faults = 0

-----------------------------------------------------------------------------
Fault == faults < MaxFaults /\ faults' = faults + 1

(* Ray answers a question about the job, or does not.                      *)
Answers == ray \in Known /\ UNCHANGED faults
NoAnswer == IF ray = "forgotten" THEN UNCHANGED faults ELSE Fault

(* _store_call and record_update: an update by submission_id, of no row    *)
(* where there is none; one that fails is logged.                          *)
Update(status, write) ==
    \/ /\ row' = IF row = "none" THEN row ELSE status
       /\ late' = (late \/ (row \in Terminal /\ status \notin Terminal))
       /\ UNCHANGED <<lost, faults>>
    \/ Fault /\ lost' = lost \union {write} /\ UNCHANGED <<row, late>>

RunnerOver(o) == runner' = [runner EXCEPT !.at = "over"] /\ outcome' = o

(* submit_job. An answer that is lost ends the call, whatever Ray started. *)
Submit ==
    /\ runner.at = "idle"
    /\ \/ /\ ray' = "PENDING"
          /\ runner' = [runner EXCEPT !.at = "submitted"]
          /\ UNCHANGED <<outcome, faults>>
       \/ Fault /\ ray' \in {"none", "PENDING"} /\ RunnerOver("ERROR")
    /\ UNCHANGED <<ended, stopping, row, req, lost, late>>

RecordSubmission ==
    /\ runner.at = "submitted"
    /\ runner' = [runner EXCEPT !.at = "polling"]
    /\ \/ row' = "PENDING" /\ UNCHANGED <<lost, faults>>
       \/ Fault /\ lost' = lost \union {"submission"} /\ UNCHANGED row
    /\ UNCHANGED <<job, outcome, req, late>>

(* get_job_status of a job that ended, or past the deadline.               *)
PollEnd ==
    /\ runner.at = "polling"
    /\ ray \in Terminal
    /\ runner' = [at |-> "ended", status |-> ray]
    /\ UNCHANGED <<job, row, outcome, req, lost, late, faults>>

PollLate ==
    /\ runner.at = "polling"
    /\ ray \in Live
    /\ runner' = [at |-> "late", status |-> ray]
    /\ UNCHANGED <<job, row, outcome, req, lost, late, faults>>

(* A poll that Ray does not answer, or answers with an error.              *)
PollFails ==
    /\ runner.at = "polling"
    /\ NoAnswer
    /\ RunnerOver("ERROR")
    /\ UNCHANGED <<job, row, req, lost, late>>

(* Mutant: past the deadline the call tells so and goes on. *)
RecordTimeoutOnly ==
    /\ runner.at = "late"
    /\ Update(runner.status, "late")
    /\ runner' = [runner EXCEPT !.at = "polling"]
    /\ UNCHANGED <<job, outcome, req>>

RecordTimeout ==
    /\ runner.at = "late"
    /\ Update(runner.status, "late")
    /\ RunnerOver("TIMEOUT")
    /\ UNCHANGED <<job, req>>

(* Mutant: the row takes the end the call returns. *)
RecordOutcome ==
    /\ runner.at = "ended"
    /\ Update(IF runner.status = "SUCCEEDED" THEN "SUCCEEDED" ELSE "FAILED", "ended")
    /\ RunnerOver(IF runner.status = "SUCCEEDED" THEN "SUCCEEDED" ELSE "FAILED")
    /\ UNCHANGED <<job, req>>

(* Mutant: a job that did not succeed leaves no end in the row. *)
RecordSuccess ==
    /\ runner.at = "ended"
    /\ IF runner.status = "SUCCEEDED" THEN Update("SUCCEEDED", "ended")
       ELSE UNCHANGED <<row, lost, late, faults>>
    /\ RunnerOver(IF runner.status = "SUCCEEDED" THEN "SUCCEEDED" ELSE "FAILED")
    /\ UNCHANGED <<job, req>>

(* STOPPED stays STOPPED in the row, and is FAILED to the caller.          *)
RecordEnd ==
    /\ runner.at = "ended"
    /\ Update(runner.status, "ended")
    /\ RunnerOver(IF runner.status = "SUCCEEDED" THEN "SUCCEEDED" ELSE "FAILED")
    /\ UNCHANGED <<job, req>>

(* The backend dies with its thread and the requests in it.                *)
BackendDies ==
    /\ Fault
    /\ runner' = [runner EXCEPT !.at = "over"]
    /\ outcome' = IF outcome = "none" THEN "DIED" ELSE outcome
    /\ req' = [q \in Requests |-> Idle]
    /\ UNCHANGED <<job, row, lost, late>>

-----------------------------------------------------------------------------
Move(q, at, status) == req' = [req EXCEPT ![q].at = at, ![q].status = status]
Answer(q) == req' = [req EXCEPT ![q] = Idle]

(* Has the request its record: a finished one is not refreshed, and a stop *)
(* of it is refused.                                                       *)
Loaded(q, stop, status) ==
    IF status \in Terminal THEN Answer(q)
    ELSE req' = [req EXCEPT ![q] = [at |-> "refresh", stop |-> stop, status |-> status]]

(* _owned_record: the row, or, when the table cannot be read, the job as   *)
(* Ray's metadata shows it; neither is a 404.                              *)
LoadRecord(q) ==
    /\ req[q].at = "idle"
    /\ \E stop \in BOOLEAN :
        \/ row # "none" /\ Loaded(q, stop, row) /\ UNCHANGED faults
        \/ Fault /\ ray \in Known /\ Loaded(q, stop, ray)
    /\ UNCHANGED <<job, row, runner, outcome, lost, late>>

(* Mutant: a live end is shown and not stored. *)
RefreshOnly(q) ==
    /\ req[q].at = "refresh"
    /\ \/ /\ Answers
          /\ IF ray \in Terminal \/ ~req[q].stop THEN Answer(q) ELSE Move(q, "stop", ray)
       \/ /\ NoAnswer
          /\ IF req[q].stop THEN Move(q, "stop", req[q].status) ELSE Answer(q)
    /\ UNCHANGED <<job, row, runner, outcome, lost, late>>

(* _refresh asks Ray for the live status; no answer leaves the record as   *)
(* it is.                                                                  *)
Refresh(q) ==
    /\ req[q].at = "refresh"
    /\ \/ /\ Answers
          /\ CASE ray \in Terminal -> Move(q, "store", ray)
               [] ray \in Live /\ req[q].stop -> Move(q, "stop", ray)
               [] OTHER -> Answer(q)
       \/ /\ NoAnswer
          /\ IF req[q].stop THEN Move(q, "stop", req[q].status) ELSE Answer(q)
    /\ UNCHANGED <<job, row, runner, outcome, lost, late>>

(* A live end is stored; it covers a backend that restarted while the job  *)
(* ran. A stop is refused: 409.                                            *)
StoreEnd(q) ==
    /\ req[q].at = "store"
    /\ Update(req[q].status, "refresh")
    /\ Answer(q)
    /\ UNCHANGED <<job, runner, outcome>>

(* stop_job calls Ray twice, to stop the job and for its status; either    *)
(* may fail: 503.                                                          *)
StopCall(q) ==
    /\ req[q].at = "stop"
    /\ \/ /\ Answers
          /\ stopping' = (stopping \/ ray \in Live)
          /\ Move(q, "ask", "none")
       \/ /\ NoAnswer
          /\ Answer(q) /\ UNCHANGED stopping
    /\ UNCHANGED <<ray, ended, row, runner, outcome, lost, late>>

AskStatus(q) ==
    /\ req[q].at = "ask"
    /\ \/ Answers /\ Move(q, "write", ray)
       \/ NoAnswer /\ Answer(q)
    /\ UNCHANGED <<job, row, runner, outcome, lost, late>>

(* "Stopped by the user", with the status Ray answered.                    *)
WriteStop(q) ==
    /\ req[q].at = "write"
    /\ Update(req[q].status, "stop")
    /\ Answer(q)
    /\ UNCHANGED <<job, runner, outcome>>

-----------------------------------------------------------------------------
JobStarts ==
    /\ ray = "PENDING"
    /\ ray' = "RUNNING"
    /\ UNCHANGED <<ended, stopping, row, runner, outcome, req, lost, late, faults>>

JobEnds ==
    /\ ray \in Live
    /\ \E end \in IF stopping THEN Terminal ELSE {"SUCCEEDED", "FAILED"} :
        ray' = end /\ ended' = end
    /\ UNCHANGED <<stopping, row, runner, outcome, req, lost, late, faults>>

HeadRestarts ==
    /\ ray \in Known
    /\ ray' = "forgotten"
    /\ UNCHANGED <<ended, stopping, row, runner, outcome, req, lost, late, faults>>

Poll == PollEnd \/ PollLate \/ PollFails
RunnerStep == Submit \/ RecordSubmission \/ Poll \/ RecordTimeout \/ RecordEnd
Step(q) == Refresh(q) \/ StoreEnd(q) \/ StopCall(q) \/ AskStatus(q) \/ WriteStop(q)

Next ==
    \/ RunnerStep \/ BackendDies
    \/ \E q \in Requests : LoadRecord(q) \/ Step(q)
    \/ JobStarts \/ JobEnds \/ HeadRestarts

Spec == Init /\ [][Next]_vars

(* The runner's thread goes on (its deadline bounds the polls), a request  *)
(* that was taken up ends, and the panel of the owner's jobs asks again.   *)
FairSpec ==
    /\ Spec
    /\ WF_vars(RunnerStep)
    /\ \A q \in Requests : WF_vars(LoadRecord(q)) /\ WF_vars(Step(q))

-----------------------------------------------------------------------------
(* A row that says the job ended, and a call that returned, say how it     *)
(* ended: no late write, stop or restart makes up an end.                  *)
EndsAreTrue ==
    /\ row \in Terminal => row = ended
    /\ outcome = "SUCCEEDED" => ended = "SUCCEEDED"
    /\ outcome = "FAILED" => ended \in {"FAILED", "STOPPED"}

(* Once runner and requests are done with a job that ended, its row tells  *)
(* the end, unless the call gave up or died, the write was lost, or a stop *)
(* or timeout that had read the status earlier wrote over it.              *)
StaleRowsHaveCause ==
    (/\ runner.at = "over" /\ \A q \in Requests : req[q].at = "idle"
     /\ ended # "no" /\ row \in Live) =>
        outcome \in {"TIMEOUT", "ERROR", "DIED"} \/ "ended" \in lost \/ late

(* While the owner looks, the row of a job that ended comes to tell it,    *)
(* whatever was written late or lost, unless Ray's head forgot the job.    *)
RowSettles == ended # "no" /\ row # "none" ~> row \in Terminal \/ ray = "forgotten"

(* The chat turn gets an answer, or its backend died.                      *)
CallReturns == runner.at # "idle" ~> outcome # "none"
=============================================================================
