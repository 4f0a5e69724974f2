------------------------------ MODULE Scheduler ------------------------------
(***************************************************************************)
(* One schedule of app/core/celery_app.py: an AvalokaEntry in Redis (the   *)
(* hash with its definition, meta and task_data, and its member of the     *)
(* RedBeat sorted set), the AvalokaScheduler that dispatches it, and the   *)
(* API's cancellation (app/agents/scheduler.py, DELETE /tasks/{id}).       *)
(* RedBeat's lock lets one scheduler act at a time; one that dies between  *)
(* two of its calls is replaced by another, which starts over.             *)
(***************************************************************************)
EXTENDS Integers, Sequences

CONSTANTS
    MaxRuns,        \* max_runs; Unlimited for -1
    Unlimited,
    MaxCrashes,     \* bound: schedulers that die
    MaxFailures,    \* bound: dispatches that fail
    MaxCount        \* bound: ticks that reserve a run

ASSUME SchedulerAssumption ==
    /\ MaxRuns \in Nat \union {Unlimited}
    /\ Unlimited \notin Nat
    /\ MaxCrashes \in Nat /\ MaxFailures \in Nat /\ MaxCount \in Nat

VARIABLES
    definition, \* "absent", or the hash's enabled flag
    count,      \* total_run_count in the hash's meta
    taskIds,    \* task_ids in the hash's task_data
    scheduled,  \* the key is in the sorted set
    beat,       \* the scheduler's place in its tick
    entry,      \* the entry it loaded: its enabled flag and total_run_count
    readIds,    \* the task_ids it read
    sent,       \* the runs dispatched to the workers, in order
    crashes, failures,
    sentBefore  \* history: runs dispatched before the cancellation

vars == <<definition, count, taskIds, scheduled, beat, entry, readIds, sent,
          crashes, failures, sentBefore>>
hash == <<definition, count, taskIds, scheduled>>

NotCancelled == -1

TypeOK ==
    /\ definition \in {"absent", "enabled", "disabled"}
    /\ count \in Nat
    /\ taskIds \in Seq(Nat)
    /\ scheduled \in BOOLEAN
    /\ beat \in {"idle", "loaded", "reserved", "sent", "read"}
    /\ entry \in [enabled : BOOLEAN, count : Nat]
    /\ readIds \in Seq(Nat)
    /\ sent \in Seq(Nat)
    /\ crashes \in 0 .. MaxCrashes
    /\ failures \in 0 .. MaxFailures
    /\ sentBefore \in Nat \union {NotCancelled}

Init ==
    /\ definition = "enabled"
    /\ count = 0
    /\ taskIds = <<>>
    /\ scheduled = TRUE
    /\ beat = "idle"
    /\ entry = [enabled |-> FALSE, count |-> 0]
    /\ readIds = <<>>
    /\ sent = <<>>
    /\ crashes = 0
    /\ failures = 0
    /\ sentBefore = NotCancelled

-----------------------------------------------------------------------------
(* The tick lists the due keys of the sorted set and loads each entry; a   *)
(* key whose hash has no definition is taken out of the set.               *)
Load ==
    /\ beat = "idle"
    /\ scheduled
    /\ IF definition = "absent"
       THEN scheduled' = FALSE /\ UNCHANGED <<beat, entry>>
       ELSE /\ beat' = "loaded"
            /\ entry' = [enabled |-> definition = "enabled", count |-> count]
            /\ UNCHANGED scheduled
    /\ UNCHANGED <<definition, count, taskIds, readIds, sent, crashes, failures, sentBefore>>

(* A disabled entry is never due. *)
Skip ==
    /\ beat = "loaded"
    /\ ~entry.enabled
    /\ beat' = "idle"
    /\ UNCHANGED <<hash, entry, readIds, sent, crashes, failures, sentBefore>>

(* apply_async first reserves the run: RedBeat writes the incremented meta *)
(* and puts the key back in the set.                                       *)
Reserve ==
    /\ beat = "loaded"
    /\ entry.enabled
    /\ count < MaxCount
    /\ count' = entry.count + 1
    /\ scheduled' = TRUE
    /\ beat' = "reserved"
    /\ UNCHANGED <<definition, taskIds, entry, readIds, sent, crashes, failures, sentBefore>>

Send ==
    /\ beat = "reserved"
    /\ sent' = Append(sent, Len(sent) + 1)
    /\ beat' = "sent"
    /\ UNCHANGED <<hash, entry, readIds, crashes, failures, sentBefore>>

(* "Scheduler: Message Error": the entry stays as it is until its next     *)
(* due time.                                                               *)
SendFails ==
    /\ beat = "reserved"
    /\ failures < MaxFailures
    /\ failures' = failures + 1
    /\ beat' = "idle"
    /\ UNCHANGED <<hash, entry, readIds, sent, crashes, sentBefore>>

(* Mutant: the last run is the one after max_runs. *)
OneRunTooMany == MaxRuns # Unlimited /\ entry.count >= MaxRuns

(* Mutant: a run past max_runs is not the last one. *)
ExactlyLastRun == MaxRuns # Unlimited /\ entry.count + 1 = MaxRuns

LastRun == MaxRuns # Unlimited /\ entry.count + 1 >= MaxRuns

(* Mutant: the definition of a run in flight is written back as loaded. *)
WriteBackEnabled ==
    /\ beat = "sent"
    /\ definition' = IF LastRun THEN "disabled" ELSE "enabled"
    /\ readIds' = taskIds
    /\ beat' = "read"
    /\ UNCHANGED <<count, taskIds, scheduled, entry, sent, crashes, failures, sentBefore>>

(* One transaction: the definition is disabled with the last run, and      *)
(* task_data is read.                                                      *)
Disable ==
    /\ beat = "sent"
    /\ definition' = IF LastRun THEN "disabled" ELSE definition
    /\ readIds' = taskIds
    /\ beat' = "read"
    /\ UNCHANGED <<count, taskIds, scheduled, entry, sent, crashes, failures, sentBefore>>

(* Mutant: task_data holds the latest run only. *)
RecordLatest ==
    /\ beat = "read"
    /\ taskIds' = <<Len(sent)>>
    /\ beat' = "idle"
    /\ UNCHANGED <<definition, count, scheduled, entry, readIds, sent, crashes, failures, sentBefore>>

(* task_data with the run appended. *)
Record ==
    /\ beat = "read"
    /\ taskIds' = Append(readIds, Len(sent))
    /\ beat' = "idle"
    /\ UNCHANGED <<definition, count, scheduled, entry, readIds, sent, crashes, failures, sentBefore>>

(* The scheduler dies, or a Redis error ends its tick. *)
Crash ==
    /\ beat # "idle"
    /\ crashes < MaxCrashes
    /\ crashes' = crashes + 1
    /\ beat' = "idle"
    /\ UNCHANGED <<hash, entry, readIds, sent, failures, sentBefore>>

-----------------------------------------------------------------------------
(* handle_task_cancel and DELETE /tasks/{id}: the entry is loaded, and     *)
(* entry.delete() removes the hash and the member in one transaction.      *)
Cancel ==
    /\ definition # "absent"
    /\ definition' = "absent"
    /\ count' = 0
    /\ taskIds' = <<>>
    /\ scheduled' = FALSE
    /\ sentBefore' = IF sentBefore = NotCancelled THEN Len(sent) ELSE sentBefore
    /\ UNCHANGED <<beat, entry, readIds, sent, crashes, failures>>

Tick == Load \/ Skip \/ Reserve \/ Send \/ SendFails \/ Disable \/ Record

Next == Tick \/ Crash \/ Cancel

Spec == Init /\ [][Next]_vars

(* celery beat keeps ticking. *)
FairSpec == Spec /\ WF_vars(Load) /\ WF_vars(Skip \/ Reserve \/ Send \/ Disable \/ Record)

-----------------------------------------------------------------------------
Bounded == MaxRuns # Unlimited

(* A schedule with max_runs is dispatched max_runs times, and once more    *)
(* only for each scheduler that died, whatever dispatches failed.          *)
RunsWithinBudget == Bounded => Len(sent) <= (IF MaxRuns = 0 THEN 1 ELSE MaxRuns) + crashes

(* A cancelled schedule is dispatched at most once more: by the tick that  *)
(* had loaded it.                                                          *)
CancelStops == sentBefore # NotCancelled => Len(sent) <= sentBefore + 1

(* GET /tasks/{id}/result/{index} and /runs number the runs by their place *)
(* in task_ids: between ticks these are the runs dispatched, in order,     *)
(* without those of schedulers that died.                                  *)
RunsAreRecorded ==
    (beat = "idle" /\ sentBefore = NotCancelled) =>
        /\ Len(sent) <= Len(taskIds) + crashes
        /\ \A i, j \in 1 .. Len(taskIds) : i < j => taskIds[i] < taskIds[j]

(* A schedule with max_runs ends: it is disabled or cancelled.             *)
BoundedScheduleEnds == Bounded => <>[](definition # "enabled")
=============================================================================
