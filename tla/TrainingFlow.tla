---------------------------- MODULE TrainingFlow ----------------------------
(***************************************************************************)
(* Model training through the chat: the turns of one thread over the       *)
(* user's datasets.  A turn seeds the graph's state from the dataset's     *)
(* session (app/api/server.py), the planner decides (agents/planner.py),   *)
(* the router picks the nodes (api/workflow.py), the model training agent  *)
(* acts (agents/mta_v2/agent.py) and the turn saves to the session.  What  *)
(* the agent schedules, a Celery worker runs with the state of that turn.  *)
(*                                                                         *)
(* A plan is the number of the turn that made and showed it.  The words of *)
(* a message and the LLM's answers are free choices.                       *)
(***************************************************************************)
EXTENDS Naturals, Sequences, FiniteSets

CONSTANTS
    Datasets,   \* the datasets of the thread, each with its session
    Turns       \* bound: messages sent

ASSUME TrainingFlowAssumption == IsFiniteSet(Datasets) /\ Turns \in Nat

NoPlan == 0
Plan == 0 .. Turns

VARIABLES
    asked,      \* the dataset of each turn begun
    at,         \* the node of the turn that runs, or "idle"
    state,      \* the graph's state; MemorySaver keeps it from turn to turn
    session,    \* what each dataset's session holds of training
    tasks,      \* the training and service tasks in Redis
    acted,      \* what the last step of the training agent called
    confirmations, trainings, schedules   \* history: counts

vars == <<asked, at, state, session, tasks, acted, confirmations, trainings, schedules>>
turn == Len(asked)
history == <<confirmations, trainings, schedules>>

Tools == {"generate_code", "respond_to_user", "train_model", "schedule_execute",
          "schedule_training", "no_worker", "task_operation", "unknown"}

State ==
    [plan : Plan, completed : BOOLEAN, result : {"none", "model", "failed"},
     mlflow_run : BOOLEAN, enable_training : BOOLEAN, skip_to_training : BOOLEAN,
     reply : {"none", "confirm", "update", "unclear"},
     training_scheduled : BOOLEAN, start_scheduled : BOOLEAN, stop_scheduled : BOOLEAN,
     task_schedule : {"none", "execute", "training", "training_now", "start", "stop"},
     task_operation : BOOLEAN, ready_to_code : BOOLEAN, ready_to_summarize : BOOLEAN,
     clear : BOOLEAN]

Session ==
    [plan : Plan, completed : BOOLEAN, result : {"none", "model", "failed"},
     mlflow_run : BOOLEAN, enable_training : BOOLEAN]

Task == [turn : 1 .. Turns, state : State]

NoSession == [plan |-> NoPlan, completed |-> FALSE, result |-> "none",
              mlflow_run |-> FALSE, enable_training |-> FALSE]

Blank == [plan |-> NoPlan, completed |-> FALSE, result |-> "none", mlflow_run |-> FALSE,
          enable_training |-> FALSE, skip_to_training |-> FALSE, reply |-> "none",
          training_scheduled |-> FALSE, start_scheduled |-> FALSE, stop_scheduled |-> FALSE,
          task_schedule |-> "none", task_operation |-> FALSE, ready_to_code |-> FALSE,
          ready_to_summarize |-> FALSE, clear |-> FALSE]

Nothing == [who |-> "none", turn |-> 0, kind |-> "none", did |-> {}, plan |-> NoPlan]

TypeOK ==
    /\ asked \in Seq(Datasets) /\ turn \in 0 .. Turns
    /\ at \in {"idle", "avaloka_agent", "plan_etl", "train_models", "analysis",
               "schedule_task", "save", "executed"}
    /\ state \in State
    /\ session \in [Datasets -> Session]
    /\ tasks \subseteq Task
    /\ acted \in [who : {"none", "request", "task"}, turn : 0 .. Turns, plan : Plan,
                  kind : {"none", "training", "training_now", "start", "stop"},
                  did : SUBSET {"train", "start", "stop"}]
    /\ {confirmations, trainings, schedules} \subseteq Nat

Init ==
    /\ asked = <<>>
    /\ at = "idle"
    /\ state = Blank
    /\ session = [d \in Datasets |-> NoSession]
    /\ tasks = {}
    /\ acted = Nothing
    /\ confirmations = 0 /\ trainings = 0 /\ schedules = 0

Dataset == asked[turn]
Pending(s) == s.plan # NoPlan /\ ~s.completed
HasModel(s) == s.result = "model" \/ s.mlflow_run
-----------------------------------------------------------------------------
(* Mutant: a field the session does not have is left to the checkpoint. *)
SeedPresent(d) ==
    [state EXCEPT !.plan = IF session[d].plan = NoPlan THEN @ ELSE session[d].plan,
                  !.completed = session[d].completed, !.result = session[d].result,
                  !.mlflow_run = session[d].mlflow_run,
                  !.enable_training = session[d].enable_training,
                  !.reply = "none", !.skip_to_training = FALSE, !.task_schedule = "none",
                  !.ready_to_code = FALSE, !.ready_to_summarize = FALSE, !.clear = FALSE]

(* A message about dataset d: the training fields are seeded from d's      *)
(* session; what send_message does not name, MemorySaver keeps.            *)
Seed(d) ==
    [state EXCEPT !.plan = session[d].plan, !.completed = session[d].completed,
                  !.result = session[d].result, !.mlflow_run = session[d].mlflow_run,
                  !.enable_training = session[d].enable_training,
                  !.reply = "none", !.skip_to_training = FALSE, !.task_schedule = "none",
                  !.ready_to_code = FALSE, !.ready_to_summarize = FALSE, !.clear = FALSE]

SendMessage(d) ==
    /\ at = "idle"
    /\ turn < Turns
    /\ asked' = Append(asked, d)
    /\ state' = Seed(d)
    /\ at' = "avaloka_agent"
    /\ UNCHANGED <<session, tasks, acted, history>>

(* The front agent answers, or hands over with a hint for the planner. *)
AvalokaAgent ==
    /\ at = "avaloka_agent"
    /\ \/ at' = "save" /\ UNCHANGED state
       \/ /\ at' = "plan_etl"
          /\ \/ UNCHANGED state
             \/ state' = [state EXCEPT !.enable_training = TRUE]
             \/ state' = [state EXCEPT !.ready_to_code = TRUE]
    /\ UNCHANGED <<asked, session, tasks, acted, history>>

-----------------------------------------------------------------------------
(* Model training is a paid feature: a planner's decision that would train *)
(* is turned into an analysis or a refusal.                                *)
WantsTraining(s) ==
    s.enable_training \/ s.skip_to_training \/ s.task_schedule = "training"

Gated(s, allowed) ==
    IF allowed \/ ~WantsTraining(s) THEN s
    ELSE LET blocked == [s EXCEPT !.enable_training = FALSE, !.skip_to_training = FALSE,
                                  !.reply = "none"]
         IN IF s.task_schedule # "training" /\ (s.ready_to_code \/ s.ready_to_summarize)
            THEN blocked
            ELSE [blocked EXCEPT !.ready_to_code = FALSE, !.ready_to_summarize = FALSE,
                                 !.task_schedule = IF @ = "training" THEN "none" ELSE @]

(* ray: the turn executes on the cluster.  inference: how the text asks    *)
(* for a prediction, which counts with a trained model.                    *)
RoutePlanner(s, ray, inference) ==
    LET asksModel == s.result # "none" \/ s.mlflow_run \/ s.completed
        direct == inference = "direct" /\ asksModel
        phrased == inference # "none" /\ asksModel
    IN IF s.skip_to_training THEN "train_models"
       ELSE IF s.ready_to_summarize THEN IF phrased THEN "train_models" ELSE "analysis"
       ELSE IF s.task_schedule = "training" \/ (s.task_schedule = "execute" /\ ray)
            THEN "schedule_task"
       ELSE IF s.enable_training \/ direct THEN "train_models"
       ELSE IF s.task_operation THEN "schedule_task"
       ELSE IF s.ready_to_code THEN "analysis"
       ELSE IF phrased THEN "train_models"
       ELSE "save"

(* The planner's output passes the gate and the router. *)
Planned(s) ==
    \E allowed, ray \in BOOLEAN, inference \in {"none", "phrased", "direct"} :
        /\ state' = Gated(s, allowed)
        /\ at' = RoutePlanner(state', ray, inference)

(* A guard, an answer, a failed call of the LLM. *)
Answered(s) ==
    [s EXCEPT !.enable_training = FALSE, !.ready_to_code = FALSE, !.ready_to_summarize = FALSE]

(* What the planner does with one tool call; "respond_to_user" stands for  *)
(* every tool that answers, "task_operation" for those on a task,          *)
(* "no_worker" for a schedule without Celery.                              *)
Called(tool, s) ==
    CASE tool = "generate_code" -> [Answered(s) EXCEPT !.ready_to_summarize = TRUE]
      [] tool = "respond_to_user" -> Answered(s)
      [] tool = "train_model" -> [Answered(s) EXCEPT !.enable_training = TRUE]
      [] tool = "schedule_execute" ->
             [Answered(s) EXCEPT !.task_schedule = "execute", !.ready_to_code = TRUE]
      [] tool = "schedule_training" -> [Answered(s) EXCEPT !.task_schedule = "training"]
      [] tool = "no_worker" -> [Answered(s) EXCEPT !.task_schedule = "none"]
      [] tool = "task_operation" ->
             [Answered(s) EXCEPT !.task_schedule = "none", !.task_operation = TRUE]
      [] tool = "unknown" -> [s EXCEPT !.ready_to_code = FALSE, !.ready_to_summarize = FALSE]

(* "Stopped the pending training flow": also what a reply that modifies    *)
(* the dataset does before it is planned.                                  *)
Stopped(s) ==
    [Answered(s) EXCEPT !.plan = NoPlan, !.result = "none", !.completed = FALSE,
                        !.reply = "none", !.skip_to_training = FALSE, !.clear = TRUE]

(* ready_to_code was set by the front agent: the planner does not look,    *)
(* unless a guard refuses the request first.                               *)
PlannerSkips ==
    /\ at = "plan_etl"
    /\ state.ready_to_code
    /\ Planned(state) \/ Planned(Answered(state))
    /\ UNCHANGED <<asked, session, tasks, acted, history>>

(* The user replies to a pending plan. *)
PlannerTakesReply ==
    /\ at = "plan_etl"
    /\ ~state.ready_to_code
    /\ Pending(state)
    /\ \/ /\ Planned([Answered(state) EXCEPT !.enable_training = TRUE, !.reply = "confirm",
                                             !.skip_to_training = TRUE])
          /\ confirmations' = confirmations + 1
       \/ /\ \E reply \in {"update", "unclear"} :
                Planned([Answered(state) EXCEPT !.enable_training = TRUE, !.reply = reply,
                                                !.skip_to_training = FALSE])
          /\ UNCHANGED confirmations
       \/ Planned(Stopped(state)) /\ UNCHANGED confirmations
    /\ UNCHANGED <<asked, session, tasks, acted, trainings, schedules>>

(* Anything else: a guard, the route of a training request, a phrase such  *)
(* as "looks good", the LLM's one or two tool calls, or a plan without it. *)
PlannerDecides ==
    /\ at = "plan_etl"
    /\ ~state.ready_to_code
    /\ \E s \in {state} \union IF Pending(state) THEN {Stopped(state)} ELSE {} :
          \/ Planned(Answered(s))
          \/ Planned([Called("train_model", s) EXCEPT !.skip_to_training = FALSE, !.reply = "none"])
          \/ Planned([s EXCEPT !.ready_to_summarize = TRUE, !.ready_to_code = FALSE])
          \/ Planned([s EXCEPT !.ready_to_code = TRUE, !.ready_to_summarize = FALSE])
          \/ \E first, second \in Tools : Planned(Called(second, Called(first, s)))
    /\ UNCHANGED <<asked, session, tasks, acted, history>>

(* The coding subgraph and what executes its code.  Without code the turn  *)
(* ends; a training flag left over takes precedence over both.             *)
Analysis ==
    /\ at = "analysis"
    /\ \/ at' = "save"
       \/ at' = IF state.enable_training THEN "train_models"
                ELSE IF state.task_schedule # "none" THEN "schedule_task"
                ELSE "executed"
    /\ UNCHANGED <<asked, state, session, tasks, acted, history>>
-----------------------------------------------------------------------------
(* The training agent: Execute(s, t) is the set of outcomes of one call    *)
(* with state s in turn t, the state it returns and what it called.        *)
Outcome(s, did) == [state |-> s, did |-> did]

(* Mutant: the flags of a scheduled training outlive the call. *)
FinishKeepingSchedule(s) ==
    [s EXCEPT !.task_schedule = "none", !.enable_training = FALSE,
              !.skip_to_training = FALSE, !.reply = "none"]

Finish(s) ==
    [s EXCEPT !.training_scheduled = FALSE, !.task_schedule = "none",
              !.enable_training = FALSE, !.skip_to_training = FALSE, !.reply = "none"]

Finished(outcomes) == {[o EXCEPT !.state = Finish(@)] : o \in outcomes}

(* A trainer returns a model or an error, or raises. *)
Trained(s) ==
    {Outcome([s EXCEPT !.result = "model", !.mlflow_run = TRUE,
                       !.training_scheduled = FALSE, !.completed = TRUE], {"train"}),
     Outcome([s EXCEPT !.result = "failed", !.training_scheduled = FALSE,
                       !.completed = FALSE], {"train"}),
     Outcome(Finish(s), {"train"})}

(* The data may be unavailable or invalid.  A local plan trains at once; a *)
(* plan for Ray is first scheduled, and trains on the second pass.         *)
ExecuteTraining(s) ==
    IF s.plan = NoPlan THEN {Outcome(Finish(s), {})}
    ELSE {Outcome(Finish([s EXCEPT !.completed = FALSE]), {})}
         \union Trained(s)
         \union IF s.training_scheduled THEN {}
                ELSE {Outcome([s EXCEPT !.task_schedule = "training_now",
                                        !.training_scheduled = TRUE], {})}

(* Schedules the service's start first and starts it on the second pass;   *)
(* the service manager's errors are caught.                                *)
ConfigureService(s) ==
    IF ~HasModel(s) THEN Outcome(Finish(s), {})
    ELSE IF ~s.start_scheduled
    THEN Outcome([s EXCEPT !.task_schedule = "start", !.start_scheduled = TRUE], {})
    ELSE Outcome(Finish([s EXCEPT !.start_scheduled = FALSE]), {"start"})

StopService(s) ==
    IF ~HasModel(s) THEN Outcome(Finish(s), {})
    ELSE IF ~s.stop_scheduled
    THEN Outcome([s EXCEPT !.task_schedule = "stop", !.stop_scheduled = TRUE], {})
    ELSE Outcome(Finish([s EXCEPT !.stop_scheduled = FALSE]), {"stop"})

(* A plan that cannot be made leaves none. *)
GeneratePlan(s, t) ==
    {[s EXCEPT !.plan = t, !.completed = FALSE], [s EXCEPT !.plan = NoPlan, !.completed = FALSE]}

(* An update that is unclear or changes nothing asks for detail. *)
UpdatePlan(s, t) == {s, [s EXCEPT !.plan = t, !.completed = FALSE]}

(* A prediction leaves the training state as it is or finishes it. *)
ExecuteInference(s) == {Outcome(s, {}), Outcome(Finish(s), {})}

(* One tool of the LLM's answer that the guards let through. *)
CallTool(tool, o, t) ==
    LET s == o.state
        Then(next) == Outcome(next.state, o.did \union next.did)
    IN CASE tool = "generate_training_plan" -> {Then(Outcome(g, {})) : g \in GeneratePlan(s, t)}
         [] tool = "review_code_repo" -> {o}
         [] tool = "execute_inference" -> {Then(next) : next \in ExecuteInference(s)}
         [] tool = "configure_inference_service" -> {Then(ConfigureService(s))}
         [] tool = "stop_inference_service" -> {Then(StopService(s))}
         [] tool = "execute_training" -> {Then(next) : next \in ExecuteTraining(s)}

AgentTools == {"generate_training_plan", "review_code_repo", "execute_inference",
               "configure_inference_service", "stop_inference_service"}

(* The LLM's tools.  Without a plan, asking for a plan or a training makes *)
(* the plan and stops; an update or a question stops; execute_training is  *)
(* refused, for a confirmation was handled before.                         *)
ToolCalls(s, t) ==
    LET tools == IF s.plan = NoPlan THEN AgentTools \ {"generate_training_plan"} ELSE AgentTools
        done == UNION {CallTool(second, o, t) : o \in
                          UNION {CallTool(first, Outcome(s, {}), t) : first \in tools},
                       second \in tools}
    IN Finished({Outcome(s, {})}
                \union {Outcome(u, {}) : u \in UpdatePlan(s, t)}
                \union IF s.plan = NoPlan THEN {Outcome(g, {}) : g \in GeneratePlan(s, t)} ELSE {})
       \union {IF o.state.training_scheduled \/ o.state.start_scheduled \/ o.state.stop_scheduled
               THEN o ELSE [o EXCEPT !.state = Finish(@)] : o \in done}

(* A turn's own work, in the order of its guards.  A pending plan may be   *)
(* shown in full instead; what raises ends with the state it began with.   *)
Interactive(s, t) ==
    LET shown == Finished({Outcome(s, {})})
    IN IF Pending(s) /\ s.reply = "update"
       THEN shown \union Finished({Outcome(u, {}) : u \in UpdatePlan(s, t)})
       ELSE IF Pending(s) /\ (s.skip_to_training \/ s.reply = "confirm")
       THEN shown \union {IF o.state.training_scheduled THEN o
                          ELSE [o EXCEPT !.state = Finish(@)] : o \in ExecuteTraining(s)}
       ELSE IF Pending(s) /\ s.reply = "unclear" THEN shown
       ELSE shown
            \union (IF s.result # "none"
                    THEN {IF o.state.task_schedule # "none" THEN o
                          ELSE [o EXCEPT !.state = Finish(@)] :
                             o \in {ConfigureService(s), StopService(s)}}
                    ELSE {})
            \union ToolCalls(s, t)

(* A scheduled pass is recognised by its flag and, for a service, its      *)
(* task; flags without their task are cleared.                             *)
Execute(s, t) ==
    IF s.training_scheduled THEN Finished(ExecuteTraining(s))
    ELSE IF s.task_schedule = "start" /\ s.start_scheduled THEN Finished({ConfigureService(s)})
    ELSE IF s.task_schedule = "stop" /\ s.stop_scheduled THEN Finished({StopService(s)})
    ELSE IF s.start_scheduled \/ s.stop_scheduled
    THEN Interactive([s EXCEPT !.start_scheduled = FALSE, !.stop_scheduled = FALSE,
                               !.task_schedule = "none"], t)
    ELSE Interactive(s, t)

RouteAfterTraining(s) ==
    IF s.task_schedule # "none" \/ s.training_scheduled \/ s.start_scheduled \/ s.stop_scheduled
    THEN "schedule_task" ELSE "save"

TrainModels ==
    /\ at = "train_models"
    /\ \E o \in Execute(state, turn) :
          /\ state' = o.state
          /\ at' = RouteAfterTraining(o.state)
          /\ acted' = [who |-> "request", turn |-> turn, kind |-> "none", did |-> o.did,
                       plan |-> o.state.plan]
          /\ trainings' = IF "train" \in o.did THEN trainings + 1 ELSE trainings
    /\ UNCHANGED <<asked, session, tasks, confirmations, schedules>>
-----------------------------------------------------------------------------
(* The scheduler node: a request on tasks (which may cancel one) comes     *)
(* before a schedule, and without Celery neither is done.  A task carries  *)
(* the turn's state; those that execute an analysis are left out.          *)
ScheduleTask ==
    /\ at = "schedule_task"
    /\ \/ UNCHANGED <<tasks, schedules>>
       \/ /\ state.task_operation
          /\ \E k \in tasks : tasks' = tasks \ {k}
          /\ UNCHANGED schedules
       \/ /\ ~state.task_operation
          /\ state.task_schedule \notin {"none", "execute"}
          /\ tasks' = tasks \union {[turn |-> turn, state |-> Answered(state)]}
          /\ schedules' = IF state.task_schedule = "training_now" THEN schedules + 1 ELSE schedules
    /\ state' = [state EXCEPT !.task_operation = FALSE, !.task_schedule = "none",
                              !.ready_to_code = FALSE, !.ready_to_summarize = FALSE,
                              !.skip_to_training = FALSE]
    /\ at' = "save"
    /\ UNCHANGED <<asked, session, acted, confirmations, trainings>>

(* Mutant: the schedule taken out of the state is put back for no task. *)
WorkerStateWithout(k) ==
    [k.state EXCEPT !.task_schedule = "none",
                    !.training_scheduled = k.state.task_schedule \notin {"start", "stop"}]

(* agent_task takes the schedule out of the state and puts back what the   *)
(* agent recognises the pass by.                                           *)
WorkerState(k) ==
    IF k.state.task_schedule \in {"start", "stop"} THEN k.state
    ELSE [k.state EXCEPT !.task_schedule = "none", !.training_scheduled = TRUE]

(* A worker runs a task; the agent's own run once, the planner's may run   *)
(* again.  Nothing of it reaches the chat's state or the session.          *)
RunTask(k) ==
    /\ \E o \in Execute(WorkerState(k), k.turn) :
          acted' = [who |-> "task", turn |-> k.turn, kind |-> k.state.task_schedule,
                    did |-> o.did, plan |-> o.state.plan]
    /\ \/ tasks' = tasks \ {k}
       \/ k.state.task_schedule = "training" /\ UNCHANGED tasks
    /\ UNCHANGED <<asked, at, state, session, confirmations, trainings, schedules>>

-----------------------------------------------------------------------------
(* What the turn writes over a copy of the session: fields that are None   *)
(* are not written.                                                        *)
Overlay(old) ==
    [plan |-> IF state.plan = NoPlan THEN old.plan ELSE state.plan,
     completed |-> state.completed,
     result |-> IF state.result = "none" THEN old.result ELSE state.result,
     mlflow_run |-> state.mlflow_run \/ old.mlflow_run,
     enable_training |-> state.enable_training]

(* The end of a turn.  The update merges the copy into what is stored, so  *)
(* a field that "clear" took out of the copy stays stored; an executed     *)
(* analysis may save the whole copy, or become the dataset and drop the    *)
(* training fields.                                                        *)
SaveTurn ==
    /\ at \in {"save", "executed"}
    /\ \E saved \in {Overlay(session[Dataset])} \union
                    IF at = "save" THEN {}
                    ELSE {NoSession,
                          Overlay(IF state.clear THEN NoSession ELSE session[Dataset])} :
          session' = [session EXCEPT ![Dataset] = saved]
    /\ at' = "idle"
    /\ UNCHANGED <<asked, state, tasks, acted, history>>

(* A node raises: the turn ends unsaved, its state is checkpointed. *)
TurnFails ==
    /\ at # "idle"
    /\ at' = "idle"
    /\ UNCHANGED <<asked, state, session, tasks, acted, history>>

(* The backend restarts: the checkpoints are lost. *)
Restart ==
    /\ state' = Blank
    /\ at' = "idle"
    /\ UNCHANGED <<asked, session, tasks, acted, history>>

Next ==
    \/ \E d \in Datasets : SendMessage(d)
    \/ AvalokaAgent
    \/ PlannerSkips
    \/ PlannerTakesReply
    \/ PlannerDecides
    \/ Analysis
    \/ TrainModels
    \/ ScheduleTask
    \/ SaveTurn
    \/ TurnFails
    \/ Restart
    \/ \E k \in tasks : RunTask(k)

Spec == Init /\ [][Next]_vars

-----------------------------------------------------------------------------
(* Each confirmation of a plan starts at most one training in a request    *)
(* and creates at most one training task, though the flag of a scheduled   *)
(* training stays in the thread.                                           *)
OneRunPerConfirmation ==
    trainings <= confirmations /\ schedules <= confirmations

(* What a request or a worker trains is a plan that an earlier turn about  *)
(* the same dataset made and showed: the turn that makes or changes a plan *)
(* never trains it, and a turn about one dataset never trains another's,   *)
(* though the thread's state is kept from turn to turn.                    *)
TrainsShownPlans ==
    "train" \in acted.did =>
        acted.plan \in 1 .. acted.turn - 1 /\ asked[acted.plan] = asked[acted.turn]

(* A worker that runs a start or stop of the inference service does just   *)
(* that: it neither trains nor schedules itself again.                     *)
ServiceTasksAct ==
    acted.who = "task" /\ acted.kind \in {"start", "stop"} => acted.did = {acted.kind}
=============================================================================
