----------------------------- MODULE ChatGraph -----------------------------
(* The main graph (src/app/api/workflow.py, build_graph) over the turns of  *)
(* one chat thread.  The graph is compiled with a MemorySaver and invoked   *)
(* with the thread's id, so a channel that neither send_message nor a node  *)
(* writes keeps its value from one turn to the next.  The model is of the   *)
(* channels the routers read.  Channels that hold an answer to a message    *)
(* hold the number of the turn it belongs to, 0 when empty.                 *)
(*                                                                          *)
(* Left out: model training (enable_training and the train_models node),    *)
(* and deploy_on_k8s, which every turn resets.                              *)
EXTENDS CodingLoop, FiniteSets

CONSTANTS
    Turns,          \* bound: the turns of the thread
    Fidelity,       \* the analysis_fidelity values tried
    Size            \* the size classes tried: "small" is below
                    \* SMALL_THRESHOLD, "large" at least 1 GB

ASSUME TurnsAssumption == Turns \in Nat
ASSUME FidelityAssumption ==
    /\ Fidelity \subseteq {"quick_sample", "portfolio_samples", "entire_dataset"}
    /\ Fidelity # {}
ASSUME SizeAssumption == Size \subseteq {"small", "medium", "large"} /\ Size # {}

VARIABLES
    turn,       \* number of the turn being processed, or last processed
    node,       \* the graph's next node; "idle" between two turns
    etl         \* ETLState

Node == {"idle", "avaloka_agent", "plan_etl", "summarize_etl", "code_etl",
         "provision_infra", "schedule_task", "execute_actions",
         "execute_locally", "execute_on_ray", "visualize", "verify_claims"}

NoTask == [type |-> "none", by |-> "none"]
Schedule(by) == [type |-> "execute", by |-> by]
NoCode == Unjudged

ETLState ==
    [analysis_fidelity : Fidelity, size : Size, cloud : BOOLEAN,
     analysis_defer_required : {"none", "yes", "no"},
     execution_mode : {"local", "k8s-ray"},
     ready_to_code : BOOLEAN, ready_to_summarize : BOOLEAN,
     is_dta_request : BOOLEAN,
     plan : 0..Turns, task_operation : 0..Turns,
     task_schedule : [type : {"none", "execute", "training"},
                      by : {"none", "server", "agent", "planner", "coder"}],
     infrastructure_request : BOOLEAN, infrastructure_provisioned : BOOLEAN,
     structured_action_plan : BOOLEAN,
     coder_definition : [Check -> {"none", "ok", "bad"}],
     execution_result : {"none", "success", "failed"}]

vars == <<turn, node, etl, step, draft>>

Scheduled(s) == s.task_schedule # NoTask
HasCode(s) == s.coder_definition # NoCode
Ready(s, summarize, code) ==
    [s EXCEPT !.ready_to_summarize = summarize, !.ready_to_code = code]
NotReady(s) == Ready(s, FALSE, FALSE)
-----------------------------------------------------------------------------
(* send_message: the channels a turn starts with.  Byte routing decides     *)
(* "yes" (defer, only with a cloud copy) or "no" (whole file, local), or is *)
(* off; then the fidelity decides.                                          *)
Offloaded(f, size, cloud) == cloud /\ size = "large" /\ f # "quick_sample"

(* Mutant of Reset: structured_action_plan is kept.                         *)
KeepsActions(s) == [NotReady(s) EXCEPT !.coder_definition = NoCode,
                                       !.execution_result = "none"]
(* The channels whose new value does not depend on the turn: note that      *)
(* plan, task_operation and infrastructure_* are not among them.            *)
Reset(s) == [NotReady(s) EXCEPT !.structured_action_plan = FALSE,
                                !.coder_definition = NoCode,
                                !.execution_result = "none"]

TurnInput(s, f, size, cloud, defer) ==
    LET ray == \/ defer = "yes"
               \/ defer = "none" /\ Offloaded(f, size, cloud)
        preset == defer = "none" /\ ray /\ f = "entire_dataset" IN
    [Reset(s) EXCEPT
        !.analysis_fidelity = f, !.size = size, !.cloud = cloud,
        !.analysis_defer_required = defer,
        !.execution_mode = IF ray THEN "k8s-ray" ELSE "local",
        !.task_schedule = IF preset THEN Schedule("server") ELSE NoTask]

SendMessage ==
    /\ node = "idle" /\ turn < Turns
    /\ turn' = turn + 1
    /\ node' = "avaloka_agent"
    /\ \E f \in Fidelity, size \in Size, cloud \in BOOLEAN,
          defer \in {"none", "yes", "no"} :
        /\ defer = "yes" => cloud
        /\ defer # "none" => f = "entire_dataset"
        /\ etl' = TurnInput(etl, f, size, cloud, defer)
    /\ UNCHANGED codingVars

(* decide_execution_profile: recomputes the mode from size and fidelity,    *)
(* and schedules what is entire and remote.                                 *)
Profiled(s) ==
    LET ray == /\ s.cloud
               /\ \/ s.analysis_fidelity = "portfolio_samples"
                  \/ s.analysis_fidelity = "entire_dataset" /\ s.size # "small"
    IN [s EXCEPT
          !.execution_mode = IF ray THEN "k8s-ray" ELSE "local",
          !.task_schedule =
             IF ray /\ s.analysis_fidelity = "entire_dataset" /\ ~Scheduled(s)
               THEN Schedule("agent") ELSE @]

(* avaloka_agent_node and route_avaloka: a direct reply, or delegation to   *)
(* the planner with what _preconfigure_for_planner makes of the intent;     *)
(* the user may ask for a local run.                                        *)
AvalokaAgent ==
    /\ node = "avaloka_agent"
    /\ \/ node' = "verify_claims" /\ UNCHANGED etl
       \/ /\ node' = "plan_etl"
          /\ \E intent \in {"clarification", "analysis", "infrastructure"},
                mode \in {Profiled(etl).execution_mode, "local"} :
              etl' = [Profiled(etl) EXCEPT
                        !.execution_mode = mode,
                        !.ready_to_code = @ \/ intent = "analysis",
                        !.infrastructure_request =
                            @ \/ intent = "infrastructure"]
    /\ UNCHANGED <<turn, codingVars>>
-----------------------------------------------------------------------------
(* The planner, with its model configured (else a stub plan is made).  A    *)
(* refusal, a question or an error that ends the turn.                      *)
Reply(s) == {NotReady(s), [NotReady(s) EXCEPT !.plan = 0]}

(* What a tool call of the planner's model does to the state.               *)
Tool(s) ==
    {Ready([s EXCEPT !.plan = turn], TRUE, FALSE),              \* generate_code
     Ready(s, TRUE, FALSE),                                     \* summarize_job
     NotReady(s),                                               \* respond_to_user
     s,                                                         \* store_user_preference
     NotReady([s EXCEPT !.task_schedule = NoTask]),             \* schedule_task, no worker
     NotReady([s EXCEPT !.task_schedule = [type |-> "training", by |-> "planner"]]),
     NotReady([s EXCEPT !.task_schedule = NoTask, !.task_operation = turn]),
     NotReady([s EXCEPT !.is_dta_request = TRUE])}              \* transfers
    \cup {Ready([s EXCEPT !.task_schedule = Schedule("planner"), !.plan = p],
                FALSE, TRUE) : p \in {0, s.plan}}               \* schedule_task

(* Up to two tool calls are applied in order; deploy_infrastructure ends    *)
(* the loop.                                                                *)
Deploy(s) == NotReady([s EXCEPT !.infrastructure_request = TRUE])
ToolCalls(s) ==
    LET once == Tool(s) IN
    (once \ {s}) \cup {NotReady(s), Deploy(s)}
        \cup UNION {Tool(t) \cup {Deploy(t)} : t \in once}

(* _seed_infra_request_if_needed, and the reset of the mode.                *)
Seeded(s) ==
    IF s.execution_mode # "k8s-ray" THEN s
    ELSE IF ~s.cloud THEN [s EXCEPT !.execution_mode = "local"]
    ELSE [s EXCEPT !.infrastructure_request = @ \/ ~s.infrastructure_provisioned]

(* The fast path for a deployment, tried once per thread.                   *)
FastDeploy(s) ==
    IF s.infrastructure_provisioned \/ s.infrastructure_request THEN {}
    ELSE {[s EXCEPT !.infrastructure_request = TRUE]}

PlannerSkips(s) ==
    \/ s.ready_to_code
    \/ s.ready_to_summarize /\ s.plan # 0

PlanEtlJob(s) ==
    Reply(s) \cup
    IF PlannerSkips(s) THEN {s}
    ELSE Reply(Seeded(s)) \cup FastDeploy(Seeded(s)) \cup ToolCalls(Seeded(s))

(* route_planner_output.                                                    *)
RoutePlannerOutput(s) ==
    LET mode == IF s.analysis_fidelity = "quick_sample" THEN "local"
                ELSE s.execution_mode
        ray == mode = "k8s-ray" /\ s.cloud IN
    CASE s.is_dta_request -> "verify_claims"
      [] ~s.is_dta_request /\ s.ready_to_summarize ->
            IF s.analysis_defer_required = "yes" THEN "code_etl"
            ELSE "summarize_etl"
      [] OTHER ->
            IF \/ s.task_schedule.type = "training"
               \/ s.task_schedule.type = "execute" /\ mode = "k8s-ray"
              THEN "schedule_task"
            ELSE IF ray /\ HasCode(s) THEN "execute_on_ray"
            ELSE IF s.task_operation # 0 THEN "schedule_task"
            ELSE IF s.ready_to_code THEN "code_etl"
            ELSE IF ~s.infrastructure_provisioned /\ s.infrastructure_request
              THEN "provision_infra"
            ELSE "verify_claims"

PlanEtl ==
    /\ node = "plan_etl"
    /\ etl' \in PlanEtlJob([etl EXCEPT !.is_dta_request = FALSE])
    /\ node' = RoutePlannerOutput(etl')
    /\ UNCHANGED <<turn, codingVars>>

(* summarize_etl and generate_planner_graph.                                *)
SummarizeEtl ==
    /\ node = "summarize_etl"
    /\ node' = "code_etl"
    /\ UNCHANGED <<turn, etl, codingVars>>

(* Mutant of Provisioned: the result is not stored.                         *)
NotStored(s) == s
(* infra_agent_node stores what came of it, success or failure; the planner *)
(* then runs again.                                                         *)
Provisioned(s) == [s EXCEPT !.infrastructure_provisioned = TRUE]

ProvisionInfra ==
    /\ node = "provision_infra"
    /\ etl' = Provisioned(etl)
    /\ node' = "plan_etl"
    /\ UNCHANGED <<turn, codingVars>>
-----------------------------------------------------------------------------
(* coding_subgraph_node.                                                    *)
RouteAfterCode(s) ==
    IF s.structured_action_plan THEN "execute_actions"
    ELSE IF ~HasCode(s) THEN "verify_claims"
    ELSE IF Scheduled(s) THEN "schedule_task"
    ELSE IF s.execution_mode = "k8s-ray" THEN "execute_on_ray"
    ELSE "execute_locally"

StructuredSource(s) ==
    /\ s.analysis_defer_required # "yes"
    /\ ~Scheduled(s)
    /\ s.execution_mode # "k8s-ray"

WithoutCode(s) == [s EXCEPT !.coder_definition = NoCode]

(* Before the subgraph: a question to the user, or a plan of metrics that   *)
(* is executed without generated code.                                      *)
CodeEtlDirect ==
    /\ node = "code_etl" /\ step = "idle"
    /\ \/ etl' = WithoutCode(NotReady(etl))
       \/ /\ StructuredSource(etl)
          /\ \/ etl' = WithoutCode([NotReady(etl) EXCEPT
                                      !.structured_action_plan = FALSE])
             \/ etl' = WithoutCode([etl EXCEPT !.structured_action_plan = TRUE])
    /\ node' = RouteAfterCode(etl')
    /\ UNCHANGED <<turn, codingVars>>

CodeEtlBegin ==
    /\ node = "code_etl" /\ Begin
    /\ UNCHANGED <<turn, node, etl>>

CodingSubgraph ==
    /\ node = "code_etl" /\ CodingStep
    /\ UNCHANGED <<turn, node, etl>>

(* Where accepted code is to run: by fidelity and size, unless byte routing *)
(* decided (Policy).                                                        *)
LegacyPolicy(s) ==
    IF s.analysis_fidelity = "quick_sample"
      THEN [s EXCEPT !.execution_mode = "local"]
    ELSE IF Offloaded(s.analysis_fidelity, s.size, s.cloud)
            /\ s.analysis_fidelity = "entire_dataset"
      THEN [s EXCEPT !.execution_mode = "k8s-ray",
                     !.task_schedule = Schedule("coder")]
    ELSE s

Policy(s) ==
    CASE s.analysis_defer_required = "no" ->
            [s EXCEPT !.execution_mode = "local", !.task_schedule = NoTask]
      [] s.analysis_defer_required = "yes" ->
            IF s.cloud
              THEN [s EXCEPT !.execution_mode = "k8s-ray",
                             !.task_schedule = Schedule("coder")]
              ELSE WithoutCode([s EXCEPT !.execution_mode = "local"])
      [] OTHER -> LegacyPolicy(s)

CodeEtlEnd ==
    /\ node = "code_etl" /\ step = "done" /\ Finish
    /\ etl' = IF draft.refused \/ Failed(draft) THEN WithoutCode(etl)
              ELSE Policy([etl EXCEPT !.coder_definition = draft.verdict,
                                      !.structured_action_plan = FALSE])
    /\ node' = RouteAfterCode(etl')
    /\ UNCHANGED turn

(* The exception breaks the invocation off; the channels keep what the last *)
(* completed node left.                                                     *)
CodeEtlRaises ==
    /\ node = "code_etl" /\ step = "raised" /\ Finish
    /\ node' = "idle"
    /\ UNCHANGED <<turn, etl>>
-----------------------------------------------------------------------------
(* task_scheduler_node; the handlers talk to Redis and may raise.           *)
ScheduleTask ==
    /\ node = "schedule_task"
    /\ \/ /\ node' = "verify_claims"
          /\ etl' = NotReady([etl EXCEPT !.task_operation = 0,
                                         !.task_schedule = NoTask])
       \/ node' = "idle" /\ UNCHANGED etl
    /\ UNCHANGED <<turn, codingVars>>

RouteAfterExecution(s) ==
    IF s.execution_result = "success" THEN "visualize" ELSE "verify_claims"

Execute ==
    /\ node \in {"execute_locally", "execute_on_ray"}
    /\ \E result \in {"success", "failed"} :
        etl' = [etl EXCEPT !.execution_result = result]
    /\ node' = RouteAfterExecution(etl')
    /\ UNCHANGED <<turn, codingVars>>

ExecuteStructuredActions ==
    /\ node = "execute_actions"
    /\ \E result \in {"success", "failed"} :
        etl' = [etl EXCEPT !.execution_result = result]
    /\ node' = "verify_claims"
    /\ UNCHANGED <<turn, codingVars>>

(* visualize and narrate_result, which write no channel a router reads.     *)
Visualize ==
    /\ node = "visualize"
    /\ node' = "verify_claims"
    /\ UNCHANGED <<turn, etl, codingVars>>

VerifyClaims ==
    /\ node = "verify_claims"
    /\ node' = "idle"
    /\ UNCHANGED <<turn, etl, codingVars>>
-----------------------------------------------------------------------------
EmptyState ==
    [analysis_fidelity |-> CHOOSE f \in Fidelity : TRUE,
     size |-> CHOOSE s \in Size : TRUE, cloud |-> FALSE,
     analysis_defer_required |-> "none", execution_mode |-> "local",
     ready_to_code |-> FALSE, ready_to_summarize |-> FALSE,
     is_dta_request |-> FALSE, plan |-> 0, task_operation |-> 0,
     task_schedule |-> NoTask, infrastructure_request |-> FALSE,
     infrastructure_provisioned |-> FALSE, structured_action_plan |-> FALSE,
     coder_definition |-> NoCode, execution_result |-> "none"]

Init == turn = 0 /\ node = "idle" /\ etl = EmptyState /\ CodingInit

GraphStep ==
    \/ AvalokaAgent \/ PlanEtl \/ SummarizeEtl \/ ProvisionInfra
    \/ CodeEtlDirect \/ CodeEtlBegin \/ CodingSubgraph
    \/ CodeEtlEnd \/ CodeEtlRaises
    \/ ScheduleTask \/ Execute \/ ExecuteStructuredActions
    \/ Visualize \/ VerifyClaims

Next == SendMessage \/ GraphStep

(* LangGraph runs an invocation to its end; nobody has to send a message.   *)
Spec == Init /\ [][Next]_vars /\ WF_vars(GraphStep)
-----------------------------------------------------------------------------
(* The types; draft is only in use while code_etl runs.                     *)
TypeOK ==
    /\ turn \in 0..Turns
    /\ node \in Node
    /\ etl \in ETLState
    /\ CodingTypeOK
    /\ node # "code_etl" => step = "idle"

(* What byte routing decided before the planner holds for the whole turn:   *)
(* a deferred analysis is never executed in the request, not even by a plan *)
(* of metrics left over from an earlier turn, and one that fits in memory   *)
(* is never sent to Ray.                                                    *)
ByteRoutingKept ==
    /\ etl.analysis_defer_required = "yes" =>
            node \notin {"execute_locally", "execute_on_ray", "execute_actions"}
    /\ etl.analysis_defer_required = "no" => node # "execute_on_ray"

(* Code that is executed was accepted, in the form that runs, by every      *)
(* check, however the turn got to the execution and whatever retries,       *)
(* skipped checks and earlier turns left in the channels.                   *)
OnlyAcceptedCodeRuns ==
    node \in {"execute_locally", "execute_on_ray"}
        => Accepted(etl.coder_definition)

(* Every message gets its turn to an end: the provisioning detour does not  *)
(* go round for ever and the coder is not sent back without end.            *)
TurnEnds == (node # "idle") ~> (node = "idle")

(* planner.py:5494-5497: "one left over from an earlier turn would be coded *)
(* instead of this request".  ready_to_summarize is exempt: there the user  *)
(* may be confirming an earlier plan.                                       *)
CodesThisTurnsPlan ==
    node = "code_etl" /\ step = "coder" /\ etl.ready_to_code
        => etl.plan \in {0, turn}
=============================================================================
