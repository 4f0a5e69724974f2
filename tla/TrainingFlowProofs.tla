------------------------- MODULE TrainingFlowProofs -------------------------
(* Proofs about model training through the chat, for any datasets and any   *)
(* number of turns: what trains is a plan an earlier turn about the same    *)
(* dataset showed, once per confirmation, and a service task does its own.  *)
EXTENDS TrainingFlow, TLAPS

(* A plan that turn t may train: an earlier turn about its dataset made it. *)
Shown(p, t) == p = NoPlan \/ (p \in 1 .. t - 1 /\ asked[p] = asked[t])

(* A plan that dataset d may have.                                          *)
MadeFor(p, d) == p = NoPlan \/ (p \in 1 .. turn /\ asked[p] = d)

Confirmed(s) == s.skip_to_training \/ s.reply = "confirm"

(* The nodes of a turn up to the training agent.                            *)
Planning == {"avaloka_agent", "plan_etl", "analysis"}
Before == Planning \union {"train_models"}

(* Plans stay with their datasets, and a turn's is an earlier turn's until  *)
(* the agent has acted.                                                     *)
PlanInv ==
    /\ \A d \in Datasets : MadeFor(session[d].plan, d)
    /\ at # "idle" => turn \in 1 .. Turns /\ MadeFor(state.plan, Dataset)
    /\ at \in Before => Shown(state.plan, turn)

(* The marks of a confirmation and of the agent's schedules begin and end   *)
(* in the turn that sets them, the flags of scheduled passes apart.         *)
MarkInv ==
    /\ at \in Planning => ~Confirmed(state)
    /\ at \in Before => state.task_schedule \in {"none", "execute", "training"}

(* A state that a worker may be handed by turn t, by what it schedules.     *)
Passes(s, t) ==
    /\ s.task_schedule \in {"training", "training_now"} => Shown(s.plan, t)
    /\ s.task_schedule = "start" => s.start_scheduled
    /\ s.task_schedule = "stop" => s.stop_scheduled
    /\ s.task_schedule \in {"start", "stop"} => ~s.training_scheduled /\ HasModel(s)

TaskInv ==
    /\ at = "schedule_task" => Passes(state, turn)
    /\ \A k \in tasks :
        /\ k.turn \in 1 .. turn
        /\ Passes(k.state, k.turn)
        /\ k.state.task_schedule \notin {"none", "execute"}

(* What may still train, or be scheduled, was confirmed and not counted.    *)
MayTrain == state.training_scheduled \/ (at = "train_models" /\ Confirmed(state))
MaySchedule ==
    \/ at = "train_models" /\ Confirmed(state)
    \/ at = "schedule_task" /\ state.task_schedule = "training_now"

CountInv ==
    /\ OneRunPerConfirmation
    /\ MayTrain => trainings < confirmations
    /\ MaySchedule => schedules < confirmations

ActedInv == acted.turn <= turn /\ TrainsShownPlans /\ ServiceTasksAct

IInv == TypeOK /\ PlanInv /\ MarkInv /\ TaskInv /\ CountInv /\ ActedInv
-----------------------------------------------------------------------------
(* The planner: what it may make of a turn's state. A plan is dropped or    *)
(* kept, and nothing is confirmed or scheduled for at once.                 *)
Plans(s, u) ==
    /\ u \in State
    /\ u.plan \in {NoPlan, s.plan}
    /\ u.training_scheduled = s.training_scheduled
    /\ u.task_schedule \in {s.task_schedule, "none", "execute", "training"}
    /\ Confirmed(u) => Confirmed(s)

LEMMA PlansTransitive ==
    ASSUME NEW s, NEW u, NEW v, Plans(s, u), Plans(u, v)
    PROVE  Plans(s, v)
  BY DEF Plans

LEMMA PlansSame == ASSUME NEW s \in State PROVE Plans(s, s)
  BY DEF Plans

LEMMA AnsweredPlans == ASSUME NEW s \in State PROVE Plans(s, Answered(s))
  BY DEF Plans, Answered, State, Confirmed

LEMMA NoPlanTyped == NoPlan \in Plan
  BY TrainingFlowAssumption DEF NoPlan, Plan

LEMMA StoppedPlans == ASSUME NEW s \in State PROVE Plans(s, Stopped(s))
<1> DEFINE u == Answered(s)
<1>1. Plans(s, u)
  BY AnsweredPlans
<1>2. u \in State
  BY <1>1 DEF Plans
<1>3. Stopped(s) = [u EXCEPT !.plan = NoPlan, !.result = "none", !.completed = FALSE,
                            !.reply = "none", !.skip_to_training = FALSE, !.clear = TRUE]
  BY DEF Stopped
<1> HIDE DEF u
<1>4. Stopped(s) \in State
  BY <1>2, <1>3, NoPlanTyped DEF State
<1>5. Plans(u, Stopped(s))
  BY <1>2, <1>3, <1>4 DEF Plans, State, Confirmed
<1> QED
  BY <1>1, <1>5, PlansTransitive

LEMMA FieldPlans ==
    ASSUME NEW s \in State, NEW b \in BOOLEAN, NEW kind \in {"none", "execute", "training"}
    PROVE  /\ Plans(s, [s EXCEPT !.enable_training = b])
           /\ Plans(s, [s EXCEPT !.ready_to_code = b])
           /\ Plans(s, [s EXCEPT !.ready_to_summarize = b])
           /\ Plans(s, [s EXCEPT !.task_operation = b])
           /\ Plans(s, [s EXCEPT !.task_schedule = kind])
           /\ Plans(s, [s EXCEPT !.skip_to_training = FALSE])
           /\ Plans(s, [s EXCEPT !.reply = "none"])
<1>1. Plans(s, [s EXCEPT !.enable_training = b])
  BY DEF Plans, State, Confirmed
<1>2. Plans(s, [s EXCEPT !.ready_to_code = b])
  BY DEF Plans, State, Confirmed
<1>3. Plans(s, [s EXCEPT !.ready_to_summarize = b])
  BY DEF Plans, State, Confirmed
<1>4. Plans(s, [s EXCEPT !.task_operation = b])
  BY DEF Plans, State, Confirmed
<1>5. Plans(s, [s EXCEPT !.task_schedule = kind])
  BY DEF Plans, State, Confirmed
<1>6. Plans(s, [s EXCEPT !.skip_to_training = FALSE])
  BY DEF Plans, State, Confirmed
<1>7. Plans(s, [s EXCEPT !.reply = "none"])
  BY DEF Plans, State, Confirmed
<1> QED
  BY <1>1, <1>2, <1>3, <1>4, <1>5, <1>6, <1>7

LEMMA CalledPlans ==
    ASSUME NEW s \in State, NEW tool \in Tools
    PROVE  Plans(s, Called(tool, s))
<1> DEFINE u == Answered(s)
<1>1. Plans(s, u) /\ u \in State
  BY AnsweredPlans DEF Plans
<1>2. Plans(s, [u EXCEPT !.ready_to_summarize = TRUE])
  BY <1>1, FieldPlans, PlansTransitive
<1>3. Plans(s, [u EXCEPT !.enable_training = TRUE])
  BY <1>1, FieldPlans, PlansTransitive
<1>4. \A kind \in {"none", "execute", "training"} :
         Plans(s, [u EXCEPT !.task_schedule = kind]) /\ [u EXCEPT !.task_schedule = kind] \in State
  <2> TAKE kind \in {"none", "execute", "training"}
  <2>1. Plans(u, [u EXCEPT !.task_schedule = kind])
    BY <1>1, FieldPlans
  <2> QED
    BY <1>1, <2>1, PlansTransitive DEF Plans
<1>5. Plans(s, [u EXCEPT !.task_schedule = "execute", !.ready_to_code = TRUE])
  BY <1>4, FieldPlans, PlansTransitive
<1>6. Plans(s, [u EXCEPT !.task_schedule = "none", !.task_operation = TRUE])
  BY <1>4, FieldPlans, PlansTransitive
<1>7. Plans(s, [s EXCEPT !.ready_to_code = FALSE, !.ready_to_summarize = FALSE])
  BY FieldPlans, PlansTransitive DEF Plans
<1> HIDE DEF u
<1>8. CASE tool = "generate_code"
  BY <1>8, <1>2 DEF Called, u
<1>9. CASE tool = "respond_to_user"
  BY <1>9, <1>1 DEF Called, u
<1>10. CASE tool = "train_model"
  BY <1>10, <1>3 DEF Called, u
<1>11. CASE tool = "schedule_execute"
  BY <1>11, <1>5 DEF Called, u
<1>12. CASE tool = "schedule_training"
  BY <1>12, <1>4 DEF Called, u
<1>13. CASE tool = "no_worker"
  BY <1>13, <1>4 DEF Called, u
<1>14. CASE tool = "task_operation"
  BY <1>14, <1>6 DEF Called, u
<1>15. CASE tool = "unknown"
  BY <1>15, <1>7 DEF Called
<1> QED
  BY <1>8, <1>9, <1>10, <1>11, <1>12, <1>13, <1>14, <1>15 DEF Tools

LEMMA GatedPlans ==
    ASSUME NEW s \in State, NEW allowed \in BOOLEAN
    PROVE  Plans(s, Gated(s, allowed))
<1> DEFINE blocked == [s EXCEPT !.enable_training = FALSE, !.skip_to_training = FALSE,
                                !.reply = "none"]
<1>1. Plans(s, blocked) /\ blocked \in State
  <2> DEFINE r == [s EXCEPT !.enable_training = FALSE]
             q == [r EXCEPT !.skip_to_training = FALSE]
  <2>1. Plans(s, r) /\ r \in State
    BY FieldPlans DEF Plans
  <2>2. Plans(s, q) /\ q \in State
    <3> HIDE DEF r
    <3> QED
      BY <2>1, FieldPlans, PlansTransitive DEF Plans
  <2> HIDE DEF q
  <2>3. Plans(s, [q EXCEPT !.reply = "none"])
    BY <2>2, FieldPlans, PlansTransitive
  <2> QED
    BY <2>3 DEF Plans, q, r
<1> DEFINE r == [blocked EXCEPT !.ready_to_code = FALSE]
           rest == [r EXCEPT !.ready_to_summarize = FALSE]
<1>2. Plans(s, rest) /\ rest \in State
  <2> HIDE DEF blocked
  <2>1. Plans(s, r) /\ r \in State
    BY <1>1, FieldPlans, PlansTransitive DEF Plans
  <2> HIDE DEF r
  <2> QED
    BY <2>1, FieldPlans, PlansTransitive DEF Plans
<1>3. Plans(s, [rest EXCEPT !.task_schedule = IF @ = "training" THEN "none" ELSE @])
  <2>1. Plans(s, [rest EXCEPT !.task_schedule = "none"])
    BY <1>2, FieldPlans, PlansTransitive
  <2>2. [rest EXCEPT !.task_schedule = rest.task_schedule] = rest
    BY <1>2 DEF State
  <2> QED
    BY <1>2, <2>1, <2>2
<1> QED
  BY <1>1, <1>3, PlansSame DEF Gated

(* The gate and the router: a confirmation that passes goes to training.    *)
LEMMA PlannedLeads ==
    ASSUME NEW s \in State, Planned(s)
    PROVE  /\ Plans(s, state')
           /\ at' \in {"train_models", "analysis", "schedule_task", "save"}
           /\ (s.reply = "confirm" => s.skip_to_training) /\ at' # "train_models"
                => ~Confirmed(state')
<1>1. PICK allowed \in BOOLEAN, ray \in BOOLEAN, inference \in {"none", "phrased", "direct"} :
         state' = Gated(s, allowed) /\ at' = RoutePlanner(state', ray, inference)
  BY DEF Planned
<1>2. Plans(s, state') /\ state' \in State
  BY <1>1, GatedPlans DEF Plans
<1>3. at' \in {"train_models", "analysis", "schedule_task", "save"}
  BY <1>1 DEF RoutePlanner
<1>4. state'.skip_to_training => at' = "train_models"
  BY <1>1 DEF RoutePlanner
<1>5. (s.reply = "confirm" => s.skip_to_training)
         => (state'.reply = "confirm" => state'.skip_to_training)
  <2> DEFINE blocked == [s EXCEPT !.enable_training = FALSE, !.skip_to_training = FALSE,
                                  !.reply = "none"]
  <2>1. blocked.reply = "none"
    BY DEF State
  <2>2. [blocked EXCEPT !.ready_to_code = FALSE, !.ready_to_summarize = FALSE,
                        !.task_schedule = IF @ = "training" THEN "none" ELSE @].reply = "none"
    BY DEF State
  <2>3. \/ state' = s \/ state' = blocked
        \/ state' = [blocked EXCEPT !.ready_to_code = FALSE, !.ready_to_summarize = FALSE,
                         !.task_schedule = IF @ = "training" THEN "none" ELSE @]
    BY <1>1 DEF Gated
  <2> QED
    BY <2>1, <2>2, <2>3
<1> QED
  BY <1>2, <1>3, <1>4, <1>5 DEF Confirmed

(* A decision of the planner from a state that is as planned as the turn's. *)
LEMMA PlannerInv ==
    ASSUME IInv, at = "plan_etl", NEW s \in State, Planned(s),
           s.plan \in {NoPlan, state.plan},
           s.training_scheduled = state.training_scheduled,
           s.task_schedule \in {"none", "execute", "training"},
           UNCHANGED <<asked, session, tasks, acted, trainings, schedules>>,
           \/ ~Confirmed(s) /\ confirmations' = confirmations
           \/ s.skip_to_training /\ confirmations' = confirmations + 1
    PROVE  IInv'
<1>1. /\ Plans(s, state')
      /\ at' \in {"train_models", "analysis", "schedule_task", "save"}
      /\ at' # "train_models" => ~Confirmed(state')
  BY PlannedLeads DEF Confirmed
<1>2. /\ state' \in State
      /\ state'.plan \in {NoPlan, state.plan}
      /\ state'.training_scheduled = state.training_scheduled
      /\ state'.task_schedule \in {"none", "execute", "training"}
  BY <1>1 DEF Plans
<1>3. TypeOK'
  BY <1>1, <1>2 DEF IInv, TypeOK, turn
<1>4. PlanInv'
  BY <1>1, <1>2 DEF IInv, PlanInv, MadeFor, Shown, Dataset, turn, Before, Planning
<1>5. MarkInv'
  BY <1>1, <1>2 DEF MarkInv, Before, Planning
<1>6. TaskInv'
  BY <1>1, <1>2 DEF IInv, TaskInv, PlanInv, Passes, Shown, turn, Before, Planning
<1>7. CountInv'
  <2>1. CASE ~Confirmed(s) /\ confirmations' = confirmations
    BY <1>1, <1>2, <2>1 DEF IInv, CountInv, OneRunPerConfirmation, MayTrain, MaySchedule, Plans
  <2>2. CASE s.skip_to_training /\ confirmations' = confirmations + 1
    BY <1>1, <1>2, <2>2 DEF IInv, TypeOK, CountInv, OneRunPerConfirmation, MayTrain, MaySchedule
  <2> QED
    BY <2>1, <2>2
<1>8. ActedInv'
  BY DEF IInv, ActedInv, TrainsShownPlans, ServiceTasksAct, turn
<1> QED
  BY <1>3, <1>4, <1>5, <1>6, <1>7, <1>8 DEF IInv

LEMMA PlannerSkipsInv == IInv /\ PlannerSkips => IInv'
<1> SUFFICES ASSUME IInv, PlannerSkips PROVE IInv'
  OBVIOUS
<1>1. /\ state \in State /\ ~Confirmed(state)
      /\ state.task_schedule \in {"none", "execute", "training"}
  BY DEF PlannerSkips, IInv, TypeOK, MarkInv, Planning, Before
<1>2. Plans(state, Answered(state)) /\ Plans(state, state)
  BY <1>1, AnsweredPlans, PlansSame
<1>3. PICK s \in {state, Answered(state)} : Planned(s)
  BY DEF PlannerSkips
<1>4. Plans(state, s)
  BY <1>2, <1>3
<1> QED
  BY <1>1, <1>3, <1>4, PlannerInv DEF PlannerSkips, Plans, history

LEMMA PlannerTakesReplyInv == IInv /\ PlannerTakesReply => IInv'
<1> SUFFICES ASSUME IInv, PlannerTakesReply PROVE IInv'
  OBVIOUS
<1>1. /\ state \in State /\ ~Confirmed(state)
      /\ state.task_schedule \in {"none", "execute", "training"}
      /\ at = "plan_etl"
      /\ UNCHANGED <<asked, session, tasks, acted, trainings, schedules>>
  BY DEF PlannerTakesReply, IInv, TypeOK, MarkInv, Planning, Before
<1> DEFINE u == Answered(state)
           Replied(reply, skip) ==
               [u EXCEPT !.enable_training = TRUE, !.reply = reply, !.skip_to_training = skip]
<1>2. Plans(state, u) /\ u \in State
  BY <1>1, AnsweredPlans DEF Plans
<1>3. ASSUME NEW reply \in {"confirm", "update", "unclear"}, NEW skip \in BOOLEAN
      PROVE  LET r == Replied(reply, skip) IN
             /\ r \in State
             /\ r.plan = u.plan
             /\ r.training_scheduled = u.training_scheduled
             /\ r.task_schedule = u.task_schedule
             /\ r.reply = reply /\ r.skip_to_training = skip
  <2> HIDE DEF u
  <2> QED
    BY <1>2 DEF State
<1>4. CASE Planned(Replied("confirm", TRUE)) /\ confirmations' = confirmations + 1
  BY <1>1, <1>2, <1>3, <1>4, PlannerInv DEF Plans
<1>5. ASSUME NEW reply \in {"update", "unclear"}, Planned(Replied(reply, FALSE)),
             confirmations' = confirmations
      PROVE  IInv'
  <2> DEFINE r == Replied(reply, FALSE)
  <2>1. /\ r \in State /\ r.plan = u.plan
        /\ r.training_scheduled = u.training_scheduled
        /\ r.task_schedule = u.task_schedule
        /\ r.reply = reply /\ r.skip_to_training = FALSE
    BY <1>3
  <2>2. ~Confirmed(r)
    BY <2>1 DEF Confirmed
  <2> HIDE DEF r
  <2>3. Planned(r)
    BY <1>5 DEF r
  <2> QED
    BY <1>1, <1>2, <1>5, <2>1, <2>2, <2>3, PlannerInv DEF Plans
<1>6. CASE Planned(Stopped(state)) /\ confirmations' = confirmations
  <2>1. Plans(state, Stopped(state))
    BY <1>1, StoppedPlans
  <2> QED
    BY <1>1, <2>1, <1>6, PlannerInv DEF Plans
<1> QED
  BY <1>4, <1>5, <1>6 DEF PlannerTakesReply

LEMMA PlannerDecidesInv == IInv /\ PlannerDecides => IInv'
<1> SUFFICES ASSUME IInv, PlannerDecides PROVE IInv'
  OBVIOUS
<1>1. /\ state \in State /\ ~Confirmed(state)
      /\ state.task_schedule \in {"none", "execute", "training"}
  BY DEF PlannerDecides, IInv, TypeOK, MarkInv, Planning, Before
<1>2. PICK s \in {state, Stopped(state)} :
          \/ Planned(Answered(s))
          \/ Planned([Called("train_model", s) EXCEPT !.skip_to_training = FALSE, !.reply = "none"])
          \/ Planned([s EXCEPT !.ready_to_summarize = TRUE, !.ready_to_code = FALSE])
          \/ Planned([s EXCEPT !.ready_to_code = TRUE, !.ready_to_summarize = FALSE])
          \/ \E first, second \in Tools : Planned(Called(second, Called(first, s)))
  BY DEF PlannerDecides
<1>3. Plans(state, s) /\ s \in State
  <2>1. Plans(state, state) /\ Plans(state, Stopped(state))
    BY <1>1, PlansSame, StoppedPlans
  <2> QED
    BY <1>2, <2>1 DEF Plans
<1>4. ASSUME NEW v, Plans(s, v), Planned(v) PROVE IInv'
  <2>1. Plans(state, v)
    BY <1>3, <1>4, PlansTransitive
  <2> QED
    BY <1>1, <1>4, <2>1, PlannerInv DEF PlannerDecides, Plans, history
<1>5. Plans(s, Answered(s))
  BY <1>3, AnsweredPlans
<1>6. Plans(s, [Called("train_model", s) EXCEPT !.skip_to_training = FALSE, !.reply = "none"])
  <2> DEFINE c == Called("train_model", s)
             r == [c EXCEPT !.skip_to_training = FALSE]
  <2>1. Plans(s, c) /\ c \in State
    BY <1>3, CalledPlans DEF Plans, Tools
  <2> HIDE DEF c
  <2>2. Plans(s, r) /\ r \in State
    BY <2>1, FieldPlans, PlansTransitive DEF Plans
  <2> HIDE DEF r
  <2>3. Plans(s, [r EXCEPT !.reply = "none"])
    BY <2>2, FieldPlans, PlansTransitive
  <2> QED
    BY <2>3 DEF r, c
<1>7. /\ Plans(s, [s EXCEPT !.ready_to_summarize = TRUE, !.ready_to_code = FALSE])
      /\ Plans(s, [s EXCEPT !.ready_to_code = TRUE, !.ready_to_summarize = FALSE])
  <2> DEFINE q == [s EXCEPT !.ready_to_summarize = TRUE]
             r == [s EXCEPT !.ready_to_code = TRUE]
  <2>1. Plans(s, q) /\ q \in State /\ Plans(s, r) /\ r \in State
    BY <1>3, FieldPlans DEF Plans
  <2> HIDE DEF q, r
  <2>2. Plans(s, [q EXCEPT !.ready_to_code = FALSE]) /\ Plans(s, [r EXCEPT !.ready_to_summarize = FALSE])
    BY <2>1, FieldPlans, PlansTransitive
  <2> QED
    BY <2>2 DEF q, r
<1>8. \A first, second \in Tools : Plans(s, Called(second, Called(first, s)))
  <2> TAKE first, second \in Tools
  <2>1. Plans(s, Called(first, s)) /\ Called(first, s) \in State
    BY <1>3, CalledPlans DEF Plans
  <2> QED
    BY <2>1, CalledPlans, PlansTransitive
<1> QED
  BY <1>2, <1>4, <1>5, <1>6, <1>7, <1>8
-----------------------------------------------------------------------------
(* The training agent.                                                      *)
Result == [state : State, did : SUBSET {"train", "start", "stop"}]

LEMMA OutcomeTyped ==
    ASSUME NEW s \in State, NEW did \in SUBSET {"train", "start", "stop"}
    PROVE  /\ Outcome(s, did) \in Result
           /\ Outcome(s, did).state = s /\ Outcome(s, did).did = did
  BY DEF Outcome, Result

LEMMA FinishDoes ==
    ASSUME NEW s \in State
    PROVE  /\ Finish(s) \in State
           /\ Finish(s).plan = s.plan
           /\ ~Finish(s).training_scheduled
           /\ Finish(s).task_schedule = "none"
           /\ Finish(s).start_scheduled = s.start_scheduled
           /\ Finish(s).stop_scheduled = s.stop_scheduled
  BY DEF Finish, State

LEMMA FinishedFrom ==
    ASSUME NEW outcomes \in SUBSET Result, NEW o \in Finished(outcomes)
    PROVE  \E u \in outcomes : o \in Result /\ o.state = Finish(u.state) /\ o.did = u.did
<1>1. PICK u \in outcomes : o = [u EXCEPT !.state = Finish(@)]
  BY DEF Finished
<1>2. u \in Result /\ u.state \in State
  BY DEF Result
<1> QED
  BY <1>1, <1>2, FinishDoes DEF Result

(* A training is of the plan there was; one for Ray is scheduled first.     *)
LEMMA ExecuteTrainingDoes ==
    ASSUME NEW s \in State, NEW o \in ExecuteTraining(s)
    PROVE  /\ o \in Result /\ o.state.plan = s.plan
           /\ "train" \in o.did => s.plan # NoPlan /\ ~o.state.training_scheduled
           /\ o.state.training_scheduled =>
                 ~s.training_scheduled /\ o.state.task_schedule = "training_now"
           /\ "start" \notin o.did /\ "stop" \notin o.did
<1> DEFINE
      Done(u, did) ==
          /\ u \in State /\ u.plan = s.plan
          /\ u.training_scheduled => ~s.training_scheduled /\ u.task_schedule = "training_now"
          /\ did \in {{}, {"train"}}
          /\ "train" \in did => s.plan # NoPlan /\ ~u.training_scheduled
<1>1. \E u, did : o = Outcome(u, did) /\ Done(u, did)
  <2>1. Done(Finish(s), {})
    BY FinishDoes
  <2>2. Done(Finish([s EXCEPT !.completed = FALSE]), {})
    <3>1. [s EXCEPT !.completed = FALSE] \in State /\ [s EXCEPT !.completed = FALSE].plan = s.plan
      BY DEF State
    <3> QED
      BY <3>1, FinishDoes
  <2>3. s.plan # NoPlan =>
          Done([s EXCEPT !.result = "model", !.mlflow_run = TRUE,
                         !.training_scheduled = FALSE, !.completed = TRUE], {"train"})
    BY DEF State
  <2>4. s.plan # NoPlan =>
          Done([s EXCEPT !.result = "failed", !.training_scheduled = FALSE,
                         !.completed = FALSE], {"train"})
    BY DEF State
  <2>5. s.plan # NoPlan => Done(Finish(s), {"train"})
    BY FinishDoes
  <2>6. ~s.training_scheduled =>
          Done([s EXCEPT !.task_schedule = "training_now", !.training_scheduled = TRUE], {})
    BY DEF State
  <2> HIDE DEF Done
  <2>7. CASE s.plan = NoPlan
    BY <2>7, <2>1 DEF ExecuteTraining
  <2>8. CASE s.plan # NoPlan /\ s.training_scheduled
    BY <2>8, <2>2, <2>3, <2>4, <2>5 DEF ExecuteTraining, Trained
  <2>9. CASE s.plan # NoPlan /\ ~s.training_scheduled
    BY <2>9, <2>2, <2>3, <2>4, <2>5, <2>6 DEF ExecuteTraining, Trained
  <2> QED
    BY <2>7, <2>8, <2>9
<1>2. PICK u, did : o = Outcome(u, did) /\ Done(u, did)
  BY <1>1
<1> QED
  BY <1>2, OutcomeTyped

(* A service is started or stopped on the second pass.                      *)
LEMMA ServiceDoes ==
    ASSUME NEW s \in State,
           NEW o \in {ConfigureService(s), StopService(s)}
    PROVE  /\ o \in Result /\ o.state.plan = s.plan
           /\ o.did \in {{}, {"start"}, {"stop"}}
           /\ o.state.training_scheduled => s.training_scheduled
           /\ \/ o.state.task_schedule = "none"
              \/ o.state.task_schedule = "start" /\ o.state.start_scheduled
              \/ o.state.task_schedule = "stop" /\ o.state.stop_scheduled
           /\ o.state.task_schedule # "none" => HasModel(o.state)
<1>1. CASE ~HasModel(s)
  BY <1>1, FinishDoes, OutcomeTyped DEF ConfigureService, StopService
<1> DEFINE start == [s EXCEPT !.task_schedule = "start", !.start_scheduled = TRUE]
           stop == [s EXCEPT !.task_schedule = "stop", !.stop_scheduled = TRUE]
           started == [s EXCEPT !.start_scheduled = FALSE]
           stopped == [s EXCEPT !.stop_scheduled = FALSE]
<1>2. /\ start \in State /\ start.plan = s.plan /\ start.task_schedule = "start"
      /\ start.start_scheduled /\ start.training_scheduled = s.training_scheduled
      /\ HasModel(s) => HasModel(start)
  BY DEF State, HasModel
<1>3. /\ stop \in State /\ stop.plan = s.plan /\ stop.task_schedule = "stop"
      /\ stop.stop_scheduled /\ stop.training_scheduled = s.training_scheduled
      /\ HasModel(s) => HasModel(stop)
  BY DEF State, HasModel
<1>4. /\ started \in State /\ started.plan = s.plan
      /\ stopped \in State /\ stopped.plan = s.plan
  BY DEF State
<1> HIDE DEF start, stop, started, stopped
<1>5. CASE HasModel(s) /\ o = ConfigureService(s)
  <2>1. o \in {Outcome(start, {}), Outcome(Finish(started), {"start"})}
    BY <1>5 DEF ConfigureService, start, started
  <2> QED
    BY <1>2, <1>4, <1>5, <2>1, FinishDoes, OutcomeTyped
<1>6. CASE HasModel(s) /\ o = StopService(s)
  <2>1. o \in {Outcome(stop, {}), Outcome(Finish(stopped), {"stop"})}
    BY <1>6 DEF StopService, stop, stopped
  <2> QED
    BY <1>3, <1>4, <1>6, <2>1, FinishDoes, OutcomeTyped
<1> QED
  BY <1>1, <1>5, <1>6

LEMMA PlanMade ==
    ASSUME NEW s \in State, NEW t \in 1 .. Turns,
           NEW g \in GeneratePlan(s, t) \union UpdatePlan(s, t)
    PROVE  /\ g \in State /\ g.plan \in {NoPlan, s.plan, t}
           /\ g.training_scheduled = s.training_scheduled
           /\ g.start_scheduled = s.start_scheduled
           /\ g.stop_scheduled = s.stop_scheduled
           /\ g.task_schedule = s.task_schedule
           /\ g.result = s.result /\ g.mlflow_run = s.mlflow_run
<1>1. t \in Plan
  BY TrainingFlowAssumption DEF Plan
<1>2. \A p \in {NoPlan, t} :
        LET n == [s EXCEPT !.plan = p, !.completed = FALSE] IN
        /\ n \in State /\ n.plan = p
        /\ n.training_scheduled = s.training_scheduled
        /\ n.start_scheduled = s.start_scheduled
        /\ n.stop_scheduled = s.stop_scheduled
        /\ n.task_schedule = s.task_schedule
        /\ n.result = s.result /\ n.mlflow_run = s.mlflow_run
  <2> TAKE p \in {NoPlan, t}
  <2>1. p \in Plan
    BY <1>1, NoPlanTyped
  <2> QED
    BY <2>1 DEF State
<1>3. g = s \/ \E p \in {NoPlan, t} : g = [s EXCEPT !.plan = p, !.completed = FALSE]
  BY DEF GeneratePlan, UpdatePlan
<1> QED
  BY <1>2, <1>3

(* What the agent has done between two tools of the LLM's answer: nothing   *)
(* trained, and a schedule is a service's.                                  *)
Midway(s, t, o) ==
    /\ o \in Result
    /\ o.state.plan \in {NoPlan, s.plan, t}
    /\ ~o.state.training_scheduled
    /\ "train" \notin o.did
    /\ o.state.start_scheduled \/ o.state.stop_scheduled
         => o.state.task_schedule \in {"none", "start", "stop"}
    /\ o.state.task_schedule = "start" => o.state.start_scheduled
    /\ o.state.task_schedule = "stop" => o.state.stop_scheduled
    /\ o.state.task_schedule \in {"start", "stop"} => HasModel(o.state)

LEMMA ThenMidway ==
    ASSUME NEW s, NEW t, NEW o, NEW next, Midway(s, t, o), Midway(s, t, next)
    PROVE  Midway(s, t, Outcome(next.state, o.did \union next.did))
<1>1. next.state \in State /\ o.did \union next.did \in SUBSET {"train", "start", "stop"}
  BY DEF Midway, Result
<1> QED
  BY <1>1, OutcomeTyped DEF Midway

LEMMA CallToolMidway ==
    ASSUME NEW s, NEW t \in 1 .. Turns, NEW o, Midway(s, t, o),
           NEW tool \in AgentTools, NEW p \in CallTool(tool, o, t)
    PROVE  Midway(s, t, p)
<1>1. o \in Result /\ o.state \in State
  BY DEF Midway, Result
<1> DEFINE Then(next) == Outcome(next.state, o.did \union next.did)
<1>2. ASSUME NEW next, Midway(s, t, next) PROVE Midway(s, t, Then(next))
  BY <1>2, ThenMidway
<1>3. CASE tool = "generate_training_plan"
  <2>1. PICK g \in GeneratePlan(o.state, t) : p = Then(Outcome(g, {}))
    BY <1>3 DEF CallTool
  <2>2. Midway(s, t, Outcome(g, {}))
    BY <1>1, <2>1, PlanMade, OutcomeTyped DEF Midway, HasModel
  <2> QED
    BY <1>2, <2>1, <2>2
<1>4. CASE tool = "review_code_repo"
  BY <1>4 DEF CallTool
<1>5. CASE tool = "execute_inference"
  <2>1. PICK next \in ExecuteInference(o.state) : p = Then(next)
    BY <1>5 DEF CallTool
  <2>2. Midway(s, t, next)
    BY <1>1, <2>1, FinishDoes, OutcomeTyped DEF ExecuteInference, Midway
  <2> QED
    BY <1>2, <2>1, <2>2
<1>6. ASSUME NEW next \in {ConfigureService(o.state), StopService(o.state)}, p = Then(next)
      PROVE  Midway(s, t, p)
  <2>1. Midway(s, t, next)
    BY <1>1, <1>6, ServiceDoes DEF Midway
  <2> QED
    BY <1>2, <1>6, <2>1
<1>7. CASE tool = "configure_inference_service"
  BY <1>6, <1>7 DEF CallTool
<1>8. CASE tool = "stop_inference_service"
  BY <1>6, <1>8 DEF CallTool
<1> QED
  BY <1>3, <1>4, <1>5, <1>7, <1>8 DEF AgentTools

(* What one call of the agent may do in turn t, begun with state s.         *)
Trainable(s) == s.plan # NoPlan /\ (s.training_scheduled \/ Confirmed(s))

Acts(s, t, o) ==
    /\ o \in Result
    /\ o.state.plan \in {NoPlan, s.plan, t}
    /\ "train" \in o.did =>
          Trainable(s) /\ o.state.plan = s.plan /\ ~o.state.training_scheduled
    /\ o.state.training_scheduled => ~s.training_scheduled /\ Confirmed(s)
    /\ \/ o.state.task_schedule = "none"
       \/ o.state.task_schedule = "start" /\ o.state.start_scheduled
       \/ o.state.task_schedule = "stop" /\ o.state.stop_scheduled
       \/ o.state.task_schedule = "training_now" /\ o.state.plan = s.plan /\ Confirmed(s)
    /\ o.state.task_schedule \in {"start", "stop"} =>
          ~o.state.training_scheduled /\ HasModel(o.state)

(* A call that finishes leaves no flag of a pass.                           *)
LEMMA FinishedActs ==
    ASSUME NEW s, NEW t, NEW u \in Result, NEW o \in Result,
           u.state.plan \in {NoPlan, s.plan, t},
           "train" \in u.did => Trainable(s) /\ u.state.plan = s.plan,
           o.state = Finish(u.state), o.did = u.did
    PROVE  Acts(s, t, o)
<1>1. u.state \in State
  BY DEF Result
<1> QED
  BY <1>1, FinishDoes DEF Acts

LEMMA FinishedOne ==
    ASSUME NEW o \in Result
    PROVE  /\ [o EXCEPT !.state = Finish(@)] \in Result
           /\ [o EXCEPT !.state = Finish(@)].state = Finish(o.state)
           /\ [o EXCEPT !.state = Finish(@)].did = o.did
<1>1. o.state \in State
  BY DEF Result
<1> QED
  BY <1>1, FinishDoes DEF Result

(* A call that ends without an answer leaves the plan as it is.             *)
LEMMA ShownActs ==
    ASSUME NEW s \in State, NEW t \in 1 .. Turns, NEW G \in SUBSET State,
           \A g \in G : g.plan \in {NoPlan, s.plan, t},
           NEW o \in Finished({Outcome(g, {}) : g \in G})
    PROVE  Acts(s, t, o)
<1>1. {Outcome(g, {}) : g \in G} \in SUBSET Result
  BY OutcomeTyped
<1>2. PICK u \in {Outcome(g, {}) : g \in G} :
         o \in Result /\ o.state = Finish(u.state) /\ o.did = u.did
  BY <1>1, FinishedFrom
<1>3. PICK g \in G : u = Outcome(g, {})
  BY <1>2
<1>4. u \in Result /\ u.state = g /\ u.did = {}
  BY <1>3, OutcomeTyped
<1> QED
  BY <1>2, <1>4, FinishedActs

LEMMA ToolCallsAct ==
    ASSUME NEW s \in State, NEW t \in 1 .. Turns,
           ~s.training_scheduled, ~s.start_scheduled, ~s.stop_scheduled,
           s.task_schedule \in {"none", "execute", "training"},
           NEW o \in ToolCalls(s, t)
    PROVE  Acts(s, t, o)
<1> DEFINE tools == IF s.plan = NoPlan THEN AgentTools \ {"generate_training_plan"} ELSE AgentTools
           once == UNION {CallTool(first, Outcome(s, {}), t) : first \in tools}
           done == UNION {CallTool(second, c, t) : c \in once, second \in tools}
           G == {s} \union UpdatePlan(s, t)
                \union (IF s.plan = NoPlan THEN GeneratePlan(s, t) ELSE {})
<1>1. CASE o \in Finished({Outcome(g, {}) : g \in G})
  <2>1. G \in SUBSET State /\ \A g \in G : g.plan \in {NoPlan, s.plan, t}
    BY PlanMade
  <2> HIDE DEF G
  <2> QED
    BY <1>1, <2>1, ShownActs
<1>2. ASSUME NEW c \in done,
             o = IF c.state.training_scheduled \/ c.state.start_scheduled \/ c.state.stop_scheduled
                 THEN c ELSE [c EXCEPT !.state = Finish(@)]
      PROVE  Acts(s, t, o)
  <2>1. Midway(s, t, Outcome(s, {}))
    BY OutcomeTyped DEF Midway
  <2>2. \A b \in once : Midway(s, t, b)
    BY <2>1, CallToolMidway
  <2>3. Midway(s, t, c)
    BY <2>2, CallToolMidway
  <2>4. CASE c.state.start_scheduled \/ c.state.stop_scheduled
    BY <1>2, <2>3, <2>4 DEF Midway, Acts
  <2>5. CASE ~c.state.start_scheduled /\ ~c.state.stop_scheduled
    <3>1. o = [c EXCEPT !.state = Finish(@)] /\ c \in Result
      BY <1>2, <2>3, <2>5 DEF Midway
    <3>2. o \in Result /\ o.state = Finish(c.state) /\ o.did = c.did
      BY <3>1, FinishedOne
    <3> HIDE DEF done
    <3> QED
      BY <2>3, <3>1, <3>2, FinishedActs DEF Midway
  <2> QED
    BY <2>4, <2>5
<1>3. {Outcome(g, {}) : g \in G} =
         {Outcome(s, {})} \union {Outcome(u, {}) : u \in UpdatePlan(s, t)}
         \union IF s.plan = NoPlan THEN {Outcome(g, {}) : g \in GeneratePlan(s, t)} ELSE {}
  OBVIOUS
<1> DEFINE asking == {Outcome(s, {})}
                     \union {Outcome(u, {}) : u \in UpdatePlan(s, t)}
                     \union IF s.plan = NoPlan THEN {Outcome(g, {}) : g \in GeneratePlan(s, t)} ELSE {}
           last == {IF c.state.training_scheduled \/ c.state.start_scheduled \/ c.state.stop_scheduled
                    THEN c ELSE [c EXCEPT !.state = Finish(@)] : c \in done}
<1>4. o \in Finished(asking) \union last
  BY DEF ToolCalls
<1>5. \/ o \in Finished({Outcome(g, {}) : g \in G})
      \/ \E c \in done :
            o = IF c.state.training_scheduled \/ c.state.start_scheduled \/ c.state.stop_scheduled
                THEN c ELSE [c EXCEPT !.state = Finish(@)]
  <2> HIDE DEF done, G
  <2>1. asking = {Outcome(g, {}) : g \in G}
    BY <1>3
  <2> QED
    BY <1>4, <2>1
<1> QED
  BY <1>1, <1>2, <1>5

LEMMA InteractiveActs ==
    ASSUME NEW s \in State, NEW t \in 1 .. Turns,
           ~s.training_scheduled, ~s.start_scheduled, ~s.stop_scheduled,
           s.task_schedule \in {"none", "execute", "training"},
           NEW o \in Interactive(s, t)
    PROVE  Acts(s, t, o)
<1>1. CASE o \in Finished({Outcome(s, {})})
  <2>1. {Outcome(s, {})} = {Outcome(g, {}) : g \in {s}}
    OBVIOUS
  <2> QED
    BY <1>1, <2>1, ShownActs
<1>2. CASE o \in Finished({Outcome(u, {}) : u \in UpdatePlan(s, t)})
  <2>1. UpdatePlan(s, t) \in SUBSET State /\ \A u \in UpdatePlan(s, t) : u.plan \in {NoPlan, s.plan, t}
    BY PlanMade
  <2> QED
    BY <1>2, <2>1, ShownActs
<1>3. ASSUME Confirmed(s), NEW c \in ExecuteTraining(s),
             o = IF c.state.training_scheduled THEN c ELSE [c EXCEPT !.state = Finish(@)]
      PROVE  Acts(s, t, o)
  <2>1. /\ c \in Result /\ c.state.plan = s.plan
        /\ "train" \in c.did => s.plan # NoPlan /\ ~c.state.training_scheduled
        /\ c.state.training_scheduled => c.state.task_schedule = "training_now"
    BY <1>3, ExecuteTrainingDoes
  <2>2. CASE c.state.training_scheduled
    BY <1>3, <2>1, <2>2 DEF Acts
  <2>3. CASE ~c.state.training_scheduled
    <3>1. o = [c EXCEPT !.state = Finish(@)]
      BY <1>3, <2>3
    <3>2. o \in Result /\ o.state = Finish(c.state) /\ o.did = c.did
      BY <2>1, <3>1, FinishedOne
    <3> QED
      BY <1>3, <2>1, <3>2, FinishedActs DEF Trainable
  <2> QED
    BY <2>2, <2>3
<1>4. ASSUME NEW c \in {ConfigureService(s), StopService(s)},
             o = IF c.state.task_schedule # "none" THEN c ELSE [c EXCEPT !.state = Finish(@)]
      PROVE  Acts(s, t, o)
  <2>1. /\ c \in Result /\ c.state.plan = s.plan /\ "train" \notin c.did
        /\ ~c.state.training_scheduled
    BY ServiceDoes
  <2>2. CASE c.state.task_schedule # "none"
    BY <1>4, <2>1, <2>2, ServiceDoes DEF Acts
  <2>3. CASE c.state.task_schedule = "none"
    <3>1. o = [c EXCEPT !.state = Finish(@)]
      BY <1>4, <2>3
    <3>2. o \in Result /\ o.state = Finish(c.state) /\ o.did = c.did
      BY <2>1, <3>1, FinishedOne
    <3> QED
      BY <2>1, <3>2, FinishedActs
  <2> QED
    BY <2>2, <2>3
<1> DEFINE shown == Finished({Outcome(s, {})})
           updated == Finished({Outcome(u, {}) : u \in UpdatePlan(s, t)})
           trained == {IF c.state.training_scheduled THEN c
                       ELSE [c EXCEPT !.state = Finish(@)] : c \in ExecuteTraining(s)}
           served == {IF c.state.task_schedule # "none" THEN c
                      ELSE [c EXCEPT !.state = Finish(@)] :
                         c \in {ConfigureService(s), StopService(s)}}
<1>5. \/ o \in shown \union updated
      \/ Confirmed(s) /\ o \in trained
      \/ o \in served
      \/ o \in ToolCalls(s, t)
  BY DEF Interactive, Confirmed
<1>6. CASE o \in ToolCalls(s, t)
  BY <1>6, ToolCallsAct
<1> QED
  BY <1>1, <1>2, <1>3, <1>4, <1>5, <1>6

(* A turn's call: it meets no task of a service, only leftover flags.       *)
LEMMA ExecuteActs ==
    ASSUME NEW s \in State, NEW t \in 1 .. Turns,
           s.task_schedule \in {"none", "execute", "training"},
           NEW o \in Execute(s, t)
    PROVE  Acts(s, t, o)
<1>1. CASE s.training_scheduled
  <2>1. o \in Finished(ExecuteTraining(s)) /\ ExecuteTraining(s) \in SUBSET Result
    BY <1>1, ExecuteTrainingDoes DEF Execute
  <2>2. PICK u \in ExecuteTraining(s) : o \in Result /\ o.state = Finish(u.state) /\ o.did = u.did
    BY <2>1, FinishedFrom
  <2>3. /\ u \in Result /\ u.state.plan = s.plan
        /\ "train" \in u.did => Trainable(s)
    BY <1>1, ExecuteTrainingDoes DEF Trainable
  <2> QED
    BY <2>2, <2>3, FinishedActs
<1>2. CASE ~s.training_scheduled /\ (s.start_scheduled \/ s.stop_scheduled)
  <2> DEFINE c == [s EXCEPT !.start_scheduled = FALSE, !.stop_scheduled = FALSE,
                            !.task_schedule = "none"]
  <2>1. /\ c \in State /\ c.plan = s.plan
        /\ ~c.start_scheduled /\ ~c.stop_scheduled /\ c.task_schedule = "none"
        /\ c.training_scheduled = s.training_scheduled
        /\ c.skip_to_training = s.skip_to_training /\ c.reply = s.reply
    BY DEF State
  <2>2. o \in Interactive(c, t)
    BY <1>2 DEF Execute
  <2> HIDE DEF c
  <2>3. Acts(c, t, o)
    BY <1>2, <2>1, <2>2, InteractiveActs
  <2> QED
    BY <2>1, <2>3 DEF Acts, Trainable, Confirmed
<1>3. CASE ~s.training_scheduled /\ ~s.start_scheduled /\ ~s.stop_scheduled
  BY <1>3, InteractiveActs DEF Execute
<1> QED
  BY <1>1, <1>2, <1>3

(* A worker's call.                                                         *)
LEMMA WorkerActs ==
    ASSUME NEW k \in Task, Passes(k.state, k.turn),
           k.state.task_schedule \notin {"none", "execute"},
           NEW o \in Execute(WorkerState(k), k.turn)
    PROVE  /\ o \in Result
           /\ "train" \in o.did =>
                 /\ k.state.task_schedule \in {"training", "training_now"}
                 /\ o.state.plan = k.state.plan /\ k.state.plan # NoPlan
           /\ k.state.task_schedule \in {"start", "stop"} => o.did = {k.state.task_schedule}
<1> DEFINE s == k.state
<1>1. s \in State /\ k.turn \in 1 .. Turns
  BY DEF Task
<1>2. CASE s.task_schedule \in {"training", "training_now"}
  <2> DEFINE w == [s EXCEPT !.task_schedule = "none", !.training_scheduled = TRUE]
  <2>1. w \in State /\ w.training_scheduled /\ w.plan = s.plan
    BY <1>1 DEF State
  <2>2. WorkerState(k) = w
    BY <1>2 DEF WorkerState
  <2> HIDE DEF w
  <2>3. o \in Finished(ExecuteTraining(w)) /\ ExecuteTraining(w) \in SUBSET Result
    BY <2>1, <2>2, ExecuteTrainingDoes DEF Execute
  <2>4. PICK u \in ExecuteTraining(w) : o \in Result /\ o.state = Finish(u.state) /\ o.did = u.did
    BY <2>3, FinishedFrom
  <2>5. u.state \in State /\ u.state.plan = w.plan /\ ("train" \in u.did => w.plan # NoPlan)
    BY <2>1, ExecuteTrainingDoes DEF Result
  <2> QED
    BY <1>2, <2>1, <2>4, <2>5, FinishDoes
<1>3. CASE s.task_schedule \in {"start", "stop"}
  <2>1. WorkerState(k) = s /\ ~s.training_scheduled /\ HasModel(s)
    BY <1>3 DEF WorkerState, Passes
  <2> DEFINE c == IF s.task_schedule = "start" THEN ConfigureService(s) ELSE StopService(s)
  <2>2. Execute(s, k.turn) = Finished({c})
    BY <1>3, <2>1 DEF Execute, Passes
  <2>3. c \in Result
    BY <1>1, ServiceDoes
  <2>4. c.did = {s.task_schedule}
    <3>1. c.did = IF s.task_schedule = "start" THEN {"start"} ELSE {"stop"}
      BY <1>3, <2>1 DEF Passes, ConfigureService, StopService, Outcome
    <3> QED
      BY <1>3, <3>1
  <2> HIDE DEF c
  <2>5. o \in Result /\ o.did = c.did
    BY <2>1, <2>2, <2>3, FinishedFrom
  <2> QED
    BY <1>3, <2>4, <2>5
<1> QED
  BY <1>1, <1>2, <1>3 DEF State
-----------------------------------------------------------------------------
LEMMA InitInv == Init => IInv
<1> SUFFICES ASSUME Init PROVE IInv
  OBVIOUS
<1>1. turn = 0 /\ asked \in Seq(Datasets)
  BY DEF Init, turn
<1>2. Blank \in State /\ NoSession \in Session
  BY NoPlanTyped DEF Blank, State, NoSession, Session
<1>3. TypeOK
  BY <1>1, <1>2, NoPlanTyped, TrainingFlowAssumption DEF Init, TypeOK, Nothing
<1>4. PlanInv /\ MarkInv /\ TaskInv
  BY DEF Init, PlanInv, MarkInv, TaskInv, MadeFor, NoSession, Before, Planning
<1>5. CountInv
  BY DEF Init, CountInv, OneRunPerConfirmation, MayTrain, MaySchedule, Blank
<1>6. ActedInv
  BY <1>1 DEF Init, ActedInv, Nothing, TrainsShownPlans, ServiceTasksAct
<1> QED
  BY <1>3, <1>4, <1>5, <1>6 DEF IInv

(* A new turn: the plan it is seeded with is an earlier turn's.             *)
LEMMA SendMessageInv == ASSUME IInv, NEW d \in Datasets, SendMessage(d) PROVE IInv'
<1>1. /\ asked' \in Seq(Datasets) /\ turn' = turn + 1 /\ asked'[turn + 1] = d
      /\ \A i \in 1 .. turn : asked'[i] = asked[i]
      /\ turn' \in 1 .. Turns /\ turn \in 0 .. Turns /\ turn \in Nat
  BY TrainingFlowAssumption DEF SendMessage, IInv, TypeOK, turn
<1>2. /\ state' \in State
      /\ state'.plan = session[d].plan
      /\ ~Confirmed(state') /\ state'.task_schedule = "none"
      /\ state'.training_scheduled = state.training_scheduled
  <2>1. session[d] \in Session /\ state \in State
    BY DEF IInv, TypeOK
  <2>2. state' = Seed(d)
    BY DEF SendMessage
  <2>3. Seed(d) \in State
    BY <2>1 DEF Seed, Session, State
  <2>4. /\ Seed(d).plan = session[d].plan /\ Seed(d).task_schedule = "none"
        /\ Seed(d).training_scheduled = state.training_scheduled
    BY <2>1 DEF Seed, State
  <2>5. Seed(d).reply = "none" /\ ~Seed(d).skip_to_training
    BY <2>1 DEF Seed, State
  <2> QED
    BY <2>2, <2>3, <2>4, <2>5 DEF Confirmed
<1>3. TypeOK'
  BY <1>1, <1>2, TrainingFlowAssumption DEF SendMessage, IInv, TypeOK, history
<1>4. PlanInv'
  <2>1. \A e \in Datasets : MadeFor(session[e].plan, e)'
    <3>1. \A e \in Datasets : \/ session[e].plan = NoPlan
                              \/ session[e].plan \in 1 .. turn /\ asked[session[e].plan] = e
      BY DEF IInv, PlanInv, MadeFor
    <3>2. \A e \in Datasets : \/ session[e].plan = NoPlan
                              \/ session[e].plan \in 1 .. turn' /\ asked'[session[e].plan] = e
      BY <1>1, <3>1
    <3>3. session' = session
      BY DEF SendMessage
    <3> QED
      BY <3>2, <3>3 DEF MadeFor
  <2>2. Shown(state.plan, turn)' /\ MadeFor(state.plan, Dataset)'
    BY <1>1, <1>2 DEF IInv, PlanInv, MadeFor, Shown, Dataset
  <2> QED
    BY <1>1, <2>1, <2>2 DEF PlanInv
<1>5. MarkInv' /\ CountInv'
  BY <1>2 DEF SendMessage, IInv, CountInv, MarkInv, OneRunPerConfirmation, MayTrain, MaySchedule,
              history, Before
<1>6. TaskInv'
  <2>1. \A k \in tasks : Passes(k.state, k.turn)'
    BY <1>1 DEF IInv, TaskInv, Passes, Shown
  <2> QED
    BY <1>1, <2>1 DEF SendMessage, IInv, TaskInv
<1>7. ActedInv'
  <2>1. acted' = acted /\ acted.turn \in Nat /\ acted.turn <= turn
    BY TrainingFlowAssumption DEF SendMessage, IInv, TypeOK, ActedInv
  <2>2. "train" \in acted.did => acted.plan \in 1 .. acted.turn - 1 /\ asked[acted.plan] = asked[acted.turn]
    BY DEF IInv, ActedInv, TrainsShownPlans
  <2>3. "train" \in acted.did => acted.plan \in 1 .. turn /\ acted.turn \in 1 .. turn
    BY <1>1, <2>1, <2>2
  <2>4. TrainsShownPlans'
    BY <1>1, <2>1, <2>2, <2>3 DEF TrainsShownPlans
  <2> QED
    BY <1>1, <2>1, <2>4 DEF IInv, ActedInv, ServiceTasksAct
<1> QED
  BY <1>3, <1>4, <1>5, <1>6, <1>7 DEF IInv

(* The nodes before and beside the agent leave plans and marks alone.       *)
LEMMA QuietInv ==
    IInv /\ (AvalokaAgent \/ Analysis \/ TurnFails \/ Restart \/ UNCHANGED vars) => IInv'
<1> SUFFICES ASSUME IInv, AvalokaAgent \/ Analysis \/ TurnFails \/ Restart \/ UNCHANGED vars
             PROVE  IInv'
  OBVIOUS
<1>1. /\ UNCHANGED <<asked, session, tasks, acted, confirmations, trainings, schedules>>
      /\ turn' = turn
  BY DEF AvalokaAgent, Analysis, TurnFails, Restart, vars, history, turn
<1>2. /\ state' \in State
      /\ state'.training_scheduled => state.training_scheduled
      /\ at' # "idle" =>
            /\ at # "idle"
            /\ state'.plan = state.plan /\ state'.task_schedule = state.task_schedule
            /\ state'.start_scheduled = state.start_scheduled
            /\ state'.stop_scheduled = state.stop_scheduled
            /\ state'.training_scheduled = state.training_scheduled
            /\ HasModel(state') = HasModel(state)
            /\ Confirmed(state') = Confirmed(state)
  <2>1. Blank \in State /\ ~Blank.training_scheduled
    BY NoPlanTyped DEF Blank, State
  <2>2. state \in State
    BY DEF IInv, TypeOK
  <2>3. CASE AvalokaAgent
    BY <2>2, <2>3 DEF AvalokaAgent, State, HasModel, Confirmed
  <2>4. CASE Analysis \/ TurnFails \/ UNCHANGED vars
    BY <2>2, <2>4 DEF Analysis, TurnFails, vars
  <2>5. CASE Restart
    BY <2>1, <2>5 DEF Restart
  <2> QED
    BY <2>3, <2>4, <2>5
<1>3. /\ at' \in {"idle", "avaloka_agent", "plan_etl", "train_models", "analysis",
                  "schedule_task", "save", "executed"}
      /\ at' \in Before => at \in Before
      /\ at' \in Planning => at \in Planning
      /\ at' = "train_models" => at \in Planning \union {"train_models"}
      /\ at' = "schedule_task" => at \in {"analysis", "schedule_task"}
  BY DEF AvalokaAgent, Analysis, TurnFails, Restart, vars, IInv, TypeOK, Before, Planning
<1>4. TypeOK'
  BY <1>1, <1>2, <1>3 DEF IInv, TypeOK
<1>5. PlanInv'
  BY <1>1, <1>2, <1>3 DEF IInv, PlanInv, MadeFor, Shown, Dataset, Before, Planning
<1>6. MarkInv'
  BY <1>1, <1>2, <1>3 DEF IInv, MarkInv, Before, Planning
<1>7. TaskInv'
  <2>1. at' = "schedule_task" => Passes(state', turn)
    <3>1. CASE at = "schedule_task"
      BY <1>1, <1>2, <3>1 DEF IInv, TaskInv, Passes
    <3>2. CASE at = "analysis"
      BY <1>1, <1>2, <3>2 DEF IInv, PlanInv, MarkInv, Passes, Before, Planning
    <3> QED
      BY <1>3, <3>1, <3>2
  <2> QED
    BY <1>1, <2>1 DEF IInv, TaskInv, Passes, Shown
<1>8. CountInv'
  BY <1>1, <1>2, <1>3 DEF IInv, CountInv, MarkInv, OneRunPerConfirmation, MayTrain, MaySchedule,
                         Before, Planning
<1>9. ActedInv'
  BY <1>1 DEF IInv, ActedInv, TrainsShownPlans, ServiceTasksAct
<1> QED
  BY <1>4, <1>5, <1>6, <1>7, <1>8, <1>9 DEF IInv

LEMMA TrainModelsInv == IInv /\ TrainModels => IInv'
<1> SUFFICES ASSUME IInv, TrainModels PROVE IInv'
  OBVIOUS
<1>1. PICK o \in Execute(state, turn) :
        /\ state' = o.state
        /\ at' = RouteAfterTraining(o.state)
        /\ acted' = [who |-> "request", turn |-> turn, kind |-> "none", did |-> o.did,
                     plan |-> o.state.plan]
        /\ trainings' = IF "train" \in o.did THEN trainings + 1 ELSE trainings
  BY DEF TrainModels
<1>2. /\ state \in State /\ turn \in 1 .. Turns /\ at = "train_models"
      /\ state.task_schedule \in {"none", "execute", "training"}
      /\ Shown(state.plan, turn) /\ MadeFor(state.plan, Dataset)
      /\ UNCHANGED <<asked, session, tasks, confirmations, schedules>>
  BY DEF TrainModels, IInv, TypeOK, PlanInv, MarkInv, Before
<1>3. Acts(state, turn, o)
  BY <1>2, ExecuteActs
<1>4. state' \in State /\ o.did \subseteq {"train", "start", "stop"}
  BY <1>1, <1>3 DEF Acts, Result
<1>5. at' \in {"schedule_task", "save"}
  BY <1>1 DEF RouteAfterTraining
<1>6. turn' = turn /\ Dataset' = Dataset
  BY <1>2 DEF turn, Dataset
<1>7. TypeOK'
  BY <1>1, <1>2, <1>4, <1>5, <1>6 DEF IInv, TypeOK, State
<1>8. PlanInv'
  <2>1. MadeFor(state'.plan, Dataset)
    BY <1>1, <1>2, <1>3 DEF Acts, MadeFor, Dataset
  <2> QED
    BY <1>2, <1>5, <1>6, <2>1 DEF IInv, PlanInv, MadeFor, Before, Planning
<1>9. MarkInv'
  BY <1>5 DEF MarkInv, Before, Planning
<1>10. TaskInv'
  <2>1. Passes(state', turn)
    BY <1>1, <1>2, <1>3 DEF Acts, Passes
  <2> QED
    BY <1>2, <1>6, <2>1 DEF IInv, TaskInv, Passes, Shown
<1>11. CountInv'
  <2>1. "train" \in o.did => trainings < confirmations /\ ~state'.training_scheduled
    BY <1>1, <1>2, <1>3 DEF Acts, Trainable, IInv, CountInv, MayTrain
  <2>2. state'.training_scheduled => trainings < confirmations
    BY <1>1, <1>2, <1>3 DEF Acts, IInv, CountInv, MayTrain
  <2>3. state'.task_schedule = "training_now" => schedules < confirmations
    BY <1>1, <1>2, <1>3 DEF Acts, IInv, CountInv, MaySchedule
  <2> QED
    BY <1>1, <1>2, <1>5, <2>1, <2>2, <2>3
       DEF IInv, TypeOK, CountInv, OneRunPerConfirmation, MayTrain, MaySchedule
<1>12. ActedInv'
  BY <1>1, <1>2, <1>3, <1>6
     DEF Acts, Trainable, ActedInv, TrainsShownPlans, ServiceTasksAct, Shown
<1> QED
  BY <1>7, <1>8, <1>9, <1>10, <1>11, <1>12 DEF IInv

(* What the scheduler node hands to a worker may pass.                      *)
LEMMA ScheduleTaskInv == IInv /\ ScheduleTask => IInv'
<1> SUFFICES ASSUME IInv, ScheduleTask PROVE IInv'
  OBVIOUS
<1> DEFINE task == [turn |-> turn, state |-> Answered(state)]
<1>1. /\ state \in State /\ turn \in 1 .. Turns /\ at = "schedule_task" /\ at' = "save"
      /\ Passes(state, turn)
      /\ UNCHANGED <<asked, session, acted, confirmations, trainings>>
  BY DEF ScheduleTask, IInv, TypeOK, PlanInv, TaskInv
<1>2. turn' = turn /\ Dataset' = Dataset
  BY <1>1 DEF turn, Dataset
<1>3. /\ state' \in State /\ state'.plan = state.plan
      /\ state'.training_scheduled = state.training_scheduled
  BY <1>1 DEF ScheduleTask, State
<1>4. Answered(state) \in State /\ (Passes(Answered(state), turn))
      /\ Answered(state).task_schedule = state.task_schedule
  BY <1>1 DEF Answered, State, Passes, HasModel
<1>5. /\ tasks' \subseteq tasks \union {task}
      /\ task \in tasks' => task \in tasks \/ state.task_schedule \notin {"none", "execute"}
      /\ \/ schedules' = schedules
         \/ schedules' = schedules + 1 /\ state.task_schedule = "training_now"
  BY DEF ScheduleTask
<1>6. TypeOK'
  BY <1>1, <1>2, <1>3, <1>4, <1>5 DEF IInv, TypeOK, Task
<1>7. PlanInv' /\ MarkInv'
  BY <1>1, <1>2, <1>3 DEF IInv, PlanInv, MarkInv, MadeFor, Before, Planning
<1>8. TaskInv'
  <2> SUFFICES ASSUME NEW k \in tasks'
               PROVE  /\ k.turn \in 1 .. turn
                      /\ Passes(k.state, k.turn)
                      /\ k.state.task_schedule \notin {"none", "execute"}
    BY <1>1, <1>2 DEF TaskInv, Passes, Shown
  <2>1. CASE k \in tasks
    BY <2>1 DEF IInv, TaskInv
  <2>2. CASE k \notin tasks
    BY <1>1, <1>4, <1>5, <2>2
  <2> QED
    BY <2>1, <2>2
<1>9. CountInv'
  BY <1>1, <1>3, <1>5
     DEF IInv, TypeOK, CountInv, OneRunPerConfirmation, MayTrain, MaySchedule
<1>10. ActedInv'
  BY <1>1, <1>2 DEF IInv, ActedInv, TrainsShownPlans, ServiceTasksAct
<1> QED
  BY <1>6, <1>7, <1>8, <1>9, <1>10 DEF IInv

LEMMA SaveTurnInv == IInv /\ SaveTurn => IInv'
<1> SUFFICES ASSUME IInv, SaveTurn PROVE IInv'
  OBVIOUS
<1>1. /\ state \in State /\ turn \in 1 .. Turns /\ at' = "idle"
      /\ Dataset \in Datasets /\ session[Dataset] \in Session
      /\ MadeFor(state.plan, Dataset) /\ MadeFor(session[Dataset].plan, Dataset)
      /\ UNCHANGED <<asked, state, tasks, acted, confirmations, trainings, schedules>>
  BY DEF SaveTurn, IInv, TypeOK, PlanInv, history, Dataset, turn
<1>2. turn' = turn
  BY <1>1 DEF turn
<1>3. NoSession \in Session /\ NoSession.plan = NoPlan
  BY NoPlanTyped DEF NoSession, Session
<1>4. ASSUME NEW old \in Session
      PROVE  Overlay(old) \in Session /\ Overlay(old).plan \in {state.plan, old.plan}
  BY <1>1 DEF Overlay, Session, State
<1>5. PICK saved : /\ saved \in Session /\ saved.plan \in {NoPlan, state.plan, session[Dataset].plan}
                   /\ session' = [session EXCEPT ![Dataset] = saved]
  BY <1>1, <1>3, <1>4 DEF SaveTurn
<1>6. TypeOK'
  BY <1>1, <1>2, <1>5 DEF IInv, TypeOK
<1>7. PlanInv' /\ MarkInv'
  <2>1. MadeFor(saved.plan, Dataset)
    BY <1>1, <1>5 DEF MadeFor
  <2> QED
    BY <1>1, <1>2, <1>5, <2>1 DEF IInv, TypeOK, PlanInv, MarkInv, MadeFor, Before, Planning
<1>8. TaskInv' /\ CountInv' /\ ActedInv'
  BY <1>1, <1>2 DEF IInv, TaskInv, Passes, Shown, CountInv, OneRunPerConfirmation, MayTrain,
                   MaySchedule, ActedInv, TrainsShownPlans, ServiceTasksAct
<1> QED
  BY <1>6, <1>7, <1>8 DEF IInv

LEMMA RunTaskInv == ASSUME IInv, NEW k \in tasks, RunTask(k) PROVE IInv'
<1>1. PICK o \in Execute(WorkerState(k), k.turn) :
         acted' = [who |-> "task", turn |-> k.turn, kind |-> k.state.task_schedule,
                   did |-> o.did, plan |-> o.state.plan]
  BY DEF RunTask
<1>2. /\ UNCHANGED <<asked, at, state, session, confirmations, trainings, schedules>>
      /\ tasks' \subseteq tasks
  BY DEF RunTask
<1>3. /\ k \in Task /\ k.turn \in 1 .. turn /\ Passes(k.state, k.turn)
      /\ k.state.task_schedule \notin {"none", "execute"} /\ k.state \in State
  BY DEF IInv, TypeOK, TaskInv, Task
<1>4. /\ o \in Result
      /\ "train" \in o.did =>
            /\ k.state.task_schedule \in {"training", "training_now"}
            /\ o.state.plan = k.state.plan /\ k.state.plan # NoPlan
      /\ k.state.task_schedule \in {"start", "stop"} => o.did = {k.state.task_schedule}
  BY <1>3, WorkerActs
<1>5. turn' = turn /\ Dataset' = Dataset
  BY <1>2 DEF turn, Dataset
<1>6. TypeOK'
  <2>1. acted' \in [who : {"none", "request", "task"}, turn : 0 .. Turns, plan : Plan,
                     kind : {"none", "training", "training_now", "start", "stop"},
                     did : SUBSET {"train", "start", "stop"}]
    <3>1. k.turn \in 0 .. Turns /\ o.state.plan \in Plan
      BY <1>3, <1>4 DEF Task, Result, State
    <3>2. k.state.task_schedule \in {"training", "training_now", "start", "stop"}
      BY <1>3 DEF State
    <3> QED
      BY <1>1, <1>4, <3>1, <3>2 DEF Result
  <2> QED
    BY <1>2, <1>5, <2>1 DEF IInv, TypeOK
<1>7. PlanInv' /\ MarkInv' /\ CountInv'
  BY <1>2, <1>5 DEF IInv, PlanInv, MarkInv, MadeFor, Shown, Before, Planning,
                   CountInv, OneRunPerConfirmation, MayTrain, MaySchedule
<1>8. TaskInv'
  BY <1>2, <1>5 DEF IInv, TaskInv, Passes, Shown
<1>9. ActedInv'
  BY <1>1, <1>2, <1>3, <1>4, <1>5 DEF ActedInv, TrainsShownPlans, ServiceTasksAct, Passes, Shown
<1> QED
  BY <1>6, <1>7, <1>8, <1>9 DEF IInv

LEMMA StepInv == IInv /\ [Next]_vars => IInv'
  BY SendMessageInv, QuietInv, PlannerSkipsInv, PlannerTakesReplyInv, PlannerDecidesInv,
     TrainModelsInv, ScheduleTaskInv, SaveTurnInv, RunTaskInv DEF Next

(* IInv holds throughout every conversation.                                *)
THEOREM TrainingInvariant == Spec => []IInv
  BY InitInv, StepInv, PTL DEF Spec

(* Each confirmation trains at most once in a request and creates at most   *)
(* one training task.                                                       *)
THEOREM OncePerConfirmation == Spec => []OneRunPerConfirmation
<1>1. IInv => OneRunPerConfirmation
  BY DEF IInv, CountInv
<1> QED
  BY <1>1, TrainingInvariant, PTL

(* What trains, in a request or a worker, is a plan that an earlier turn    *)
(* about the same dataset made and showed.                                  *)
THEOREM OnlyShownPlansTrain == Spec => []TrainsShownPlans
<1>1. IInv => TrainsShownPlans
  BY DEF IInv, ActedInv
<1> QED
  BY <1>1, TrainingInvariant, PTL

(* A worker told to start or stop the inference service does just that.     *)
THEOREM ServicePassesAct == Spec => []ServiceTasksAct
<1>1. IInv => ServiceTasksAct
  BY DEF IInv, ActedInv
<1> QED
  BY <1>1, TrainingInvariant, PTL
=============================================================================
