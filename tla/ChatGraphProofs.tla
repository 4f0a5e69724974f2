-------------------------- MODULE ChatGraphProofs --------------------------
(* Proofs about the chat graph and the coding subgraph in it, for runs of   *)
(* any length, any number of turns, any fidelities and any sizes: only code *)
(* that every check accepted comes out of the subgraph and is executed, and *)
(* the graph implements the subgraph.                                       *)
EXTENDS ChatGraph, TLAPS

(* The coding subgraph. *)
Retrying == step = "coder" /\ draft.retry_count > 0
AfterSyntax == {"validator_static", "execute_code", "validator_contract",
                "validator_logical", "done"}
AfterStatic == AfterSyntax \ {"validator_static"}

(* The flag of a check that judged the script at hand goes with its verdict.*)
FlagIsVerdict(c) ==
    \/ draft.verdict[c] = "bad" /\ draft.error[c]
    \/ draft.verdict[c] = "ok" /\ ~draft.error[c]

(* A check that has not had its turn has said nothing of this script.       *)
Unseen ==
    /\ step = "validator_syntax" => draft.verdict["syntax"] = "none"
    /\ step \in {"validator_syntax", "validator_static"}
        => draft.verdict["static"] = "none"
    /\ step \in {"validator_syntax", "validator_static", "execute_code",
                 "validator_contract"} => draft.verdict["contract"] = "none"
    /\ step \in {"validator_syntax", "validator_static", "execute_code",
                 "validator_contract", "validator_logical"}
        => draft.verdict["logical"] = "none"

(* One that has had it judged the script, or was skipped: for a hard error, *)
(* which keeps the script from being accepted, or, the contract only, for   *)
(* want of something to check, and then its flag is clear.                  *)
JudgedInv ==
    /\ step \in AfterSyntax \/ Retrying => FlagIsVerdict("syntax")
    /\ step \in AfterStatic \/ Retrying
        => draft.error["syntax"] \/ FlagIsVerdict("static")
    /\ step \in AfterSyntax \cup {"validator_syntax"} \/ Retrying
        => \/ FlagIsVerdict("contract")
           \/ draft.verdict["contract"] = "none" /\ ~draft.error["contract"]
    /\ step = "done" \/ Retrying => HardError(draft) \/ FlagIsVerdict("logical")

(* The feedback is what a check that rejected this script said, or no       *)
(* check's; after a hard error it is that one's, and after the reviewer's   *)
(* rejection there may be none.                                             *)
FeedbackInv ==
    /\ draft.feedback \in Check => draft.verdict[draft.feedback] = "bad"
    /\ step \in AfterSyntax \/ Retrying
        => (draft.error["syntax"] => draft.feedback = "syntax")
    /\ step \in AfterStatic \/ Retrying
        => (HardError(draft) => draft.feedback \in {"syntax", "static"})
    /\ Retrying /\ ~HardError(draft) /\ draft.error["logical"]
        => draft.feedback \in {"logical", "none"}

(* The coder is only entered while a pass is left, and again only with an   *)
(* error.                                                                   *)
PassesInv ==
    /\ step = "coder" => draft.retry_count < 3
    /\ Retrying => HasError(draft)

IInv == CodingTypeOK /\ Unseen /\ JudgedInv /\ FeedbackInv /\ PassesInv
-----------------------------------------------------------------------------
(* What judging does to the record, field by field: only the flag, the      *)
(* verdict and, for a rejection, the feedback of that check change.         *)
LEMMA JudgedFields ==
    ASSUME draft \in Draft, NEW c \in Check, NEW bad \in BOOLEAN
    PROVE  /\ Judged(c, bad) \in Draft
           /\ Judged(c, bad).retry_count = draft.retry_count
           /\ Judged(c, bad).error = [draft.error EXCEPT ![c] = bad]
           /\ Judged(c, bad).verdict =
                [draft.verdict EXCEPT ![c] = IF bad THEN "bad" ELSE "ok"]
           /\ Judged(c, bad).feedback = IF bad THEN c ELSE draft.feedback
  BY DEF Draft, Judged, Check

LEMMA InitInv == CodingInit => IInv
  BY DEF CodingInit, NewDraft, IInv, CodingTypeOK, Step, Draft, Check, Unjudged,
         Unseen, JudgedInv, FeedbackInv, PassesInv, Retrying, AfterSyntax,
         AfterStatic, HardError

LEMMA CoderInv == IInv /\ Coder => IInv'
<1> SUFFICES ASSUME IInv, Coder PROVE IInv'
  OBVIOUS
<1> USE DEF Check
<1>0. draft \in Draft /\ draft.retry_count < 3 /\ step = "coder"
  BY DEF IInv, CodingTypeOK, PassesInv, Coder
<1>1. step' = "validator_syntax"
  BY DEF Coder
<1>2. PICK contract \in BOOLEAN, refused \in BOOLEAN :
        draft' = [draft EXCEPT !.retry_count = @ + 1,
                               !.error["contract"] = FALSE,
                               !.coder_contract = contract,
                               !.refused = refused,
                               !.feedback = IF refused THEN "guard" ELSE "none",
                               !.verdict = Unjudged]
  BY <1>0 DEF Coder, Draft
<1>3. /\ draft' \in Draft
      /\ draft'.verdict = Unjudged
      /\ ~draft'.error["contract"]
      /\ draft'.feedback \in {"none", "guard"}
  <2>1. Unjudged \in [Check -> {"none", "ok", "bad"}]
    BY DEF Unjudged
  <2>2. [draft.error EXCEPT !["contract"] = FALSE] \in [Check -> BOOLEAN]
    BY <1>0 DEF Draft
  <2>3. draft.retry_count + 1 \in 0..3
    BY <1>0 DEF Draft
  <2>4. (IF refused THEN "guard" ELSE "none") \in {"none", "guard"}
    OBVIOUS
  <2> QED
    BY <1>0, <1>2, <2>1, <2>2, <2>3, <2>4 DEF Draft
<1>4. CodingTypeOK'
  BY <1>1, <1>3 DEF CodingTypeOK, Step
<1>5. Unseen'
  BY <1>1, <1>3 DEF Unseen, Unjudged
<1>6. JudgedInv'
  BY <1>1, <1>3 DEF JudgedInv, Retrying, AfterSyntax, AfterStatic, Unjudged
<1>7. FeedbackInv'
  BY <1>1, <1>3 DEF FeedbackInv, Retrying, AfterSyntax, AfterStatic
<1>8. PassesInv'
  BY <1>1 DEF PassesInv, Retrying
<1> QED
  BY <1>4, <1>5, <1>6, <1>7, <1>8 DEF IInv

LEMMA SyntacticValidatorInv == IInv /\ SyntacticValidator => IInv'
<1> SUFFICES ASSUME IInv, SyntacticValidator PROVE IInv'
  OBVIOUS
<1>0. draft \in Draft /\ step = "validator_syntax" /\ step' = "validator_static"
  BY DEF IInv, CodingTypeOK, SyntacticValidator
<1>1. ASSUME NEW bad \in BOOLEAN, draft' = Judged("syntax", bad)
      PROVE  IInv'
  <2>1. /\ draft' \in Draft
        /\ draft'.error = [draft.error EXCEPT !["syntax"] = bad]
        /\ draft'.verdict =
             [draft.verdict EXCEPT !["syntax"] = IF bad THEN "bad" ELSE "ok"]
        /\ draft'.feedback = IF bad THEN "syntax" ELSE draft.feedback
    <3>1. "syntax" \in Check
      BY DEF Check
    <3> QED
      BY <1>0, <1>1, <3>1, JudgedFields
  <2>2. /\ draft'.error["syntax"] = bad
        /\ draft'.verdict["syntax"] = IF bad THEN "bad" ELSE "ok"
        /\ draft'.error["static"] = draft.error["static"]
        /\ draft'.verdict["static"] = draft.verdict["static"] 
        /\ draft'.error["contract"] = draft.error["contract"]
        /\ draft'.verdict["contract"] = draft.verdict["contract"] 
        /\ draft'.error["logical"] = draft.error["logical"]
        /\ draft'.verdict["logical"] = draft.verdict["logical"]
    BY <1>0, <2>1 DEF Draft, Check
  <2>3. CodingTypeOK'
    BY <1>0, <2>1 DEF CodingTypeOK, Step
  <2>4. Unseen'
    BY <1>0, <2>2 DEF IInv, Unseen
  <2>5. JudgedInv'
    BY <1>0, <1>1, <2>2 DEF IInv, Unseen, JudgedInv, FlagIsVerdict, Retrying,
       AfterSyntax, AfterStatic, HardError
  <2>6. FeedbackInv'
    BY <1>0, <1>1, <2>1, <2>2 DEF IInv, Unseen, JudgedInv, FeedbackInv,
       FlagIsVerdict, Retrying, AfterSyntax, AfterStatic, HardError, Check
  <2>7. PassesInv'
    BY <1>0 DEF PassesInv, Retrying
  <2> QED
    BY <2>3, <2>4, <2>5, <2>6, <2>7 DEF IInv
<1> QED
  BY <1>1 DEF SyntacticValidator

LEMMA StaticSemanticValidatorInv == IInv /\ StaticSemanticValidator => IInv'
<1> SUFFICES ASSUME IInv, StaticSemanticValidator PROVE IInv'
  OBVIOUS
<1>0. draft \in Draft /\ step = "validator_static" /\ step' = "execute_code"
  BY DEF IInv, CodingTypeOK, StaticSemanticValidator
<1>1. ASSUME NEW bad \in BOOLEAN, ~draft.error["syntax"], draft' = Judged("static", bad)
      PROVE  IInv'
  <2>1. /\ draft' \in Draft
        /\ draft'.error = [draft.error EXCEPT !["static"] = bad]
        /\ draft'.verdict =
             [draft.verdict EXCEPT !["static"] = IF bad THEN "bad" ELSE "ok"]
        /\ draft'.feedback = IF bad THEN "static" ELSE draft.feedback
    <3>1. "static" \in Check
      BY DEF Check
    <3> QED
      BY <1>0, <1>1, <3>1, JudgedFields
  <2>2. /\ draft'.error["static"] = bad
        /\ draft'.verdict["static"] = IF bad THEN "bad" ELSE "ok"
        /\ draft'.error["syntax"] = draft.error["syntax"]
        /\ draft'.verdict["syntax"] = draft.verdict["syntax"] 
        /\ draft'.error["contract"] = draft.error["contract"]
        /\ draft'.verdict["contract"] = draft.verdict["contract"] 
        /\ draft'.error["logical"] = draft.error["logical"]
        /\ draft'.verdict["logical"] = draft.verdict["logical"]
    BY <1>0, <2>1 DEF Draft, Check
  <2>3. CodingTypeOK'
    BY <1>0, <2>1 DEF CodingTypeOK, Step
  <2>4. Unseen'
    BY <1>0, <2>2 DEF IInv, Unseen
  <2>5. JudgedInv'
    BY <1>0, <1>1, <2>2 DEF IInv, Unseen, JudgedInv, FlagIsVerdict, Retrying,
       AfterSyntax, AfterStatic, HardError
  <2>6. FeedbackInv'
    BY <1>0, <1>1, <2>1, <2>2 DEF IInv, Unseen, JudgedInv, FeedbackInv,
       FlagIsVerdict, Retrying, AfterSyntax, AfterStatic, HardError, Check
  <2>7. PassesInv'
    BY <1>0 DEF PassesInv, Retrying
  <2> QED
    BY <2>3, <2>4, <2>5, <2>6, <2>7 DEF IInv
<1>2. ASSUME draft.error["syntax"], UNCHANGED draft PROVE IInv'
  BY <1>0, <1>2 DEF IInv, CodingTypeOK, Step, Unseen, JudgedInv, FeedbackInv,
     PassesInv, FlagIsVerdict, Retrying, AfterSyntax, AfterStatic, HardError, Check
<1> QED
  BY <1>1, <1>2 DEF StaticSemanticValidator

LEMMA ContractValidatorInv == IInv /\ ContractValidator => IInv'
<1> SUFFICES ASSUME IInv, ContractValidator PROVE IInv'
  OBVIOUS
<1>0. draft \in Draft /\ step = "validator_contract" /\ step' = "validator_logical"
  BY DEF IInv, CodingTypeOK, ContractValidator
<1>1. ASSUME NEW bad \in BOOLEAN, ~HardError(draft), draft' = Judged("contract", bad)
      PROVE  IInv'
  <2>1. /\ draft' \in Draft
        /\ draft'.error = [draft.error EXCEPT !["contract"] = bad]
        /\ draft'.verdict =
             [draft.verdict EXCEPT !["contract"] = IF bad THEN "bad" ELSE "ok"]
        /\ draft'.feedback = IF bad THEN "contract" ELSE draft.feedback
    <3>1. "contract" \in Check
      BY DEF Check
    <3> QED
      BY <1>0, <1>1, <3>1, JudgedFields
  <2>2. /\ draft'.error["contract"] = bad
        /\ draft'.verdict["contract"] = IF bad THEN "bad" ELSE "ok"
        /\ draft'.error["syntax"] = draft.error["syntax"]
        /\ draft'.verdict["syntax"] = draft.verdict["syntax"] 
        /\ draft'.error["static"] = draft.error["static"]
        /\ draft'.verdict["static"] = draft.verdict["static"] 
        /\ draft'.error["logical"] = draft.error["logical"]
        /\ draft'.verdict["logical"] = draft.verdict["logical"]
    BY <1>0, <2>1 DEF Draft, Check
  <2>3. CodingTypeOK'
    BY <1>0, <2>1 DEF CodingTypeOK, Step
  <2>4. Unseen'
    BY <1>0, <2>2 DEF IInv, Unseen
  <2>5. JudgedInv'
    BY <1>0, <1>1, <2>2 DEF IInv, Unseen, JudgedInv, FlagIsVerdict, Retrying,
       AfterSyntax, AfterStatic, HardError
  <2>6. FeedbackInv'
    BY <1>0, <1>1, <2>1, <2>2 DEF IInv, Unseen, JudgedInv, FeedbackInv,
       FlagIsVerdict, Retrying, AfterSyntax, AfterStatic, HardError, Check
  <2>7. PassesInv'
    BY <1>0 DEF PassesInv, Retrying
  <2> QED
    BY <2>3, <2>4, <2>5, <2>6, <2>7 DEF IInv
<1>2. ASSUME UNCHANGED draft PROVE IInv'
  BY <1>0, <1>2 DEF IInv, CodingTypeOK, Step, Unseen, JudgedInv, FeedbackInv,
     PassesInv, FlagIsVerdict, Retrying, AfterSyntax, AfterStatic, HardError, Check
<1> QED
  BY <1>1, <1>2 DEF ContractValidator

LEMMA LogicalInv == IInv /\ LogicalSemanticValidator => IInv'
<1> SUFFICES ASSUME IInv, LogicalSemanticValidator PROVE IInv'
  OBVIOUS
<1>0. /\ draft \in Draft
      /\ step = "validator_logical"
      /\ draft' \in Reviewed
      /\ step' = CheckValidationStatus(draft')
  BY DEF IInv, CodingTypeOK, LogicalSemanticValidator
<1>1. /\ step' \in {"coder", "done"}
      /\ step' = "coder" => HasError(draft') /\ draft'.retry_count < 3
  BY <1>0 DEF CheckValidationStatus
<1>2. PassesInv'
  BY <1>1 DEF PassesInv, Retrying
<1>3. Unseen'
  BY <1>1 DEF Unseen
<1>4. CASE HardError(draft) /\ draft' = draft
  <2>1. CodingTypeOK'
    BY <1>0, <1>1, <1>4 DEF CodingTypeOK, Step
  <2>2. JudgedInv'
    BY <1>0, <1>1, <1>4 DEF IInv, JudgedInv, Retrying, AfterSyntax, AfterStatic,
       FlagIsVerdict, HardError
  <2>3. FeedbackInv'
    BY <1>0, <1>1, <1>4 DEF IInv, FeedbackInv, Retrying, AfterSyntax, AfterStatic,
       HardError
  <2> QED
    BY <1>2, <1>3, <2>1, <2>2, <2>3 DEF IInv
<1>5. ASSUME NEW bad \in BOOLEAN, ~HardError(draft),
             draft' \in IF bad THEN {[Judged("logical", TRUE) EXCEPT !.feedback = f] :
                                        f \in {"logical", "none"}}
                      ELSE {[Judged("logical", FALSE) EXCEPT !.feedback = "approved"]}
      PROVE  IInv'
  <2>1. /\ draft' \in Draft
        /\ draft'.error = [draft.error EXCEPT !["logical"] = bad]
        /\ draft'.verdict =
             [draft.verdict EXCEPT !["logical"] = IF bad THEN "bad" ELSE "ok"]
        /\ draft'.feedback \in IF bad THEN {"logical", "none"} ELSE {"approved"}
    <3>1. "logical" \in Check
      BY DEF Check
    <3>2. CASE bad
      <4>1. /\ Judged("logical", TRUE) \in Draft
            /\ Judged("logical", TRUE).error =
                 [draft.error EXCEPT !["logical"] = TRUE]
            /\ Judged("logical", TRUE).verdict =
                 [draft.verdict EXCEPT !["logical"] = "bad"]
        BY <1>0, <3>1, JudgedFields
      <4>2. PICK f \in {"logical", "none"} :
              draft' = [Judged("logical", TRUE) EXCEPT !.feedback = f]
        BY <1>5, <3>2
      <4> QED
        BY <3>1, <3>2, <4>1, <4>2 DEF Draft
    <3>3. CASE ~bad
      <4>1. /\ Judged("logical", FALSE) \in Draft
            /\ Judged("logical", FALSE).error =
                 [draft.error EXCEPT !["logical"] = FALSE]
            /\ Judged("logical", FALSE).verdict =
                 [draft.verdict EXCEPT !["logical"] = "ok"]
        BY <1>0, <3>1, JudgedFields
      <4>2. draft' = [Judged("logical", FALSE) EXCEPT !.feedback = "approved"]
        BY <1>5, <3>3
      <4> QED
        BY <3>3, <4>1, <4>2 DEF Draft
    <3> QED
      BY <3>2, <3>3
  <2>2. /\ draft'.error["logical"] = bad
        /\ draft'.verdict["logical"] = IF bad THEN "bad" ELSE "ok"
        /\ draft'.error["syntax"] = draft.error["syntax"]
        /\ draft'.verdict["syntax"] = draft.verdict["syntax"]
        /\ draft'.error["static"] = draft.error["static"]
        /\ draft'.verdict["static"] = draft.verdict["static"]
        /\ draft'.error["contract"] = draft.error["contract"]
        /\ draft'.verdict["contract"] = draft.verdict["contract"]
    BY <1>0, <2>1 DEF Draft, Check
  <2>3. CodingTypeOK'
    BY <1>1, <2>1 DEF CodingTypeOK, Step
  <2>4. JudgedInv'
    BY <1>0, <1>5, <2>2 DEF IInv, JudgedInv, FlagIsVerdict, Retrying,
       AfterSyntax, AfterStatic, HardError
  <2>5. FeedbackInv'
    <3>1. ~draft'.error["syntax"] /\ ~HardError(draft')
      BY <1>5, <2>2 DEF HardError
    <3>2. /\ draft'.feedback \in Check
                => draft'.verdict[draft'.feedback] = "bad"
          /\ draft'.error["logical"] => draft'.feedback \in {"logical", "none"}
      BY <2>1, <2>2 DEF Check
    <3> QED
      BY <3>1, <3>2 DEF FeedbackInv
  <2> QED
    BY <1>2, <1>3, <2>3, <2>4, <2>5 DEF IInv
<1> QED
  <2>1. \/ HardError(draft) /\ draft' = draft
        \/ /\ ~HardError(draft)
           /\ draft' \in {[Judged("logical", TRUE) EXCEPT !.feedback = f] :
                             f \in {"logical", "none"}}
        \/ /\ ~HardError(draft)
           /\ draft' \in {[Judged("logical", FALSE) EXCEPT !.feedback = "approved"]}
    BY <1>0 DEF Reviewed, Reviews
  <2> QED
    BY <1>4, <1>5, <2>1

LEMMA OtherInv ==
    IInv /\ (Begin \/ ExecuteCode \/ ModelRaises \/ Finish \/ UNCHANGED codingVars)
        => IInv'
<1>1. IInv /\ Begin => IInv'
  <2> SUFFICES ASSUME Begin PROVE IInv'
    OBVIOUS
  <2>1. /\ step' = "coder" /\ draft' = NewDraft
        /\ draft' \in Draft /\ draft'.retry_count = 0
        /\ draft'.feedback = "none"
    BY DEF Begin, NewDraft, Draft, Unjudged, Check
  <2> QED
    BY <2>1 DEF IInv, CodingTypeOK, Step, Unseen, JudgedInv, FeedbackInv,
       PassesInv, Retrying, AfterSyntax, AfterStatic, Check
<1>2. IInv /\ Finish => IInv'
  <2>1. Finish => CodingInit'
    BY DEF Finish, CodingInit
  <2>2. CodingInit' => IInv'
    BY InitInv, PTL
  <2> QED
    BY <2>1, <2>2
<1>3. IInv /\ ExecuteCode => IInv'
  BY DEF ExecuteCode, IInv, CodingTypeOK, Step, Unseen, JudgedInv, FeedbackInv,
     PassesInv, Retrying, AfterSyntax, AfterStatic, FlagIsVerdict, HardError, Check
<1>4. IInv /\ ModelRaises => IInv'
  BY DEF ModelRaises, IInv, CodingTypeOK, Step, Unseen, JudgedInv, FeedbackInv,
     PassesInv, Retrying, AfterSyntax, AfterStatic, FlagIsVerdict, HardError, Check
<1>5. IInv /\ UNCHANGED codingVars => IInv'
  BY DEF codingVars, IInv, CodingTypeOK, Unseen, JudgedInv, FeedbackInv,
     PassesInv, Retrying, AfterSyntax, AfterStatic, FlagIsVerdict, HardError,
     HasError
<1> QED
  BY <1>1, <1>2, <1>3, <1>4, <1>5

LEMMA StepInv == IInv /\ [CodingNext]_codingVars => IInv'
  BY CoderInv, SyntacticValidatorInv, StaticSemanticValidatorInv,
     ContractValidatorInv, LogicalInv, OtherInv DEF CodingNext, CodingStep

LEMMA AcceptedWhenDone == IInv => NoErrorMeansAccepted
  BY DEF IInv, JudgedInv, NoErrorMeansAccepted, Failed, HasError, HardError,
         Accepted, FlagIsVerdict, AfterSyntax, AfterStatic, Check

(* The inductive invariant holds throughout every run of the subgraph.      *)
THEOREM CodingInvariant == CodingSpec => []IInv
  BY InitInv, StepInv, PTL DEF CodingSpec

(* The coder runs at most three times, and every field keeps its type.      *)
THEOREM CodingTypes == CodingSpec => []CodingTypeOK
  BY CodingInvariant, PTL DEF IInv

(* Code without an error flag was accepted by every check that can reject.  *)
THEOREM AcceptedOnly == CodingSpec => []NoErrorMeansAccepted
  BY AcceptedWhenDone, CodingInvariant, PTL

(* The coder is told what was wrong with its script.                        *)
THEOREM FaultKnown == CodingSpec => []RetryKnowsItsFault
<1>1. IInv => RetryKnowsItsFault
  BY DEF IInv, JudgedInv, FeedbackInv, PassesInv, Retrying, HasError, HardError,
         RetryKnowsItsFault, FlagIsVerdict, Check
<1> QED
  BY <1>1, CodingInvariant, PTL
-----------------------------------------------------------------------------
(* The chat graph. *)

(* The graph only ever touches the subgraph through its own actions.        *)
LEMMA StepIsCodingStep == [Next]_vars => [CodingNext]_codingVars
<1> SUFFICES ASSUME [Next]_vars PROVE [CodingNext]_codingVars
  OBVIOUS
<1>1. CASE CodeEtlBegin
  BY <1>1 DEF CodeEtlBegin, CodingNext
<1>2. CASE CodingSubgraph
  BY <1>2 DEF CodingSubgraph, CodingNext
<1>3. CASE CodeEtlEnd
  BY <1>3 DEF CodeEtlEnd, CodingNext
<1>4. CASE CodeEtlRaises
  BY <1>4 DEF CodeEtlRaises, CodingNext
<1>5. CASE UNCHANGED vars
  BY <1>5 DEF vars, codingVars
<1>6. CASE SendMessage \/ AvalokaAgent \/ PlanEtl \/ SummarizeEtl
  BY <1>6 DEF SendMessage, AvalokaAgent, PlanEtl, SummarizeEtl
<1>7. CASE ProvisionInfra \/ CodeEtlDirect \/ ScheduleTask \/ Execute
  BY <1>7 DEF ProvisionInfra, CodeEtlDirect, ScheduleTask, Execute
<1>8. CASE ExecuteStructuredActions \/ Visualize \/ VerifyClaims
  BY <1>8 DEF ExecuteStructuredActions, Visualize, VerifyClaims
<1> QED
  BY <1>1, <1>2, <1>3, <1>4, <1>5, <1>6, <1>7, <1>8 DEF Next, GraphStep

(* The coding subgraph inside the chat graph behaves as it does alone.      *)
THEOREM ImplementsCoding == Spec => CodingSpec
<1>1. Init => CodingInit
  BY DEF Init
<1> QED
  BY <1>1, StepIsCodingStep, PTL DEF Spec, CodingSpec

(* So does what holds of it: a rejected script never counts as accepted,    *)
(* whatever turn, plan or route led to it.                                  *)
THEOREM GraphAccepts == Spec => [](NoErrorMeansAccepted /\ RetryKnowsItsFault)
  BY ImplementsCoding, AcceptedOnly, FaultKnown, PTL
-----------------------------------------------------------------------------
(* What a step of the planner leaves of the channels of a turn: the types,  *)
(* the channels only the coder and send_message write, and that the thread  *)
(* has been provisioned for.                                                *)
Keeps(s, t) ==
    /\ t \in ETLState
    /\ s.infrastructure_provisioned => t.infrastructure_provisioned
    /\ t.coder_definition = s.coder_definition
    /\ t.structured_action_plan = s.structured_action_plan
    /\ t.analysis_defer_required = s.analysis_defer_required

LEMMA KeepsTransitive ==
    ASSUME NEW s, NEW t, NEW u, Keeps(s, t), t \in ETLState => Keeps(t, u)
    PROVE  u \in ETLState /\ Keeps(s, u)
  BY DEF Keeps

LEMMA ReadyKeeps ==
    ASSUME NEW s \in ETLState, NEW a \in BOOLEAN, NEW b \in BOOLEAN
    PROVE  Keeps(s, Ready(s, a, b))
  BY DEF Keeps, Ready, ETLState

LEMMA ReadyAfter ==
    ASSUME NEW s, NEW r, Keeps(s, r), NEW a \in BOOLEAN, NEW b \in BOOLEAN
    PROVE  Keeps(s, Ready(r, a, b))
<1>1. r \in ETLState
  BY DEF Keeps
<1>2. Keeps(r, Ready(r, a, b))
  BY <1>1, ReadyKeeps
<1> QED
  BY <1>2, KeepsTransitive

LEMMA PlannerWrites ==
    ASSUME NEW s \in ETLState
    PROVE  /\ Keeps(s, s)
           /\ \A p \in 0..Turns : Keeps(s, [s EXCEPT !.plan = p])
           /\ \A p \in 0..Turns : Keeps(s, [s EXCEPT !.task_operation = p])
           /\ \A b \in BOOLEAN : Keeps(s, [s EXCEPT !.is_dta_request = b])
           /\ \A b \in BOOLEAN : Keeps(s, [s EXCEPT !.infrastructure_request = b])
           /\ Keeps(s, [s EXCEPT !.infrastructure_provisioned = TRUE])
           /\ \A mode \in {"local", "k8s-ray"} :
                Keeps(s, [s EXCEPT !.execution_mode = mode])
<1>1. Keeps(s, s)
  BY DEF Keeps
<1>2. ASSUME NEW p \in 0..Turns
      PROVE  Keeps(s, [s EXCEPT !.plan = p]) /\ Keeps(s, [s EXCEPT !.task_operation = p])
  BY <1>2 DEF Keeps, ETLState
<1>3. ASSUME NEW b \in BOOLEAN
      PROVE  /\ Keeps(s, [s EXCEPT !.is_dta_request = b])
             /\ Keeps(s, [s EXCEPT !.infrastructure_request = b])
             /\ Keeps(s, [s EXCEPT !.infrastructure_provisioned = TRUE])
  BY <1>3 DEF Keeps, ETLState
<1>4. ASSUME NEW mode \in {"local", "k8s-ray"}
      PROVE  Keeps(s, [s EXCEPT !.execution_mode = mode])
  BY <1>4 DEF Keeps, ETLState
<1> QED
  BY <1>1, <1>2, <1>3, <1>4

Tasks == [type : {"none", "execute", "training"},
          by : {"none", "server", "agent", "planner", "coder"}]

LEMMA SchedulingKeeps ==
    ASSUME NEW s \in ETLState, NEW task \in Tasks
    PROVE  Keeps(s, [s EXCEPT !.task_schedule = task])
  BY DEF Keeps, ETLState, Tasks

LEMMA TasksAreTyped ==
    /\ NoTask \in Tasks
    /\ [type |-> "training", by |-> "planner"] \in Tasks
    /\ \A by \in {"server", "agent", "planner", "coder"} : Schedule(by) \in Tasks
  BY DEF NoTask, Tasks, Schedule

LEMMA ToolKeeps ==
    ASSUME NEW s \in ETLState, turn \in 0..Turns, NEW t \in Tool(s)
    PROVE  Keeps(s, t)
<1> USE KeepsTransitive
<1>1. CASE t = Ready([s EXCEPT !.plan = turn], TRUE, FALSE)
  <2>1. Keeps(s, [s EXCEPT !.plan = turn])
    BY PlannerWrites
  <2> QED
    BY <1>1, <2>1, ReadyKeeps
<1>2. CASE t = Ready(s, TRUE, FALSE) \/ t = NotReady(s) \/ t = s
  BY <1>2, ReadyKeeps, PlannerWrites DEF NotReady
<1>3. CASE \E task \in Tasks : t = NotReady([s EXCEPT !.task_schedule = task])
  <2>1. PICK task \in Tasks : t = NotReady([s EXCEPT !.task_schedule = task])
    BY <1>3
  <2>2. Keeps(s, [s EXCEPT !.task_schedule = task])
    BY SchedulingKeeps
  <2> QED
    BY <2>1, <2>2, ReadyKeeps DEF NotReady
<1>4. CASE t = NotReady([s EXCEPT !.task_schedule = NoTask, !.task_operation = turn])
  <2> DEFINE r == [s EXCEPT !.task_schedule = NoTask]
  <2>1. Keeps(s, r)
    BY SchedulingKeeps, TasksAreTyped
  <2>2. r \in ETLState
    BY <2>1 DEF Keeps
  <2>3. Keeps(r, [r EXCEPT !.task_operation = turn])
    <3> HIDE DEF r
    <3> QED
      BY <2>2, PlannerWrites
  <2>4. Keeps(s, [s EXCEPT !.task_schedule = NoTask, !.task_operation = turn])
    BY <2>1, <2>3
  <2>5. Keeps(s, NotReady([s EXCEPT !.task_schedule = NoTask,
                                    !.task_operation = turn]))
    BY <2>4, ReadyAfter DEF NotReady
  <2> QED
    BY <1>4, <2>5
<1>5. CASE t = NotReady([s EXCEPT !.is_dta_request = TRUE])
  <2>1. Keeps(s, [s EXCEPT !.is_dta_request = TRUE])
    BY PlannerWrites
  <2> QED
    BY <1>5, <2>1, ReadyKeeps DEF NotReady
<1>6. ASSUME NEW p \in {0, s.plan},
             t = Ready([s EXCEPT !.task_schedule = Schedule("planner"), !.plan = p],
                       FALSE, TRUE)
      PROVE  Keeps(s, t)
  <2> DEFINE r == [s EXCEPT !.task_schedule = Schedule("planner")]
  <2>0. p \in 0..Turns
    BY TurnsAssumption DEF ETLState
  <2>1. Keeps(s, r)
    BY SchedulingKeeps, TasksAreTyped
  <2>2. r \in ETLState
    BY <2>1 DEF Keeps
  <2>3. Keeps(r, [r EXCEPT !.plan = p])
    <3> HIDE DEF r
    <3> QED
      BY <2>0, <2>2, PlannerWrites
  <2>4. Keeps(s, [s EXCEPT !.task_schedule = Schedule("planner"), !.plan = p])
    BY <2>1, <2>3
  <2>5. Keeps(s, Ready([s EXCEPT !.task_schedule = Schedule("planner"), !.plan = p],
                       FALSE, TRUE))
    BY <2>4, ReadyAfter
  <2> QED
    BY <1>6, <2>5
<1> QED
  BY <1>1, <1>2, <1>3, <1>4, <1>5, <1>6, TasksAreTyped DEF Tool

LEMMA DeployKeeps == ASSUME NEW s \in ETLState PROVE Keeps(s, Deploy(s))
<1>1. Keeps(s, [s EXCEPT !.infrastructure_request = TRUE])
  BY PlannerWrites
<1> QED
  BY <1>1, ReadyAfter DEF Deploy, NotReady

LEMMA ToolCallsKeep ==
    ASSUME NEW s \in ETLState, turn \in 0..Turns, NEW t \in ToolCalls(s)
    PROVE  Keeps(s, t)
<1>1. CASE t \in Tool(s) \/ t = NotReady(s) \/ t = Deploy(s)
  BY <1>1, ToolKeeps, DeployKeeps, ReadyKeeps DEF NotReady
<1>2. CASE \E r \in Tool(s) : t \in Tool(r) \cup {Deploy(r)}
  <2>1. PICK r \in Tool(s) : t \in Tool(r) \cup {Deploy(r)}
    BY <1>2
  <2>2. Keeps(s, r)
    BY ToolKeeps
  <2>3. r \in ETLState
    BY <2>2 DEF Keeps
  <2>4. Keeps(r, t)
    BY <2>1, <2>3, ToolKeeps, DeployKeeps
  <2> QED
    BY <2>2, <2>4, KeepsTransitive
<1> QED
  BY <1>1, <1>2 DEF ToolCalls

LEMMA SeededKeeps == ASSUME NEW s \in ETLState PROVE Keeps(s, Seeded(s))
<1>1. (s.infrastructure_request \/ ~s.infrastructure_provisioned) \in BOOLEAN
  BY DEF ETLState
<1> QED
  BY <1>1, PlannerWrites DEF Seeded

LEMMA ReplyKeeps ==
    ASSUME NEW s \in ETLState, NEW t \in Reply(s)
    PROVE  Keeps(s, t)
<1>1. Keeps(s, NotReady(s))
  BY ReadyKeeps DEF NotReady
<1>2. NotReady(s) \in ETLState
  BY <1>1 DEF Keeps
<1>3. 0 \in 0..Turns
  BY TurnsAssumption
<1>4. Keeps(NotReady(s), [NotReady(s) EXCEPT !.plan = 0])
  BY <1>2, <1>3, PlannerWrites
<1>5. Keeps(s, [NotReady(s) EXCEPT !.plan = 0])
  BY <1>1, <1>4, KeepsTransitive
<1> QED
  BY <1>1, <1>5 DEF Reply

(* The planner writes none of the channels that say what may be executed.   *)
LEMMA PlannerKeeps ==
    ASSUME NEW s \in ETLState, turn \in 0..Turns, NEW t \in PlanEtlJob(s)
    PROVE  Keeps(s, t)
<1>1. CASE t \in Reply(s) \/ t = s
  BY <1>1, ReplyKeeps, PlannerWrites
<1>2. CASE t \in Reply(Seeded(s)) \cup FastDeploy(Seeded(s)) \cup ToolCalls(Seeded(s))
  <2>1. Keeps(s, Seeded(s))
    BY SeededKeeps
  <2>2. Seeded(s) \in ETLState
    BY <2>1 DEF Keeps
  <2>3. \A r \in FastDeploy(Seeded(s)) :
            r = [Seeded(s) EXCEPT !.infrastructure_request = TRUE]
    BY DEF FastDeploy
  <2>4. Keeps(Seeded(s), [Seeded(s) EXCEPT !.infrastructure_request = TRUE])
    BY <2>2, PlannerWrites
  <2>5. Keeps(Seeded(s), t)
    BY <1>2, <2>2, <2>3, <2>4, ReplyKeeps, ToolCallsKeep
  <2> QED
    BY <2>1, <2>5, KeepsTransitive
<1> QED
  BY <1>1, <1>2 DEF PlanEtlJob
-----------------------------------------------------------------------------
(* Where the channels are between two steps.  Code in coder_definition was  *)
(* accepted, a turn has no code and no plan of metrics before code_etl, and *)
(* the nodes that execute code are only entered with code.                  *)
BeforeCode == {"avaloka_agent", "plan_etl", "provision_infra", "summarize_etl",
               "code_etl"}

CodeInv ==
    /\ HasCode(etl) => Accepted(etl.coder_definition)
    /\ node \in BeforeCode => ~HasCode(etl) /\ ~etl.structured_action_plan
    /\ node \in {"execute_locally", "execute_on_ray"} => HasCode(etl)

GInv == TypeOK /\ CodeInv /\ ByteRoutingKept

LEMMA NoCodeTyped == NoCode \in [Check -> {"none", "ok", "bad"}]
  BY DEF NoCode, Unjudged

LEMMA GraphInit == Init => GInv
<1> SUFFICES ASSUME Init PROVE GInv
  OBVIOUS
<1>1. PICK f \in Fidelity, z \in Size :
        f = (CHOOSE x \in Fidelity : TRUE) /\ z = (CHOOSE x \in Size : TRUE)
  BY FidelityAssumption, SizeAssumption
<1>2. etl \in ETLState
  BY <1>1, NoCodeTyped, TurnsAssumption DEF Init, EmptyState, ETLState, NoTask
<1>3. CodingTypeOK /\ step = "idle"
  BY InitInv DEF Init, CodingInit, IInv
<1>4. TypeOK
  BY <1>2, <1>3, TurnsAssumption DEF Init, TypeOK, Node
<1>5. CodeInv /\ ByteRoutingKept
  BY DEF Init, EmptyState, CodeInv, BeforeCode, ByteRoutingKept, HasCode
<1> QED
  BY <1>4, <1>5 DEF GInv

(* A turn starts without code and without a plan of metrics.                *)
Clean(s) == s \in ETLState /\ ~HasCode(s) /\ ~s.structured_action_plan

LEMMA InputWrites ==
    ASSUME NEW s, Clean(s)
    PROVE  /\ \A f \in Fidelity : Clean([s EXCEPT !.analysis_fidelity = f])
           /\ \A size \in Size : Clean([s EXCEPT !.size = size])
           /\ \A cloud \in BOOLEAN : Clean([s EXCEPT !.cloud = cloud])
           /\ \A defer \in {"none", "yes", "no"} :
                Clean([s EXCEPT !.analysis_defer_required = defer])
<1>1. ASSUME NEW f \in Fidelity PROVE Clean([s EXCEPT !.analysis_fidelity = f])
  BY <1>1 DEF Clean, ETLState, HasCode
<1>2. ASSUME NEW size \in Size PROVE Clean([s EXCEPT !.size = size])
  BY <1>2 DEF Clean, ETLState, HasCode
<1>3. ASSUME NEW cloud \in BOOLEAN PROVE Clean([s EXCEPT !.cloud = cloud])
  BY <1>3 DEF Clean, ETLState, HasCode
<1>4. ASSUME NEW defer \in {"none", "yes", "no"}
      PROVE  Clean([s EXCEPT !.analysis_defer_required = defer])
  BY <1>4 DEF Clean, ETLState, HasCode
<1> QED
  BY <1>1, <1>2, <1>3, <1>4

LEMMA KeepsClean == ASSUME NEW s, NEW t, Clean(s), Keeps(s, t) PROVE Clean(t)
  BY DEF Clean, Keeps, HasCode

LEMMA TurnInputClean ==
    ASSUME NEW s \in ETLState, NEW f \in Fidelity, NEW size \in Size,
           NEW cloud \in BOOLEAN, NEW defer \in {"none", "yes", "no"}
    PROVE  Clean(TurnInput(s, f, size, cloud, defer))
<1> DEFINE ray == defer = "yes" \/ (defer = "none" /\ Offloaded(f, size, cloud))
           preset == defer = "none" /\ ray /\ f = "entire_dataset"
           mode == IF ray THEN "k8s-ray" ELSE "local"
           task == IF preset THEN Schedule("server") ELSE NoTask
           r0 == Reset(s)
           r1 == [r0 EXCEPT !.analysis_fidelity = f]
           r2 == [r1 EXCEPT !.size = size]
           r3 == [r2 EXCEPT !.cloud = cloud]
           r4 == [r3 EXCEPT !.analysis_defer_required = defer]
           r5 == [r4 EXCEPT !.execution_mode = mode]
           r6 == [r5 EXCEPT !.task_schedule = task]
<1>0. TurnInput(s, f, size, cloud, defer) = r6
  BY DEF TurnInput
<1>1. Clean(r0)
  BY NoCodeTyped DEF Clean, Reset, NotReady, Ready, ETLState, HasCode
<1>2. mode \in {"local", "k8s-ray"} /\ task \in Tasks
  BY TasksAreTyped
<1> HIDE DEF mode, task, r0
<1>3. Clean(r1)
  BY <1>1, InputWrites
<1> HIDE DEF r1
<1>4. Clean(r2)
  BY <1>3, InputWrites
<1> HIDE DEF r2
<1>5. Clean(r3)
  BY <1>4, InputWrites
<1> HIDE DEF r3
<1>6. Clean(r4)
  BY <1>5, InputWrites
<1> HIDE DEF r4
<1>7. Keeps(r4, r5)
  BY <1>2, <1>6, PlannerWrites DEF Clean
<1>8. Clean(r5)
  BY <1>6, <1>7, KeepsClean
<1> HIDE DEF r5
<1>9. Keeps(r5, r6)
  BY <1>2, <1>8, SchedulingKeeps DEF Clean
<1>10. Clean(r6)
  BY <1>8, <1>9, KeepsClean
<1> HIDE DEF r6
<1> QED
  BY <1>0, <1>10

(* A new mode together with a new schedule.                                 *)
LEMMA RedirectKeeps ==
    ASSUME NEW s \in ETLState, NEW mode \in {"local", "k8s-ray"}, NEW task \in Tasks
    PROVE  Keeps(s, [s EXCEPT !.execution_mode = mode, !.task_schedule = task])
<1> DEFINE r == [s EXCEPT !.execution_mode = mode]
<1>1. Keeps(s, r)
  BY PlannerWrites
<1>2. r \in ETLState
  BY <1>1 DEF Keeps
<1>3. Keeps(r, [r EXCEPT !.task_schedule = task])
  <2> HIDE DEF r
  <2> QED
    BY <1>2, SchedulingKeeps
<1> QED
  BY <1>1, <1>3, KeepsTransitive

LEMMA ProfiledKeeps == ASSUME NEW s \in ETLState PROVE Keeps(s, Profiled(s))
<1>1. PICK mode \in {"local", "k8s-ray"}, task \in Tasks :
        Profiled(s) = [s EXCEPT !.execution_mode = mode, !.task_schedule = task]
  <2>1. s.task_schedule \in Tasks
    BY DEF ETLState, Tasks
  <2> QED
    BY <2>1, TasksAreTyped DEF Profiled
<1> QED
  BY <1>1, RedirectKeeps

LEMMA WithoutCodeTyped ==
    ASSUME NEW s \in ETLState
    PROVE  /\ WithoutCode(s) \in ETLState
           /\ WithoutCode(s).coder_definition = NoCode
           /\ WithoutCode(s).structured_action_plan = s.structured_action_plan
           /\ WithoutCode(s).analysis_defer_required = s.analysis_defer_required
  BY NoCodeTyped DEF WithoutCode, ETLState

(* The policy leaves code that was accepted, or none; a deferred analysis   *)
(* is scheduled, and one that fits is neither scheduled nor sent to Ray.    *)
LEMMA PolicyDecides ==
    ASSUME NEW s \in ETLState, s.structured_action_plan = FALSE
    PROVE  /\ Policy(s) \in ETLState
           /\ Policy(s).coder_definition \in {NoCode, s.coder_definition}
           /\ Policy(s).structured_action_plan = FALSE
           /\ Policy(s).analysis_defer_required = s.analysis_defer_required
           /\ s.analysis_defer_required = "yes" =>
                ~HasCode(Policy(s)) \/ Scheduled(Policy(s))
           /\ s.analysis_defer_required = "no" => Policy(s).execution_mode = "local"
<1>1. CASE s.analysis_defer_required = "no"
  BY <1>1, TasksAreTyped DEF Policy, ETLState, Tasks
<1>2. CASE s.analysis_defer_required = "yes" /\ s.cloud
  <2>1. Policy(s) = [s EXCEPT !.execution_mode = "k8s-ray",
                              !.task_schedule = Schedule("coder")]
    BY <1>2 DEF Policy
  <2>2. Schedule("coder") \in Tasks /\ Schedule("coder") # NoTask
    BY TasksAreTyped DEF Schedule, NoTask
  <2> HIDE DEF NoTask
  <2>3. Policy(s) \in ETLState
    BY <2>1, <2>2 DEF ETLState, Tasks
  <2>4. /\ Policy(s).task_schedule = Schedule("coder")
        /\ Policy(s).coder_definition = s.coder_definition
        /\ Policy(s).structured_action_plan = s.structured_action_plan
        /\ Policy(s).analysis_defer_required = s.analysis_defer_required
    BY <2>1 DEF ETLState
  <2> QED
    BY <1>2, <2>2, <2>3, <2>4 DEF Scheduled
<1>3. CASE s.analysis_defer_required = "yes" /\ ~s.cloud
  <2>1. Policy(s) = WithoutCode([s EXCEPT !.execution_mode = "local"])
    BY <1>3 DEF Policy
  <2>2. Keeps(s, [s EXCEPT !.execution_mode = "local"])
    BY PlannerWrites
  <2> QED
    BY <1>3, <2>1, <2>2, WithoutCodeTyped DEF Keeps, HasCode
<1>4. CASE s.analysis_defer_required = "none"
  <2>1. Policy(s) = LegacyPolicy(s)
    BY <1>4 DEF Policy
  <2>2. \/ Policy(s) = s
        \/ Policy(s) = [s EXCEPT !.execution_mode = "local"]
        \/ Policy(s) = [s EXCEPT !.execution_mode = "k8s-ray",
                                 !.task_schedule = Schedule("coder")]
    BY <2>1 DEF LegacyPolicy
  <2>3. Keeps(s, Policy(s))
    BY <2>2, PlannerWrites, RedirectKeeps, TasksAreTyped
  <2> QED
    BY <1>4, <2>3 DEF Keeps
<1> QED
  BY <1>1, <1>2, <1>3, <1>4 DEF ETLState
-----------------------------------------------------------------------------
(* One lemma per group of actions: the invariant, with what the coding      *)
(* subgraph guarantees before and after the step, holds after it.           *)
Stays == CodingTypeOK' /\ step' = step

LEMMA SendMessageInv == GInv /\ Stays /\ SendMessage => GInv'
<1> SUFFICES ASSUME GInv, Stays, SendMessage PROVE GInv'
  OBVIOUS
<1>1. etl \in ETLState /\ turn \in 0..Turns /\ node = "idle" /\ step = "idle"
  BY DEF GInv, TypeOK, SendMessage
<1>2. Clean(etl')
  BY <1>1, TurnInputClean DEF SendMessage
<1>3. node' = "avaloka_agent" /\ turn' \in 0..Turns /\ step' = "idle"
  BY <1>1, TurnsAssumption DEF SendMessage, Stays
<1>4. TypeOK'
  BY <1>2, <1>3 DEF TypeOK, Clean, Node, Stays
<1>5. CodeInv'
  BY <1>2, <1>3 DEF CodeInv, Clean, BeforeCode
<1>6. ByteRoutingKept'
  BY <1>3 DEF ByteRoutingKept
<1> QED
  BY <1>4, <1>5, <1>6 DEF GInv

(* A node that keeps the channels and does not lead to an execution.        *)
LEMMA DetourInv ==
    ASSUME GInv, Stays, UNCHANGED turn, Keeps(etl, etl'), node # "code_etl",
           node' \in Node \ {"execute_locally", "execute_on_ray", "execute_actions"},
           node' \in BeforeCode => node \in BeforeCode
    PROVE  GInv'
<1>1. TypeOK'
  BY DEF GInv, TypeOK, Stays, Keeps
<1>2. CodeInv'
  BY DEF GInv, CodeInv, Keeps, HasCode
<1>3. ByteRoutingKept'
  BY DEF ByteRoutingKept
<1> QED
  BY <1>1, <1>2, <1>3 DEF GInv

LEMMA AvalokaAgentInv == GInv /\ Stays /\ AvalokaAgent => GInv'
<1> SUFFICES ASSUME GInv, Stays, AvalokaAgent PROVE GInv'
  OBVIOUS
<1>1. etl \in ETLState /\ node = "avaloka_agent" /\ UNCHANGED turn
  BY DEF GInv, TypeOK, AvalokaAgent
<1>2. node' \in {"verify_claims", "plan_etl"}
  BY DEF AvalokaAgent
<1>3. Keeps(etl, etl')
  <2>1. CASE UNCHANGED etl
    BY <1>1, <2>1, PlannerWrites
  <2>2. ASSUME NEW mode \in {Profiled(etl).execution_mode, "local"},
               NEW a \in BOOLEAN, NEW b \in BOOLEAN,
               etl' = [Profiled(etl) EXCEPT !.execution_mode = mode,
                                            !.ready_to_code = a,
                                            !.infrastructure_request = b]
        PROVE  Keeps(etl, etl')
    <3> DEFINE r0 == Profiled(etl)
               r1 == [r0 EXCEPT !.execution_mode = mode]
               r2 == [r1 EXCEPT !.ready_to_code = a]
    <3>1. Keeps(etl, r0)
      BY <1>1, ProfiledKeeps
    <3>2. mode \in {"local", "k8s-ray"}
      BY <3>1 DEF Keeps, ETLState
    <3>3. Keeps(r0, r1)
      <4> HIDE DEF r0
      <4> QED
        BY <3>1, <3>2, PlannerWrites DEF Keeps
    <3>4. Keeps(etl, r1)
      BY <3>1, <3>3, KeepsTransitive
    <3>5. Keeps(r1, r2)
      <4> HIDE DEF r1
      <4> QED
        BY <3>4 DEF Keeps, ETLState
    <3>6. Keeps(etl, r2)
      BY <3>4, <3>5, KeepsTransitive
    <3>7. Keeps(r2, [r2 EXCEPT !.infrastructure_request = b])
      <4> HIDE DEF r2
      <4> QED
        BY <3>6, PlannerWrites DEF Keeps
    <3>8. Keeps(etl, [r2 EXCEPT !.infrastructure_request = b])
      BY <3>6, <3>7, KeepsTransitive
    <3> QED
      BY <2>2, <3>8
  <2>3. \/ UNCHANGED etl
        \/ \E intent \in {"clarification", "analysis", "infrastructure"},
              mode \in {Profiled(etl).execution_mode, "local"} :
            etl' = [Profiled(etl) EXCEPT
                      !.execution_mode = mode,
                      !.ready_to_code =
                          Profiled(etl).ready_to_code \/ intent = "analysis",
                      !.infrastructure_request =
                          Profiled(etl).infrastructure_request
                            \/ intent = "infrastructure"]
    BY DEF AvalokaAgent
  <2> QED
    BY <2>1, <2>2, <2>3
<1> QED
  BY <1>1, <1>2, <1>3, DetourInv DEF Node, BeforeCode

(* Where the planner leads, and what it leaves alone: to the provisioning   *)
(* detour only while the thread has not been provisioned for.               *)
LEMMA PlanEtlLeads ==
    ASSUME GInv, PlanEtl
    PROVE  /\ Keeps(etl, etl')
           /\ node' \in {"verify_claims", "code_etl", "summarize_etl", "schedule_task",
                         "provision_infra"}
           /\ node' = "provision_infra" => ~etl'.infrastructure_provisioned
<1> DEFINE s == [etl EXCEPT !.is_dta_request = FALSE]
<1>1. /\ etl \in ETLState /\ turn \in 0..Turns /\ node = "plan_etl"
      /\ etl' \in PlanEtlJob(s) /\ node' = RoutePlannerOutput(etl')
  BY DEF GInv, TypeOK, PlanEtl
<1>2. Keeps(etl, s)
  BY <1>1, PlannerWrites
<1>3. Keeps(s, etl')
  <2>1. s \in ETLState
    BY <1>2 DEF Keeps
  <2> HIDE DEF s
  <2> QED
    BY <1>1, <2>1, PlannerKeeps
<1>4. Keeps(etl, etl')
  BY <1>2, <1>3, KeepsTransitive
<1>5. ~HasCode(etl')
  BY <1>1, <1>4 DEF GInv, CodeInv, BeforeCode, Keeps, HasCode
<1> QED
  BY <1>1, <1>4, <1>5 DEF RoutePlannerOutput

LEMMA PlanEtlInv == GInv /\ Stays /\ PlanEtl => GInv'
<1> SUFFICES ASSUME GInv, Stays, PlanEtl PROVE GInv'
  OBVIOUS
<1>1. node = "plan_etl" /\ UNCHANGED turn
  BY DEF PlanEtl
<1> QED
  BY <1>1, PlanEtlLeads, DetourInv DEF Node, BeforeCode

LEMMA DetoursInv ==
    GInv /\ Stays /\ (SummarizeEtl \/ ProvisionInfra \/ ScheduleTask
                        \/ Visualize \/ VerifyClaims) => GInv'
<1> SUFFICES ASSUME GInv, Stays,
                    SummarizeEtl \/ ProvisionInfra \/ ScheduleTask
                      \/ Visualize \/ VerifyClaims
             PROVE  GInv'
  OBVIOUS
<1>1. etl \in ETLState
  BY DEF GInv, TypeOK
<1>2. Keeps(etl, etl)
  BY <1>1, PlannerWrites
<1>3. CASE SummarizeEtl
  <2>1. /\ node = "summarize_etl" /\ node' = "code_etl"
        /\ UNCHANGED turn /\ Keeps(etl, etl')
    BY <1>2, <1>3 DEF SummarizeEtl
  <2>2. CodeInv'
    BY <2>1 DEF GInv, CodeInv, BeforeCode, Keeps, HasCode
  <2>3. TypeOK'
    BY <1>3, <2>1 DEF GInv, TypeOK, Node, Stays, Keeps
  <2>4. ByteRoutingKept'
    BY <2>1 DEF ByteRoutingKept
  <2> QED
    BY <2>2, <2>3, <2>4 DEF GInv
<1>4. CASE ProvisionInfra
  <2>1. Keeps(etl, etl')
    BY <1>1, <1>4, PlannerWrites DEF ProvisionInfra, Provisioned
  <2> QED
    BY <1>4, <2>1, DetourInv DEF ProvisionInfra, Node, BeforeCode
<1>5. CASE ScheduleTask
  <2> DEFINE r == [etl EXCEPT !.task_operation = 0]
  <2>0. 0 \in 0..Turns
    BY TurnsAssumption
  <2>a. Keeps(etl, r)
    BY <1>1, <2>0, PlannerWrites
  <2>1. Keeps(etl, r) /\ r \in ETLState
    BY <2>a, <1>1, <2>0 DEF Keeps, ETLState
  <2>2. Keeps(r, [r EXCEPT !.task_schedule = NoTask])
    <3> HIDE DEF r
    <3> QED
      BY <2>1, SchedulingKeeps, TasksAreTyped
  <2>3. Keeps(etl, NotReady([r EXCEPT !.task_schedule = NoTask]))
    <3>1. Keeps(etl, [r EXCEPT !.task_schedule = NoTask])
      BY <2>1, <2>2, KeepsTransitive
    <3> HIDE DEF r
    <3> QED
      BY <3>1, ReadyAfter DEF NotReady
  <2>4. Keeps(etl, etl')
    BY <1>2, <1>5, <2>3 DEF ScheduleTask
  <2> QED
    BY <1>5, <2>4, DetourInv DEF ScheduleTask, Node, BeforeCode
<1>6. CASE Visualize \/ VerifyClaims
  <2>1. Keeps(etl, etl')
    BY <1>2, <1>6 DEF Visualize, VerifyClaims
  <2> QED
    BY <1>6, <2>1, DetourInv DEF Visualize, VerifyClaims, Node, BeforeCode
<1> QED
  BY <1>3, <1>4, <1>5, <1>6

LEMMA ExecuteInv ==
    GInv /\ Stays /\ (Execute \/ ExecuteStructuredActions) => GInv'
<1> SUFFICES ASSUME GInv, Stays, Execute \/ ExecuteStructuredActions PROVE GInv'
  OBVIOUS
<1>1. PICK result \in {"success", "failed"} :
        etl' = [etl EXCEPT !.execution_result = result]
  BY DEF Execute, ExecuteStructuredActions
<1>2. Keeps(etl, etl')
  BY <1>1 DEF GInv, TypeOK, Keeps, ETLState
<1>3. /\ node \in {"execute_locally", "execute_on_ray", "execute_actions"}
      /\ node' \in {"visualize", "verify_claims"}
      /\ UNCHANGED turn
  BY DEF Execute, ExecuteStructuredActions, RouteAfterExecution
<1> QED
  BY <1>2, <1>3, DetourInv DEF Node, BeforeCode
-----------------------------------------------------------------------------
(* Where code_etl leads: to an execution only with code and no schedule.    *)
LEMMA RouteAfterCodeLeads ==
    ASSUME NEW s
    PROVE  /\ RouteAfterCode(s) \in {"execute_actions", "verify_claims",
                 "schedule_task", "execute_on_ray", "execute_locally"}
           /\ RouteAfterCode(s) = "execute_actions" => s.structured_action_plan
           /\ RouteAfterCode(s) \in {"execute_on_ray", "execute_locally"}
                => HasCode(s) /\ ~Scheduled(s)
           /\ RouteAfterCode(s) = "execute_on_ray" => s.execution_mode = "k8s-ray"
  BY DEF RouteAfterCode

LEMMA CodeEtlDirectInv == GInv /\ Stays /\ CodeEtlDirect => GInv'
<1> SUFFICES ASSUME GInv, Stays, CodeEtlDirect PROVE GInv'
  OBVIOUS
<1>1. /\ etl \in ETLState /\ node = "code_etl" /\ step = "idle"
      /\ UNCHANGED turn /\ node' = RouteAfterCode(etl')
      /\ ~etl.structured_action_plan
  BY DEF GInv, TypeOK, CodeEtlDirect, CodeInv, BeforeCode
<1>2. /\ etl' \in ETLState /\ ~HasCode(etl')
      /\ etl'.analysis_defer_required = etl.analysis_defer_required
      /\ etl'.structured_action_plan => etl.analysis_defer_required # "yes"
  <2>1. Keeps(etl, NotReady(etl))
    BY <1>1, ReadyKeeps DEF NotReady
  <2>2. ASSUME NEW r \in ETLState, NEW b \in BOOLEAN
        PROVE  LET q == [r EXCEPT !.structured_action_plan = b] IN
               /\ q \in ETLState
               /\ q.structured_action_plan = b
               /\ q.analysis_defer_required = r.analysis_defer_required
    BY <2>2 DEF ETLState
  <2>3. CASE etl' = WithoutCode(NotReady(etl))
    BY <1>1, <2>1, <2>3, WithoutCodeTyped DEF Keeps, HasCode
  <2>4. CASE etl' = WithoutCode([NotReady(etl) EXCEPT
                                   !.structured_action_plan = FALSE])
    BY <2>1, <2>2, <2>4, WithoutCodeTyped DEF Keeps, HasCode
  <2>5. CASE StructuredSource(etl) /\
             etl' = WithoutCode([etl EXCEPT !.structured_action_plan = TRUE])
    BY <1>1, <2>2, <2>5, WithoutCodeTyped DEF HasCode, StructuredSource
  <2> QED
    BY <2>3, <2>4, <2>5 DEF CodeEtlDirect
<1>3. /\ node' \in {"execute_actions", "verify_claims", "schedule_task"}
      /\ node' = "execute_actions" => etl'.structured_action_plan
  BY <1>1, <1>2, RouteAfterCodeLeads
<1>4. TypeOK'
  BY <1>1, <1>2, <1>3 DEF GInv, TypeOK, Node, Stays
<1>5. CodeInv'
  BY <1>2, <1>3 DEF CodeInv, BeforeCode
<1>6. ByteRoutingKept'
  BY <1>2, <1>3 DEF ByteRoutingKept
<1> QED
  BY <1>4, <1>5, <1>6 DEF GInv

(* Inside the subgraph the graph's own channels stand still.                *)
LEMMA CodingSubgraphInv ==
    GInv /\ CodingTypeOK' /\ (CodeEtlBegin \/ CodingSubgraph) => GInv'
<1> SUFFICES ASSUME GInv, CodingTypeOK', CodeEtlBegin \/ CodingSubgraph
             PROVE  GInv'
  OBVIOUS
<1>1. node = "code_etl" /\ UNCHANGED <<turn, node, etl>>
  BY DEF CodeEtlBegin, CodingSubgraph
<1> QED
  BY <1>1 DEF GInv, TypeOK, CodeInv, ByteRoutingKept

(* The exception of a model that cannot be reached ends the invocation.     *)
LEMMA CodeEtlRaisesInv == GInv /\ CodingTypeOK' /\ CodeEtlRaises => GInv'
<1> SUFFICES ASSUME GInv, CodingTypeOK', CodeEtlRaises PROVE GInv'
  OBVIOUS
<1>1. /\ node = "code_etl" /\ node' = "idle" /\ step' = "idle"
      /\ UNCHANGED <<turn, etl>>
  BY DEF CodeEtlRaises, Finish
<1>2. TypeOK'
  BY <1>1 DEF GInv, TypeOK, Node
<1>3. CodeInv'
  BY <1>1 DEF GInv, CodeInv, BeforeCode
<1>4. ByteRoutingKept'
  BY <1>1 DEF ByteRoutingKept
<1> QED
  BY <1>2, <1>3, <1>4 DEF GInv

(* The one place where code enters the channels.                            *)
LEMMA CodeEtlEndInv == GInv /\ IInv /\ CodingTypeOK' /\ CodeEtlEnd => GInv'
<1> SUFFICES ASSUME GInv, IInv, CodingTypeOK', CodeEtlEnd PROVE GInv'
  OBVIOUS
<1>1. /\ etl \in ETLState /\ node = "code_etl" /\ step = "done"
      /\ step' = "idle" /\ UNCHANGED turn /\ node' = RouteAfterCode(etl')
      /\ ~etl.structured_action_plan /\ draft \in Draft
  BY DEF GInv, TypeOK, CodeEtlEnd, CodeInv, BeforeCode, Finish, CodingTypeOK
<1>2. CASE etl' = WithoutCode(etl)
  <2>1. /\ etl' \in ETLState /\ ~HasCode(etl')
        /\ ~etl'.structured_action_plan
    BY <1>1, <1>2, WithoutCodeTyped DEF HasCode
  <2>2. node' \in {"verify_claims", "schedule_task"}
    BY <1>1, <2>1, RouteAfterCodeLeads
  <2>3. TypeOK' /\ CodeInv' /\ ByteRoutingKept'
    BY <1>1, <2>1, <2>2
       DEF GInv, TypeOK, Node, CodeInv, BeforeCode, ByteRoutingKept
  <2> QED
    BY <2>3 DEF GInv
<1>3. CASE ~Failed(draft) /\ etl' = Policy([etl EXCEPT !.coder_definition = draft.verdict,
                                                       !.structured_action_plan = FALSE])
  <2> DEFINE s == [etl EXCEPT !.coder_definition = draft.verdict,
                              !.structured_action_plan = FALSE]
  <2>1. /\ s \in ETLState /\ s.structured_action_plan = FALSE
        /\ s.coder_definition = draft.verdict
        /\ s.analysis_defer_required = etl.analysis_defer_required
    BY <1>1 DEF ETLState, Draft
  <2>2. Accepted(draft.verdict)
    BY <1>1, <1>3, AcceptedWhenDone DEF NoErrorMeansAccepted
  <2>3. etl' = Policy(s)
    BY <1>3
  <2> HIDE DEF s
  <2>4. /\ etl' \in ETLState
        /\ etl'.coder_definition \in {NoCode, draft.verdict}
        /\ ~etl'.structured_action_plan
        /\ etl'.analysis_defer_required = "yes" => ~HasCode(etl') \/ Scheduled(etl')
        /\ etl'.analysis_defer_required = "no" => etl'.execution_mode = "local"
    BY <2>1, <2>3, PolicyDecides
  <2>5. HasCode(etl') => Accepted(etl'.coder_definition)
    BY <2>2, <2>4 DEF HasCode
  <2>6. TypeOK'
    BY <1>1, <2>4, RouteAfterCodeLeads DEF GInv, TypeOK, Node
  <2>7. CodeInv'
    BY <1>1, <2>5, RouteAfterCodeLeads DEF CodeInv, BeforeCode
  <2>8. ByteRoutingKept'
    BY <1>1, <2>4, RouteAfterCodeLeads DEF ByteRoutingKept
  <2> QED
    BY <2>6, <2>7, <2>8 DEF GInv
<1> QED
  BY <1>2, <1>3 DEF CodeEtlEnd
-----------------------------------------------------------------------------
LEMMA GraphStepInv == GInv /\ IInv /\ IInv' /\ [Next]_vars => GInv'
<1> SUFFICES ASSUME GInv, IInv, IInv', [Next]_vars PROVE GInv'
  OBVIOUS
<1>1. CodingTypeOK'
  BY DEF IInv
<1>2. CASE SendMessage \/ AvalokaAgent \/ PlanEtl
  <2>1. Stays
    BY <1>1, <1>2 DEF Stays, SendMessage, AvalokaAgent, PlanEtl, codingVars
  <2> QED
    BY <1>2, <2>1, SendMessageInv, AvalokaAgentInv, PlanEtlInv
<1>3. CASE SummarizeEtl \/ ProvisionInfra \/ ScheduleTask \/ Visualize \/ VerifyClaims
  <2>1. Stays
    BY <1>1, <1>3 DEF Stays, SummarizeEtl, ProvisionInfra, ScheduleTask, Visualize,
       VerifyClaims, codingVars
  <2> QED
    BY <1>3, <2>1, DetoursInv
<1>4. CASE Execute \/ ExecuteStructuredActions
  <2>1. Stays
    BY <1>1, <1>4 DEF Stays, Execute, ExecuteStructuredActions, codingVars
  <2> QED
    BY <1>4, <2>1, ExecuteInv
<1>5. CASE CodeEtlDirect
  <2>1. Stays
    BY <1>1, <1>5 DEF Stays, CodeEtlDirect, codingVars
  <2> QED
    BY <1>5, <2>1, CodeEtlDirectInv
<1>6. CASE CodeEtlBegin \/ CodingSubgraph \/ CodeEtlEnd \/ CodeEtlRaises
  BY <1>1, <1>6, CodingSubgraphInv, CodeEtlEndInv, CodeEtlRaisesInv
<1>7. CASE UNCHANGED vars
  BY <1>1, <1>7 DEF vars, GInv, TypeOK, CodeInv, ByteRoutingKept
<1> QED
  BY <1>2, <1>3, <1>4, <1>5, <1>6, <1>7 DEF Next, GraphStep

(* The inductive invariant of the graph holds in every run.                 *)
THEOREM GraphInvariant == Spec => []GInv
<1>1. Spec => []IInv
  BY ImplementsCoding, CodingInvariant, PTL
<1> QED
  BY <1>1, GraphInit, GraphStepInv, PTL DEF Spec

(* Every channel keeps its type.                                            *)
THEOREM GraphTypes == Spec => []TypeOK
  BY GraphInvariant, PTL DEF GInv

(* A byte routing decision holds for its turn, for any number of turns.     *)
THEOREM RoutingKept == Spec => []ByteRoutingKept
  BY GraphInvariant, PTL DEF GInv

(* Only code that every check accepted, in the form that runs, is executed. *)
THEOREM OnlyAcceptedRuns == Spec => []OnlyAcceptedCodeRuns
<1>1. GInv => OnlyAcceptedCodeRuns
  BY DEF GInv, CodeInv, OnlyAcceptedCodeRuns
<1> QED
  BY <1>1, GraphInvariant, PTL
-----------------------------------------------------------------------------
(* Turns come to an end: each step of the graph has fewer steps ahead.      *)

(* The steps the coding subgraph can still take: eight for each pass of the *)
(* coder that is left, and the checks of the present one.                   *)
PassesLeft == 8 * (3 - draft.retry_count)
CodingAhead ==
    CASE step = "idle" -> 26
      [] step = "coder" -> PassesLeft + 1
      [] step = "validator_syntax" -> PassesLeft + 7
      [] step = "validator_static" -> PassesLeft + 6
      [] step = "execute_code" -> PassesLeft + 5
      [] step = "validator_contract" -> PassesLeft + 4
      [] step = "validator_logical" -> PassesLeft + 3
      [] OTHER -> 0

(* The nodes ahead.  The planner comes before the provisioning detour until *)
(* the thread has been provisioned for, and behind it from then on.         *)
NodesAhead ==
    CASE node = "avaloka_agent" -> 9
      [] node = "plan_etl" -> IF etl.infrastructure_provisioned THEN 6 ELSE 8
      [] node = "provision_infra" -> 7
      [] node = "summarize_etl" -> 5
      [] node = "code_etl" -> 4
      [] node = "visualize" -> 2
      [] node = "verify_claims" -> 1
      [] node = "idle" -> 0
      [] OTHER -> 3

(* The nodes ahead count for more than all steps of the subgraph.           *)
LEMMA NodesCountMore ==
    ASSUME NEW m \in 0..9, NEW n \in 0..9, NEW c \in 0..31, NEW d \in 0..31
    PROVE  /\ 32 * m + c \in 0..319
           /\ m < n => 32 * m + c < 32 * n + d
           /\ m = n /\ c < d => 32 * m + c < 32 * n + d
  OBVIOUS

Ahead == 32 * NodesAhead + (IF node = "code_etl" THEN CodingAhead ELSE 0)

LEMMA CodingAheadBounded == IInv => CodingAhead \in 0..31
<1> SUFFICES ASSUME IInv PROVE CodingAhead \in 0..31
  OBVIOUS
<1>1. /\ draft.retry_count \in 0..3
      /\ step = "coder" => draft.retry_count \in 0..2
  BY DEF IInv, CodingTypeOK, Draft, PassesInv
<1>2. PassesLeft \in 0..24
  BY <1>1 DEF PassesLeft
<1> QED
  BY <1>2 DEF CodingAhead

(* Every step of the subgraph uses one of its steps up; going back to the   *)
(* coder takes a pass.                                                      *)
LEMMA CodingShrinks ==
    ASSUME IInv, IInv', CodingStep \/ Begin
    PROVE  CodingAhead' < CodingAhead
<1> USE DEF CodingAhead, PassesLeft
<1>0. /\ draft.retry_count \in 0..3 /\ draft'.retry_count \in 0..3
      /\ step = "coder" => draft.retry_count < 3
      /\ step' = "coder" => draft'.retry_count < 3
      /\ draft \in Draft
  BY DEF IInv, CodingTypeOK, Draft, PassesInv
<1>1. CASE Begin
  BY <1>0, <1>1 DEF Begin, NewDraft
<1>2. CASE Coder
  <2>1. draft'.retry_count = draft.retry_count + 1
    BY <1>0, <1>2 DEF Coder, Draft
  <2> QED
    BY <1>0, <1>2, <2>1 DEF Coder
<1>3. ASSUME NEW c \in Check, NEW bad \in BOOLEAN
      PROVE  /\ Judged(c, bad).retry_count = draft.retry_count
             /\ \A f : [Judged(c, bad) EXCEPT !.feedback = f].retry_count = draft.retry_count
  BY <1>0 DEF Judged, Draft
<1>4. CASE SyntacticValidator
  BY <1>0, <1>3, <1>4 DEF SyntacticValidator, Check
<1>5. CASE StaticSemanticValidator
  BY <1>0, <1>3, <1>5 DEF StaticSemanticValidator, Check
<1>6. CASE ExecuteCode
  BY <1>0, <1>6 DEF ExecuteCode
<1>7. CASE ContractValidator
  BY <1>0, <1>3, <1>7 DEF ContractValidator, Check
<1>8. CASE LogicalSemanticValidator
  <2>1. draft'.retry_count = draft.retry_count
    BY <1>3, <1>8 DEF LogicalSemanticValidator, Reviewed, Reviews, Check
  <2>2. step = "validator_logical" /\ step' \in {"coder", "done"}
    BY <1>8 DEF LogicalSemanticValidator, CheckValidationStatus
  <2> QED
    BY <1>0, <2>1, <2>2
<1>9. CASE ModelRaises
  BY <1>0, <1>9 DEF ModelRaises
<1> QED
  BY <1>1, <1>2, <1>4, <1>5, <1>6, <1>7, <1>8, <1>9 DEF CodingStep

LEMMA NodesAheadBounded == GInv => NodesAhead \in 0..9
  BY DEF NodesAhead, GInv, TypeOK, Node, ETLState

(* A node that is left is not come back to in the turn, but for the planner *)
(* after the one provisioning detour.                                       *)
LEMMA NodesShrink ==
    ASSUME GInv, GInv', GraphStep, ~CodeEtlBegin, ~CodingSubgraph
    PROVE  NodesAhead' < NodesAhead
<1> USE DEF NodesAhead
<1>1. CASE AvalokaAgent
  BY <1>1 DEF AvalokaAgent
<1>2. CASE PlanEtl
  BY <1>2, PlanEtlLeads DEF Keeps, PlanEtl
<1>3. CASE SummarizeEtl \/ Visualize \/ VerifyClaims \/ ScheduleTask
  BY <1>3 DEF SummarizeEtl, Visualize, VerifyClaims, ScheduleTask
<1>4. CASE ProvisionInfra
  BY <1>4 DEF ProvisionInfra, Provisioned, GInv, TypeOK, ETLState
<1>5. CASE CodeEtlDirect \/ CodeEtlEnd \/ CodeEtlRaises
  <2>1. /\ node = "code_etl"
        /\ node' \in {"idle", "execute_actions", "verify_claims", "schedule_task",
                      "execute_on_ray", "execute_locally"}
    BY <1>5, RouteAfterCodeLeads DEF CodeEtlDirect, CodeEtlEnd, CodeEtlRaises
  <2> QED
    BY <2>1
<1>6. CASE Execute \/ ExecuteStructuredActions
  <2>1. /\ node \in {"execute_locally", "execute_on_ray", "execute_actions"}
        /\ node' \in {"visualize", "verify_claims"}
    BY <1>6 DEF Execute, ExecuteStructuredActions, RouteAfterExecution
  <2> QED
    BY <2>1
<1> QED
  BY <1>1, <1>2, <1>3, <1>4, <1>5, <1>6 DEF GraphStep

(* However a turn goes, each step of the graph leaves fewer steps ahead of  *)
(* it, so no turn takes more than Ahead's 288 at its beginning: neither the *)
(* provisioning detour nor the coder's passes go round without end.         *)
THEOREM TurnsShrink ==
    Spec => [](Ahead \in 0..319) /\ [][GraphStep => Ahead' < Ahead]_vars
<1>1. GInv /\ IInv => Ahead \in 0..319
  <2> SUFFICES ASSUME GInv, IInv PROVE Ahead \in 0..319
    OBVIOUS
  <2>1. NodesAhead \in 0..9 /\ CodingAhead \in 0..31
    BY NodesAheadBounded, CodingAheadBounded
  <2> QED
    BY <2>1 DEF Ahead
<1>2. GInv /\ GInv' /\ IInv /\ IInv' /\ GraphStep => Ahead' < Ahead
  <2> SUFFICES ASSUME GInv, GInv', IInv, IInv', GraphStep PROVE Ahead' < Ahead
    OBVIOUS
  <2>a. NodesAhead \in 0..9 /\ CodingAhead \in 0..31
    BY NodesAheadBounded, CodingAheadBounded
  <2>b. (NodesAhead \in 0..9)' /\ (CodingAhead \in 0..31)'
    BY NodesAheadBounded, CodingAheadBounded, PTL
  <2>1. /\ NodesAhead \in 0..9 /\ NodesAhead' \in 0..9
        /\ CodingAhead \in 0..31 /\ CodingAhead' \in 0..31
    BY <2>a, <2>b
  <2>2. CASE CodeEtlBegin \/ CodingSubgraph
    <3>1. node = "code_etl" /\ node' = "code_etl" /\ NodesAhead' = NodesAhead
      BY <2>2 DEF CodeEtlBegin, CodingSubgraph, NodesAhead
    <3>2. CodingAhead' < CodingAhead
      BY <2>2, CodingShrinks DEF CodeEtlBegin, CodingSubgraph
    <3> QED
      BY <2>1, <3>1, <3>2, NodesCountMore DEF Ahead
  <2>3. CASE ~CodeEtlBegin /\ ~CodingSubgraph
    <3>1. NodesAhead' < NodesAhead
      BY <2>3, NodesShrink
    <3> DEFINE C == IF node = "code_etl" THEN CodingAhead ELSE 0
    <3>2. C \in 0..31 /\ C' \in 0..31
      BY <2>1
    <3>3. 32 * NodesAhead' + C' < 32 * NodesAhead + C
      <4> HIDE DEF C
      <4> QED
        BY <2>1, <3>1, <3>2, NodesCountMore
    <3> QED
      BY <3>3 DEF Ahead
  <2> QED
    BY <2>2, <2>3
<1>3. Spec => []IInv
  BY ImplementsCoding, CodingInvariant, PTL
<1> QED
  BY <1>1, <1>2, <1>3, GraphInvariant, PTL DEF Spec
=============================================================================
