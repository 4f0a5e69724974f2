---------------------------- MODULE CodingLoop ----------------------------
(* The coding subgraph (src/app/api/workflow.py, build_coding_graph): the   *)
(* coder writes a script, four checks look at it, and the script goes back  *)
(* to the coder until the checks accept it or three passes are used up.     *)
(* The error flags live in the graph's state and a check that is skipped    *)
(* leaves its flag as it was, so a flag need not be about the script at     *)
(* hand; verdict is history and is: it says what each check said of the     *)
(* present script.                                                          *)
EXTENDS Naturals

VARIABLES
    step,       \* the node that runs next; "idle" outside the subgraph
    draft       \* CodingAgentState

Check == {"syntax", "static", "contract", "logical"}
Step == {"idle", "coder", "validator_syntax", "validator_static",
         "execute_code", "validator_contract", "validator_logical",
         "done", "raised"}
Unjudged == [c \in Check |-> "none"]

Draft == [error : [Check -> BOOLEAN],
          retry_count : 0..3,
          coder_contract : BOOLEAN,     \* the blueprint has a contract
          refused : BOOLEAN,            \* coder_blocked_reason
          feedback : {"none", "guard", "approved"} \cup Check,
          verdict : [Check -> {"none", "ok", "bad"}]]

NewDraft == [error |-> [c \in Check |-> FALSE], retry_count |-> 0,
             coder_contract |-> FALSE, refused |-> FALSE,
             feedback |-> "none", verdict |-> Unjudged]

HardError(d) == d.error["syntax"] \/ d.error["static"]
HasError(d) == \E c \in Check : d.error[c]

(* Mutant of Failed: the reviewer's rejection does not count.               *)
NoLogicalError(d) == HardError(d) \/ d.error["contract"]
(* coding_subgraph_node's validation_failed.                                *)
Failed(d) == HasError(d)

codingVars == <<step, draft>>

CodingInit == step = "idle" /\ draft = NewDraft

Begin == step = "idle" /\ step' = "coder" /\ draft' = NewDraft

(* coder_node.  A retry keeps the blueprint unless the contract was broken  *)
(* or there is no feedback; after two hard failures a fixed stub is written *)
(* without asking the model.                                                *)
Stub == HardError(draft) /\ draft.retry_count >= 2
Blueprint == ~Stub /\ (draft.error["contract"] \/ draft.feedback = "none")

Coder ==
    /\ step = "coder"
    /\ step' = "validator_syntax"
    /\ \E contract \in IF Blueprint THEN BOOLEAN ELSE {draft.coder_contract},
          refused \in IF Stub THEN {FALSE} ELSE BOOLEAN :
        draft' = [draft EXCEPT !.retry_count = @ + 1,
                               !.error["contract"] = FALSE,
                               !.coder_contract = contract,
                               !.refused = refused,
                               !.feedback = IF refused THEN "guard" ELSE "none",
                               !.verdict = Unjudged]

Judged(c, bad) ==
    [draft EXCEPT !.error[c] = bad,
                  !.verdict[c] = IF bad THEN "bad" ELSE "ok",
                  !.feedback = IF bad THEN c ELSE @]

SyntacticValidator ==
    /\ step = "validator_syntax"
    /\ step' = "validator_static"
    /\ \E bad \in BOOLEAN : draft' = Judged("syntax", bad)

StaticSemanticValidator ==
    /\ step = "validator_static"
    /\ step' = "execute_code"
    /\ IF draft.error["syntax"]
         THEN UNCHANGED draft
         ELSE \E bad \in BOOLEAN : draft' = Judged("static", bad)

(* The sample run.  Whether it returned rows only decides whether the       *)
(* contract can be checked.                                                 *)
ExecuteCode ==
    /\ step = "execute_code"
    /\ step' = "validator_contract"
    /\ UNCHANGED draft

ContractValidator ==
    /\ step = "validator_contract"
    /\ step' = "validator_logical"
    /\ \/ UNCHANGED draft      \* no rows to check, or the check itself raised
       \/ /\ ~HardError(draft) /\ draft.coder_contract
          /\ \E bad \in BOOLEAN : draft' = Judged("contract", bad)

(* The reviewer rejects with its rationale, which may be empty, or passes   *)
(* with "APPROVED"; an answer without a usable verdict, or a reviewer that  *)
(* is switched off, passes the script too, with a text that is no complaint.*)
Reviews ==
    {[Judged("logical", TRUE) EXCEPT !.feedback = f] : f \in {"logical", "none"}}
        \cup {[Judged("logical", FALSE) EXCEPT !.feedback = "approved"]}

(* Mutant of Reviewed: scripts with a hard error are reviewed as well.      *)
AlwaysReviewed == Reviews
(* logical_semantic_validator_node: not after a hard error.                 *)
Reviewed == IF HardError(draft) THEN {draft} ELSE Reviews

(* Mutant of CheckValidationStatus: a fourth pass.                          *)
OneMorePass(d) ==
    IF HasError(d) /\ d.retry_count <= 3 THEN "coder" ELSE "done"
CheckValidationStatus(d) ==
    IF HasError(d) /\ d.retry_count < 3 THEN "coder" ELSE "done"

LogicalSemanticValidator ==
    /\ step = "validator_logical"
    /\ draft' \in Reviewed
    /\ step' = CheckValidationStatus(draft')

(* The model behind the coder or the reviewer cannot be reached.            *)
ModelRaises ==
    /\ step \in {"coder", "validator_logical"}
    /\ step' = "raised"
    /\ UNCHANGED draft

(* coding_subgraph_node takes the result, or the exception passes through.  *)
Finish == step \in {"done", "raised"} /\ step' = "idle" /\ draft' = NewDraft

CodingStep ==
    \/ Coder \/ SyntacticValidator \/ StaticSemanticValidator
    \/ ExecuteCode \/ ContractValidator \/ LogicalSemanticValidator
    \/ ModelRaises

CodingNext == Begin \/ CodingStep \/ Finish
CodingSpec == CodingInit /\ [][CodingNext]_codingVars
-----------------------------------------------------------------------------
(* The types; in particular the coder runs at most three times.             *)
CodingTypeOK == step \in Step /\ draft \in Draft

Accepted(v) ==
    /\ \A c \in {"syntax", "static", "logical"} : v[c] = "ok"
    /\ v["contract"] # "bad"

(* Code that leaves the loop without an error flag was looked at, in this   *)
(* very form, by every check that can reject it, and none did: no skipped   *)
(* check and no flag left over from an earlier pass lets it through.        *)
NoErrorMeansAccepted ==
    step = "done" /\ ~Failed(draft) => Accepted(draft.verdict)

(* A coder sent back for anything but the contract is told what a check     *)
(* that rejected its script said of it, never an approval or the message    *)
(* of an earlier pass; only a reviewer that rejects without a word sends it *)
(* back with nothing, to a new blueprint.                                   *)
RetryKnowsItsFault ==
    step = "coder" /\ draft.retry_count > 0 /\ ~draft.error["contract"]
        => \/ draft.feedback \in Check /\ draft.verdict[draft.feedback] = "bad"
           \/ draft.feedback = "none" /\ draft.verdict["logical"] = "bad"
=============================================================================
