----------------------------- MODULE Subagents ------------------------------
(***************************************************************************)
(* createSqliteSubagentPort (packages/host-agent/src/subagent-executor.ts) *)
(* behind the tool subagent_delegate.  All delegations here carry the same *)
(* parent attempt and execution id: the first call, calls of a resumed     *)
(* parent that takes the id again, and calls of another process; a tool    *)
(* timeout gives up waiting for one, it does not stop it.                  *)
(***************************************************************************)
EXTENDS Naturals, FiniteSets

CONSTANT Delegation

ASSUME SubagentsAssumption == "none" \notin Delegation

Status == {"Completed", "Cancelled", "Failed"}

VARIABLES
  stage,    \* each delegation: its next await, or how it came back
  child,    \* the child attempt of each delegation that made one
  run,      \* the subagent_runs row of the parent execution
  answer    \* the status each delegation returned to the tool

subagentVars == <<stage, child, run, answer>>

ChildStatus == Status \cup {"none", "turn", "open", "claimed", "Interrupted"}

SubagentsTypeOK ==
  /\ stage \in [Delegation -> {"idle", "lookup", "turn", "attempt", "createRun", "findRun", "insert",
                               "execute", "finalize", "back", "thrown", "dead"}]
  /\ child \in [Delegation -> ChildStatus]
  /\ run \in [owner : Delegation \cup {"none"}, status : Status \cup {"none", "Running"}]
  /\ answer \in [Delegation -> Status \cup {"none", "Running"}]

SubagentsInit ==
  /\ stage = [d \in Delegation |-> "idle"]
  /\ child = [d \in Delegation |-> "none"]
  /\ run = [owner |-> "none", status |-> "none"]
  /\ answer = [d \in Delegation |-> "none"]

Goes(d, s) == stage' = [stage EXCEPT ![d] = s]
Answers(d, s) == answer' = [answer EXCEPT ![d] = s]

-----------------------------------------------------------------------------
CallDelegate(d) ==
  /\ stage[d] = "idle" /\ Goes(d, "lookup")
  /\ UNCHANGED <<child, run, answer>>

(* getRunByParentExecution: a row of this parent execution is the result,  *)
(* finished or not.                                                        *)
LookUpRun(d) ==
  /\ stage[d] = "lookup"
  /\ IF run.owner = "none" THEN Goes(d, "turn") /\ UNCHANGED answer
     ELSE Goes(d, "back") /\ Answers(d, run.status)
  /\ UNCHANGED <<child, run>>

(* createTurnWithOutbox: one Turn for one idempotency key, a second insert *)
(* throws.  The faulty form has no such key.                               *)
CreateTurnUnkeyed(d) ==
  /\ stage[d] = "turn" /\ Goes(d, "attempt")
  /\ child' = [child EXCEPT ![d] = "turn"]
  /\ UNCHANGED <<run, answer>>

CreateTurn(d) ==
  /\ stage[d] = "turn"
  /\ IF \A e \in Delegation : child[e] = "none"
     THEN Goes(d, "attempt") /\ child' = [child EXCEPT ![d] = "turn"]
     ELSE Goes(d, "thrown") /\ UNCHANGED child
  /\ UNCHANGED <<run, answer>>

CreateAttempt(d) ==
  /\ stage[d] = "attempt" /\ Goes(d, "findRun")
  /\ child' = [child EXCEPT ![d] = "open"]
  /\ UNCHANGED <<run, answer>>

(* createRun: an existing row is left alone, and the delegation goes on    *)
(* with the id it made itself.                                             *)
FindRun(d) ==
  /\ stage[d] = "findRun"
  /\ Goes(d, IF run.owner = "none" THEN "insert" ELSE "execute")
  /\ UNCHANGED <<child, run, answer>>

InsertRun(d) ==
  /\ stage[d] = "insert"
  /\ IF run.owner = "none"
     THEN run' = [owner |-> d, status |-> "Running"] /\ Goes(d, "execute")
     ELSE Goes(d, "thrown") /\ UNCHANGED run
  /\ UNCHANGED <<child, answer>>

(* executeTurn claims the child attempt and runs it; the provider or the   *)
(* loop may throw before or after the claim.                               *)
ClaimChild(d) ==
  /\ stage[d] = "execute" /\ child[d] = "open"
  /\ child' = [child EXCEPT ![d] = "claimed"]
  /\ UNCHANGED <<stage, run, answer>>

Executed(d, s) ==
  /\ Goes(d, "finalize") /\ Answers(d, s)
  /\ UNCHANGED run

(* What is neither completed nor cancelled counts as failed. *)
EndChild(d, s) ==
  /\ stage[d] = "execute" /\ child[d] = "claimed"
  /\ child' = [child EXCEPT ![d] = s]
  /\ Executed(d, IF s = "Interrupted" THEN "Failed" ELSE s)

LoseChild(d) ==
  /\ stage[d] = "execute" /\ child[d] # "claimed"
  /\ Executed(d, "Failed") /\ UNCHANGED child

(* finalizeRun: the row of this delegation's run id, if it is Running; its *)
(* result is not looked at.                                                *)
FinalizeRun(d) ==
  /\ stage[d] = "finalize" /\ Goes(d, "back")
  /\ run' = IF run.owner = d /\ run.status = "Running" THEN [run EXCEPT !.status = answer[d]] ELSE run
  /\ UNCHANGED <<child, answer>>

(* The process dies before the answer reached its parent. *)
Die(d) ==
  /\ stage[d] \notin {"idle", "back", "thrown", "dead"}
  /\ Goes(d, "dead")
  /\ answer' = [answer EXCEPT ![d] = "none"]
  /\ UNCHANGED <<child, run>>

(* The recovery worker finds the lease of a claimed child expired. *)
RecoverChild(d) ==
  /\ child[d] = "claimed"
  /\ child' = [child EXCEPT ![d] = "Interrupted"]
  /\ UNCHANGED <<stage, run, answer>>

DelegationStep(d) ==
  \/ CallDelegate(d) \/ LookUpRun(d) \/ CreateTurn(d) \/ CreateAttempt(d) \/ FindRun(d) \/ InsertRun(d)
  \/ ClaimChild(d) \/ LoseChild(d) \/ FinalizeRun(d) \/ Die(d) \/ RecoverChild(d)
  \/ \E s \in Status \cup {"Interrupted"} : EndChild(d, s)

SubagentsNext == \E d \in Delegation : DelegationStep(d)

SubagentsSpec == SubagentsInit /\ [][SubagentsNext]_subagentVars

-----------------------------------------------------------------------------
(* Properties *)

(* One task is worked on once (subagent-executor.ts:10): however calls     *)
(* with one parent execution overlap or are repeated, one child runs.      *)
OneChildRuns ==
  Cardinality({d \in Delegation : child[d] \notin {"none", "turn", "open"}}) <= 1

(* What the parent is told is what the row says (subagent-executor.ts:160, *)
(* finalizeRun's result is ignored): an ending that was handed back is the *)
(* one recorded, for every caller.                                         *)
ToldIsRecorded ==
  \A d \in Delegation :
    stage[d] = "back" /\ answer[d] \in Status => run.status = answer[d]

(* "A crash or a retry uses the existing child again"                      *)
(* (subagent-executor.ts:10): with the first call dead, a later one is not *)
(* turned away by what the first left behind.                              *)
RetryUsesTheChild ==
  \A d, e \in Delegation : stage[d] = "dead" /\ child[d] # "none" => stage[e] # "thrown"

(* In every state: one child, and nothing told that is not recorded.       *)
SubagentsInvariant == SubagentsTypeOK /\ OneChildRuns /\ ToldIsRecorded
=============================================================================
