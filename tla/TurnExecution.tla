--------------------------- MODULE TurnExecution ---------------------------
(***************************************************************************)
(* The agent loop at work on one Turn (packages/agent-loop: executor.ts,   *)
(* lease-heartbeat.ts, resume.ts), together with everything that touches   *)
(* the same rows while it runs: the API route that cancels the Turn, the   *)
(* user who answers a question, the hosts that resume an expired attempt   *)
(* and the recovery worker.  Every access to the database is the operation *)
(* of AttemptStore the code calls, so each behaviour of this module is one *)
(* of AtomicSpec.                                                          *)
(*                                                                         *)
(* A run of executeTurn is a record; its pc names the next await of the    *)
(* code.  The local code between two awaits is part of the action before   *)
(* it.                                                                     *)
(***************************************************************************)
EXTENDS AttemptStore, FiniteSets, FiniteSetsExt

CONSTANTS
  Api,        \* the executor in the API process; it makes the first claim
  Call,       \* tool calls, as (name, arguments) pairs
  NoCall,     \* no call
  SafeCall,   \* calls of tools registered with replay: safe
  AskCall,    \* calls of ask_user_question
  Answer,     \* what one model stream may yield: [text : BOOLEAN, calls : Seq(Call)]
  MaxSteps,   \* options.maxSteps
  MaxCount,   \* bound: tool calls of one run
  MaxThought, \* bound: reasoning_delta events of one run
  MaxCrash,   \* bound: crashes of executors
  MayCancel   \* whether the user may cancel

Hosts  == Executor \ {Api}
ExecId == (1..MaxSteps) \X (1..MaxCount)   \* executionId, attempt:step:seq

ASSUME ExecutionAssumption ==
  /\ Api \in Executor
  /\ NoCall \notin Call
  /\ SafeCall \subseteq Call /\ AskCall \subseteq Call
  /\ Answer \subseteq [text : BOOLEAN, calls : Seq(Call)]
  /\ MaxSteps \in Nat \ {0} /\ MaxCount \in Nat /\ MaxThought \in Nat
  /\ MaxCrash \in Nat /\ MayCancel \in BOOLEAN
  /\ Ref = ExecId \cup {NoRef}
  /\ Kind = {"message", "reasoning_delta", "delta", "tool_request",
             "tool_result", "tool_approval_required"}

VARIABLES
  run,         \* the run of executeTurn in each executor
  ledger,      \* tool_executions.status by executionId, "none" without a row
  tool,        \* the call a ledger row is about
  started,     \* how often the tool behind an executionId began to run
  turnStatus,  \* turns.status
  cancelling,  \* the cancel request: its two statements are separate
  crashes      \* number of crashes so far

execVars == <<run, ledger, tool, started, turnStatus, cancelling, crashes>>
vars     == <<storeVars, execVars>>
data     == <<ledger, tool, started, turnStatus, cancelling, crashes>>

Claimed == {"message", "open", "renew", "model", "segment", "last", "batch",
            "request", "duplicate", "reserve", "execute", "running", "asking",
            "answered", "record", "hold", "approval", "budget", "finalize",
            "failing", "failTx"}

(* "rejected" also stands for timeout_error: every outcome that is known   *)
(* and is not "executed".                                                  *)
LedgerStatus == {"none", "pending", "executed", "rejected", "duplicate",
                 "pending_approval", "outcome_unknown"}

RunType == [pc      : Claimed \cup {"idle", "planned", "report"},
            seq     : 1..(MaxSeq + 1),         \* sequence, the next one to use
            step    : 1..(MaxSteps + 1),
            count   : 0..MaxCount,             \* toolCallSeq
            calls   : Seq(Call),               \* rest of the current batch
            seen    : SUBSET Call,             \* seenToolCalls
            goal    : Terminal \cup LedgerStatus, \* what is about to be committed
            lost    : BOOLEAN,                 \* heartbeat.lost
            thought : 0..MaxThought,
            plan    : 0..MaxToken]             \* resume.expectedFencingToken

Idle == [pc |-> "idle", seq |-> 1, step |-> 1, count |-> 0, calls |-> <<>>,
         seen |-> {}, goal |-> "none", lost |-> FALSE, thought |-> 0, plan |-> 0]

ExecTypeOK ==
  /\ StoreTypeOK
  /\ run \in [Executor -> RunType]
  /\ ledger \in [ExecId -> LedgerStatus]
  /\ tool \in [ExecId -> Call \cup {NoCall}]
  /\ started \in [ExecId -> Nat]
  /\ turnStatus \in {"Created", "Completed", "Failed", "Cancelled"}
  /\ cancelling \in {"no", "half", "done"}
  /\ crashes \in 0..MaxCrash

Init ==
  /\ StoreInit
  /\ run = [e \in Executor |-> Idle]
  /\ ledger = [x \in ExecId |-> "none"]
  /\ tool = [x \in ExecId |-> NoCall]
  /\ started = [x \in ExecId |-> 0]
  /\ turnStatus = "Created"
  /\ cancelling = "no"
  /\ crashes = 0

-----------------------------------------------------------------------------
(* Moves of a run *)

At(e, p) == run[e].pc = p

(* The executionId of the call at hand. *)
CurrentId(c) == <<c.step, c.count>>

Goto(e, c)  == run' = [run EXCEPT ![e] = c]
Leave(e)    == Goto(e, Idle)
Break(e)    == Goto(e, [run[e] EXCEPT !.pc = "failing"])
Past(c, p)  == [c EXCEPT !.pc = p, !.seq = @ + 1]
Finish(c, ending) == [c EXCEPT !.pc = "finalize", !.goal = ending]

InBounds(e) == run[e].seq \in 1..MaxSeq

(* Faulty variants of definitions below, each a plausible slip; no action  *)
(* uses them.                                                              *)
WriteUnguarded(e, kind, ref, done) ==
  /\ InBounds(e) /\ Free(run[e].seq)
  /\ log' = Append(log, Event(run[e].seq, kind, ref, held[e]))
  /\ UNCHANGED <<status, fencing, lease, leaseOwner, held, entry>>
  /\ Goto(e, done)

(* A fenced write of one event: it is committed and the run continues as   *)
(* done; or the token is no longer good, LeaseLostError, and the run ends; *)
(* or the sequence number is taken and the run fails.                      *)
Write(e, kind, ref, done) ==
  /\ InBounds(e)
  /\ \/ AppendFenced(e, run[e].seq, kind, ref) /\ Goto(e, done)
     \/ ~Fenced(e) /\ Leave(e) /\ UNCHANGED storeVars
     \/ Fenced(e) /\ ~Free(run[e].seq) /\ Break(e) /\ UNCHANGED storeVars

(* What follows the last word on a call: the next call of the batch, the   *)
(* next Step, or the end of the Step budget.                               *)
NextCall(c) ==
  IF Tail(c.calls) # <<>>
  THEN [c EXCEPT !.pc = "request", !.calls = Tail(@), !.goal = "none"]
  ELSE [c EXCEPT !.calls = <<>>, !.step = @ + 1, !.goal = "none",
                 !.pc = IF c.step < MaxSteps THEN "open" ELSE "budget"]

-----------------------------------------------------------------------------
(* Entering *)

(* executeTurn of a fresh attempt: the claim, then nextSequence. Nobody    *)
(* else can write before the first event, so the number is read here.      *)
StartTurn ==
  /\ ClaimFresh(Api)
  /\ Goto(Api, [Idle EXCEPT !.pc = "message", !.seq = Len(log) + 1])
  /\ UNCHANGED data

(* The claim is refused: skipped. *)
SkipTurn ==
  /\ entry = "created" /\ status # "Running"
  /\ EntryLeaves
  /\ UNCHANGED execVars

(* No provider can be built (failTurnWithError): the error event ...       *)
SetupFails ==
  /\ Len(log) < MaxSeq
  /\ FailEntry(Len(log) + 1)
  /\ UNCHANGED execVars

(* ... then the attempt, then the Turn. *)
SetupFailed ==
  /\ FailEntryStatus
  /\ Goto(Api, [Idle EXCEPT !.pc = "report", !.goal = "Failed"])
  /\ UNCHANGED data

Results   == {i \in DOMAIN log : log[i].kind = "tool_result"}
About     == {i \in DOMAIN log : log[i].ref # NoRef}
LastResult == CHOOSE i \in Results : \A j \in Results : log[j].seq <= log[i].seq
LastStep  == Max({log[i].ref[1] : i \in About})

(* The ledger rows of the Step of the last tool result. *)
LastBatch == {x \in {log[i].ref : i \in About} :
                x[1] = log[LastResult].ref[1] /\ ledger[x] # "none"}

Undetermined == {x \in LastBatch : ledger[x] \in {"pending", "outcome_unknown"}}

(* decideResume: continue after the last result if all of its Step was     *)
(* executed, or if what is undetermined belongs to replay-safe tools only. *)
MayResume ==
  /\ Results # {}
  /\ \A i \in DOMAIN log : log[i].kind \notin Terminal \ {"Failed"}
  /\ LastBatch # {}
  /\ \/ \A x \in LastBatch : ledger[x] = "executed"
     \/ /\ Undetermined # {}
        /\ \A x \in LastBatch : ledger[x] # "pending_approval"
        /\ \A x \in Undetermined : tool[x] \in SafeCall

(* A host's tick (findResumeCandidates, decideResume): an expired running  *)
(* attempt becomes a plan.  The last token is kept for the worker.         *)
HostScan(e) ==
  /\ e \in Hosts /\ At(e, "idle")
  /\ status = "Running" /\ lease = "expired" /\ fencing < MaxToken - 1
  /\ \E x \in ExecId : ledger[x] = "executed"
  /\ MayResume
  /\ Goto(e, [Idle EXCEPT !.pc = "planned", !.plan = fencing,
                          !.seq = log[LastResult].seq + 1, !.step = LastStep + 1])
  /\ UNCHANGED <<storeVars, data>>

(* The host's executor claims what was planned, or is skipped. *)
ClaimPlanned(e) ==
  /\ At(e, "planned")
  /\ \/ /\ ClaimExpired(e, run[e].plan)
        /\ Goto(e, [run[e] EXCEPT !.pc = IF run[e].step > MaxSteps THEN "budget" ELSE "open"])
     \/ /\ status # "Running" \/ fencing # run[e].plan \/ lease = "live"
        /\ Leave(e)
        /\ UNCHANGED storeVars
  /\ UNCHANGED data

(* The assistant message's identity. *)
Message(e) ==
  /\ At(e, "message")
  /\ Write(e, "message", NoRef, Past(run[e], "open"))
  /\ UNCHANGED data

-----------------------------------------------------------------------------
(* Checkpoints, lease and model *)

(* Where a checkpoint that found nothing lets the run go on. *)
AfterCheck(c) ==
  CASE c.pc = "open"   -> [c EXCEPT !.pc = "renew"]
    [] c.pc = "model"  -> c
    [] c.pc = "last"   -> Finish(c, "Completed")
    [] c.pc = "batch"  -> [c EXCEPT !.pc = "request"]
    [] c.pc = "budget" -> Finish(c, "Interrupted")

(* prematureTermination: a requested cancel, else the deletion gate (only  *)
(* the API has one), else on.  The chosen ending is committed by a later   *)
(* transaction.                                                            *)
Check(e) ==
  /\ run[e].pc \in {"open", "model", "last", "batch", "budget"}
  /\ IF status = "CancelRequested" THEN Goto(e, Finish(run[e], "Cancelled"))
     ELSE \/ Goto(e, AfterCheck(run[e]))
          \/ e = Api /\ Goto(e, Finish(run[e], "Interrupted"))
  /\ UNCHANGED <<storeVars, data>>

(* The renewal at the head of a Step. *)
RenewStep(e) ==
  /\ At(e, "renew")
  /\ \/ Renew(e) /\ Goto(e, [run[e] EXCEPT !.pc = "model"])
     \/ ~CanRenew(e) /\ Leave(e) /\ UNCHANGED storeVars
  /\ UNCHANGED data

(* LeaseHeartbeat.beat, at any time of a claimed run: it revives the lease *)
(* or finds it lost; a heartbeat that finds it alive is a stutter.         *)
Beat(e) ==
  /\ run[e].pc \in Claimed /\ ~run[e].lost
  /\ \/ lease = "expired" /\ Renew(e) /\ UNCHANGED run
     \/ ~CanRenew(e) /\ Goto(e, [run[e] EXCEPT !.lost = TRUE]) /\ UNCHANGED storeVars
  /\ UNCHANGED data

(* flushReasoning: the number is consumed first, and a refused insert is   *)
(* swallowed unless the token is no longer good.                           *)
Reasoning(e) ==
  LET c == [run[e] EXCEPT !.seq = @ + 1, !.thought = @ + 1] IN
  /\ At(e, "model") /\ run[e].thought < MaxThought /\ InBounds(e)
  /\ \/ AppendFenced(e, run[e].seq, "reasoning_delta", NoRef) /\ Goto(e, c)
     \/ Fenced(e) /\ ~Free(run[e].seq) /\ Goto(e, c) /\ UNCHANGED storeVars
     \/ ~Fenced(e) /\ Leave(e) /\ UNCHANGED storeVars
  /\ UNCHANGED data

(* The stream breaks off.  A permitted retry is a stutter. *)
ModelBreaks(e) == At(e, "model") /\ Break(e) /\ UNCHANGED <<storeVars, data>>

AfterText(calls) == IF calls = <<>> THEN "last" ELSE "batch"

(* The stream ends with text, tool calls or both. *)
ModelAnswers(e) ==
  /\ At(e, "model")
  /\ \E a \in Answer :
       Goto(e, [run[e] EXCEPT !.calls = a.calls,
                  !.pc = IF a.text THEN "segment" ELSE AfterText(a.calls)])
  /\ UNCHANGED <<storeVars, data>>

(* The text, one safe segment. *)
Segment(e) ==
  /\ At(e, "segment")
  /\ Write(e, "delta", NoRef, Past(run[e], AfterText(run[e].calls)))
  /\ UNCHANGED data

-----------------------------------------------------------------------------
(* Tool calls *)

(* tool_request under a new executionId. A call seen before in this run is *)
(* answered as a duplicate, a new one is remembered.                       *)
Request(e) ==
  LET call == Head(run[e].calls)
      c    == [run[e] EXCEPT !.count = @ + 1, !.seen = @ \cup {call}] IN
  /\ At(e, "request") /\ run[e].count < MaxCount
  /\ Write(e, "tool_request", CurrentId(c),
           Past(c, IF call \in run[e].seen THEN "duplicate" ELSE "reserve"))
  /\ UNCHANGED data

OutcomeNotAtomic(e, result) ==
  LET x == CurrentId(run[e]) IN
  /\ Write(e, "tool_result", x, NextCall(Past(run[e], "record")))
  /\ ledger' = IF ledger[x] # "none" THEN [ledger EXCEPT ![x] = result] ELSE ledger
  /\ UNCHANGED <<tool, started, turnStatus, cancelling, crashes>>

(* recordToolOutcome: result event and ledger row in one transaction; the  *)
(* row is updated if there is one.                                         *)
Outcome(e, result) ==
  LET x == CurrentId(run[e]) IN
  /\ Write(e, "tool_result", x, NextCall(Past(run[e], "record")))
  /\ ledger' = IF log' # log /\ ledger[x] # "none" THEN [ledger EXCEPT ![x] = result]
               ELSE ledger
  /\ UNCHANGED <<tool, started, turnStatus, cancelling, crashes>>

Duplicate(e) == At(e, "duplicate") /\ Outcome(e, "duplicate")

(* reserveToolExecution: insert or do nothing, without a token; its answer *)
(* alreadyReserved is not used.                                            *)
Reserve(e) ==
  LET x == CurrentId(run[e]) IN
  /\ At(e, "reserve")
  /\ IF ledger[x] = "none"
     THEN /\ ledger' = [ledger EXCEPT ![x] = "pending"]
          /\ tool' = [tool EXCEPT ![x] = Head(run[e].calls)]
     ELSE UNCHANGED <<ledger, tool>>
  /\ Goto(e, [run[e] EXCEPT !.pc = "execute"])
  /\ UNCHANGED <<storeVars, started, turnStatus, cancelling, crashes>>

(* tools.execute: the effect begins ... *)
StartTool(e) ==
  /\ At(e, "execute")
  /\ started' = [started EXCEPT ![CurrentId(run[e])] = @ + 1]
  /\ Goto(e, [run[e] EXCEPT !.pc = "running"])
  /\ UNCHANGED <<storeVars, ledger, tool, turnStatus, cancelling, crashes>>

(* ... or the provider wants an approval first and does nothing. *)
NeedsApproval(e) ==
  /\ At(e, "execute") /\ Head(run[e].calls) \notin AskCall
  /\ Goto(e, [run[e] EXCEPT !.pc = "hold"])
  /\ UNCHANGED <<storeVars, data>>

(* ask_user_question (UserQuestionCoordinator.handleAsk): the question is  *)
(* an event of its own, numbered by the length of the stream.              *)
AskUser(e) ==
  /\ At(e, "running") /\ Head(run[e].calls) \in AskCall /\ Len(log) < MaxSeq
  /\ SideAppend(Len(log) + 1)
  /\ Goto(e, [run[e] EXCEPT !.pc = "asking"])
  /\ UNCHANGED data

(* submitAnswers: the answer is the next event. *)
UserAnswers(e) ==
  /\ At(e, "asking") /\ Len(log) < MaxSeq
  /\ SideAppend(Len(log) + 1)
  /\ Goto(e, [run[e] EXCEPT !.pc = "answered"])
  /\ UNCHANGED data

(* The tool answers, fails or times out.  A question that could not be     *)
(* published (its number was taken meanwhile) is a failure.                *)
ToolReturns(e) ==
  /\ run[e].pc \in {"running", "asking", "answered"}
  /\ \E result \in {"executed", "rejected"} :
       /\ At(e, "running") /\ Head(run[e].calls) \in AskCall => result = "rejected"
       /\ Goto(e, [run[e] EXCEPT !.pc = "record", !.goal = result])
  /\ UNCHANGED <<storeVars, data>>

(* The tool throws after the heartbeat found the lease lost. *)
ToolAborts(e) ==
  /\ run[e].pc \in {"running", "asking", "answered"} /\ run[e].lost
  /\ Leave(e)
  /\ UNCHANGED <<storeVars, data>>

Record(e) == At(e, "record") /\ Outcome(e, run[e].goal)

(* updateToolExecutionResult, without a token. *)
Hold(e) ==
  /\ At(e, "hold")
  /\ ledger' = [ledger EXCEPT ![CurrentId(run[e])] = "pending_approval"]
  /\ Goto(e, [run[e] EXCEPT !.pc = "approval"])
  /\ UNCHANGED <<storeVars, tool, started, turnStatus, cancelling, crashes>>

Approval(e) ==
  /\ At(e, "approval")
  /\ Write(e, "tool_approval_required", NoRef, Finish(Past(run[e], "approval"), "Interrupted"))
  /\ UNCHANGED data

-----------------------------------------------------------------------------
(* Leaving *)

(* After a closing transaction, whether it committed or was refused, the   *)
(* loop reports its own verdict; the API acts on "completed" alone.        *)
Ended(e) ==
  Goto(e, IF e = Api /\ run[e].goal = "Completed"
          THEN [Idle EXCEPT !.pc = "report", !.goal = "Completed"] ELSE Idle)

FinalizeRun(e) ==
  /\ At(e, "finalize") /\ InBounds(e)
  /\ \/ Finalize(e, run[e].goal, run[e].seq) /\ Ended(e)
     \/ ~Fenced(e) /\ Ended(e) /\ UNCHANGED storeVars
     \/ Fenced(e) /\ ~Free(run[e].seq) /\ Break(e) /\ UNCHANGED storeVars
  /\ UNCHANGED data

(* The catch block: silent if the lease is known lost, else nextSequence   *)
(* is read ...                                                             *)
Catch(e) ==
  /\ At(e, "failing")
  /\ IF run[e].lost THEN Leave(e)
     ELSE Goto(e, [run[e] EXCEPT !.pc = "failTx", !.seq = Len(log) + 1, !.goal = "Failed"])
  /\ UNCHANGED <<storeVars, data>>

(* ... and the error is committed; a refusal is swallowed. *)
CatchCommits(e) ==
  /\ At(e, "failTx") /\ InBounds(e)
  /\ \/ Finalize(e, "Failed", run[e].seq)
     \/ ~(Fenced(e) /\ Free(run[e].seq)) /\ UNCHANGED storeVars
  /\ Leave(e)
  /\ UNCHANGED data

ReportAttempt(e) ==
  /\ At(e, "report")
  /\ turnStatus' = status
  /\ Leave(e)
  /\ UNCHANGED <<storeVars, ledger, tool, started, cancelling, crashes>>

(* runLoopTurnOnce: the verdict goes to turns.status, whatever is there. *)
Report(e) ==
  /\ At(e, "report")
  /\ turnStatus' = run[e].goal
  /\ Leave(e)
  /\ UNCHANGED <<storeVars, ledger, tool, started, cancelling, crashes>>

(* The process of an executor dies. *)
Crash(e) ==
  /\ crashes < MaxCrash
  /\ crashes' = crashes + 1
  /\ \/ /\ ~At(e, "idle") /\ Leave(e)
        /\ IF held[e] # 0 THEN Forget(e) ELSE UNCHANGED storeVars
     \/ e = Api /\ EntryLeaves /\ UNCHANGED run
  /\ UNCHANGED <<ledger, tool, started, turnStatus, cancelling>>

-----------------------------------------------------------------------------
(* The others *)

(* POST cancel, first statement: the attempt. *)
Cancel ==
  /\ MayCancel /\ RequestCancel
  /\ cancelling' = "half"
  /\ UNCHANGED <<run, ledger, tool, started, turnStatus, crashes>>

(* POST cancel, second statement: the Turn, unless it is finished. *)
CancelTurn ==
  /\ cancelling = "half"
  /\ cancelling' = "done"
  /\ turnStatus' = IF turnStatus = "Created" THEN "Cancelled" ELSE turnStatus
  /\ UNCHANGED <<storeVars, run, ledger, tool, started, crashes>>

RecoverFencesOnly ==
  /\ status = "Running" /\ lease = "expired" /\ fencing < MaxToken
  /\ fencing' = fencing + 1
  /\ UNCHANGED <<status, lease, leaseOwner, log, held, entry, execVars>>

(* The worker's recovery cycle, first statement. *)
Recover == RecoverExpired /\ UNCHANGED execVars

(* Second statement, for all attempts: it runs when the cycle recovered    *)
(* any attempt, this one or another, so at any time.                       *)
MarkUnknown ==
  /\ status \in {"Interrupted", "Failed", "Cancelled"}
  /\ \E x \in ExecId : ledger[x] = "pending"
  /\ ledger' = [x \in ExecId |-> IF ledger[x] = "pending" THEN "outcome_unknown" ELSE ledger[x]]
  /\ UNCHANGED <<storeVars, run, tool, started, turnStatus, cancelling, crashes>>

TimePasses == LeaseExpires /\ UNCHANGED execVars

-----------------------------------------------------------------------------
LoopStep(e) ==
  \/ ClaimPlanned(e) \/ Message(e) \/ Check(e) \/ RenewStep(e) \/ Reasoning(e)
  \/ ModelBreaks(e) \/ ModelAnswers(e) \/ Segment(e) \/ Request(e)
  \/ Duplicate(e) \/ Reserve(e) \/ StartTool(e) \/ NeedsApproval(e)
  \/ AskUser(e) \/ ToolReturns(e) \/ ToolAborts(e) \/ Record(e) \/ Hold(e)
  \/ Approval(e) \/ FinalizeRun(e) \/ Catch(e) \/ CatchCommits(e) \/ Report(e)

EntryStep == StartTurn \/ SkipTurn \/ SetupFails \/ SetupFailed

Next ==
  \/ EntryStep
  \/ \E e \in Executor :
       LoopStep(e) \/ Beat(e) \/ HostScan(e) \/ UserAnswers(e) \/ Crash(e)
  \/ Cancel \/ CancelTurn \/ Recover \/ MarkUnknown \/ TimePasses

Spec == Init /\ [][Next]_vars

(* A live process carries its run on: every await is answered (the         *)
(* provider and every tool have a timeout), the clock runs and the worker  *)
(* polls.  Nobody owes a cancel, an answer, a crash or a heartbeat, and no *)
(* host needs to exist.                                                    *)
FairSpec ==
  /\ Spec
  /\ WF_vars(EntryStep)
  /\ \A e \in Executor : WF_vars(LoopStep(e))
  /\ WF_vars(Recover)
  /\ WF_vars(TimePasses)
-----------------------------------------------------------------------------
(* Properties that hold *)

Logged(kind, x) == \E i \in DOMAIN log : log[i].kind = kind /\ log[i].ref = x

(* Reading by sequence number (an SSE client asks for the events after the *)
(* last one it saw, routes.ts): whoever writes, resumes, asks or fails,    *)
(* the numbers are 1, 2, 3, ... in the order of commitment, so a reader    *)
(* never misses an event committed later under a smaller number, and the   *)
(* nextSequence computed by counting rows is the right one.                *)
CommittedInSequence == \A i \in DOMAIN log : log[i].seq = i

(* Intent before effect (reservation before tools.execute): a tool that    *)
(* has begun to run, even under a preempted or crashed executor, has its   *)
(* request in the stream and a row in the ledger that is about it.         *)
EffectHasIntent ==
  \A x \in ExecId : started[x] > 0 =>
    Logged("tool_request", x) /\ ledger[x] # "none" /\ tool[x] # NoCall

(* A claim leaves at most one call open: under one token, all requested    *)
(* calls but one have their result in the stream.  Since a preempted run   *)
(* cannot request again, it can begin at most one more effect.             *)
OneOpenCallPerClaim ==
  \A i, j \in DOMAIN log :
    /\ log[i].kind = "tool_request" /\ log[j].kind = "tool_request"
    /\ log[i].token = log[j].token /\ log[i].seq < log[j].seq
    => Logged("tool_result", log[i].ref)

RequestedTwice(x) ==
  \E i, j \in DOMAIN log :
    /\ i # j /\ log[i].kind = "tool_request" /\ log[j].kind = "tool_request"
    /\ log[i].ref = x /\ log[j].ref = x

(* Ledger and stream agree (recordToolOutcomeAtomically): what the ledger  *)
(* calls executed or rejected has its result in the stream, and a call     *)
(* with a result is not pending again - unless two runs requested under    *)
(* one executionId, which a resumed run may do: then the one that was      *)
(* preempted can still reserve what the other answered as a duplicate.     *)
LedgerMatchesStream ==
  \A x \in ExecId :
    /\ ledger[x] \in {"executed", "rejected"} => Logged("tool_result", x)
    /\ Logged("tool_result", x) /\ ledger[x] \in {"pending", "outcome_unknown"} => RequestedTwice(x)

(* In every state: what was done, what the ledger says and what the stream *)
(* tells agree, under any preemption, crash and resumption.                *)
LedgerInvariant == EffectHasIntent /\ OneOpenCallPerClaim /\ LedgerMatchesStream

(* A claimed attempt is settled in the end, whatever crashes, preemptions  *)
(* and refusals happen on the way, unless the user asks to cancel it.      *)
AttemptSettles == fencing > 0 ~> status \in Terminal \cup {"CancelRequested"}

-----------------------------------------------------------------------------
(* Claims of the repository that the code does not keep *)

(* executor.ts, first checkpoint of a Step: the cancel of a claimed attempt *)
(* is carried out, not mistaken for a lost lease.                          *)
CancelIsCarriedOut ==
  (status = "CancelRequested" /\ fencing > 0) ~> status \in Terminal

(* executor.ts: a resumed run uses executionIds nobody used before, and so *)
(* a tool runs at most once per executionId.                               *)
EffectOnce == \A x \in ExecId : started[x] <= 1

(* STREAMING_PROTOCOL 4.6: an answered question wakes the loop, which goes *)
(* on with the answer.                                                     *)
AnswerIsUsed ==
  [][\A e \in Executor :
       At(e, "record") /\ Head(run[e].calls) \in AskCall /\ Fenced(e)
         => run'[e].pc # "failing"]_vars
=============================================================================
