----------------------------- MODULE HostsProofs -----------------------------
(***************************************************************************)
(* What holds of the things that run Turns and delegations, for any number *)
(* of delegations, requests, executors, ticks and attempts.                *)
(***************************************************************************)
EXTENDS MCHosts, AttemptStoreProofs, FiniteSetTheorems

(***************************************************************************)
(* Subagents.  That one child runs follows from the key of its Turn: there *)
(* is one Turn.  That its ending is told as recorded rests on more: whoever*)
(* is past the Turn made it, the run row is its row and is not there       *)
(* before it was inserted, and the row is Running until its owner ends it. *)
(***************************************************************************)
OneTurn == \A d, e \in Delegation : child[d] # "none" /\ child[e] # "none" => d = e

PastTheTurn ==
  \A d \in Delegation :
    stage[d] \in {"attempt", "findRun", "insert", "execute", "finalize"} => child[d] # "none"

RunOfTheChild ==
  /\ run.owner = "none" => run.status = "none"
  /\ run.owner # "none" => child[run.owner] # "none"
  /\ \A d \in Delegation :
       /\ stage[d] \in {"attempt", "findRun", "insert"} => run.owner = "none"
       /\ stage[d] \in {"execute", "finalize"} => run.owner = d /\ run.status = "Running"
       /\ stage[d] = "finalize" => answer[d] \in Status

SubInv == SubagentsTypeOK /\ OneTurn /\ PastTheTurn /\ RunOfTheChild /\ ToldIsRecorded

LEMMA AtMostOne ==
  ASSUME NEW S, \A x, y \in S : x = y
  PROVE  IsFiniteSet(S) /\ Cardinality(S) <= 1
<1>1. CASE S = {}
  BY <1>1, FS_EmptySet
<1>2. CASE S # {}
  <2>1. PICK x \in S : TRUE
    BY <1>2
  <2>2. S = {x}
    BY <2>1
  <2>3. IsFiniteSet({x}) /\ Cardinality({x}) = 1
    BY FS_Singleton
  <2> QED
    BY <2>2, <2>3
<1> QED
  BY <1>1, <1>2

LEMMA SubInitInv == SubagentsInit => SubInv
BY SubagentsAssumption DEF SubagentsInit, SubInv, SubagentsTypeOK, OneTurn, PastTheTurn, RunOfTheChild,
   ToldIsRecorded, Status, ChildStatus

LEMMA SubTyped ==
  ASSUME SubInv, NEW d \in Delegation, DelegationStep(d) PROVE SubagentsTypeOK'
BY DEF SubInv, SubagentsTypeOK, DelegationStep, CallDelegate, LookUpRun, CreateTurn, CreateAttempt,
       FindRun, InsertRun, ClaimChild, EndChild, LoseChild, FinalizeRun, Die, RecoverChild,
       Executed, Goes, Answers, Status, ChildStatus, RunOfTheChild

LEMMA SubStepInv ==
  ASSUME SubInv, NEW d \in Delegation, DelegationStep(d) PROVE SubInv'
<1>1. SubagentsTypeOK'
  BY SubTyped
<1> USE SubagentsAssumption DEF SubInv, SubagentsTypeOK, OneTurn, PastTheTurn, RunOfTheChild, ToldIsRecorded,
        Goes, Answers, Executed, Status, ChildStatus
<1>2. CASE CallDelegate(d)
  BY <1>1, <1>2 DEF CallDelegate
<1>3. CASE LookUpRun(d)
  BY <1>1, <1>3 DEF LookUpRun
<1>4. CASE CreateTurn(d)
  BY <1>1, <1>4 DEF CreateTurn
<1>5. CASE CreateAttempt(d)
  BY <1>1, <1>5 DEF CreateAttempt
<1>6. CASE FindRun(d)
  BY <1>1, <1>6 DEF FindRun
<1>7. CASE InsertRun(d)
  BY <1>1, <1>7 DEF InsertRun
<1>8. CASE ClaimChild(d)
  BY <1>1, <1>8 DEF ClaimChild
<1>9. CASE LoseChild(d)
  BY <1>1, <1>9 DEF LoseChild
<1>10. CASE FinalizeRun(d)
  BY <1>1, <1>10 DEF FinalizeRun
<1>11. CASE Die(d)
  BY <1>1, <1>11 DEF Die
<1>12. CASE RecoverChild(d)
  BY <1>1, <1>12 DEF RecoverChild
<1>13. ASSUME NEW s \in Status \cup {"Interrupted"}, EndChild(d, s) PROVE SubInv'
  BY <1>1, <1>13 DEF EndChild
<1> QED
  BY <1>2, <1>3, <1>4, <1>5, <1>6, <1>7, <1>8, <1>9, <1>10, <1>11, <1>12, <1>13 DEF DelegationStep

LEMMA SubInvIsEnough == SubInv => SubagentsInvariant
<1> SUFFICES ASSUME SubInv PROVE SubagentsInvariant
  OBVIOUS
<1>1. \A d, e \in {c \in Delegation : child[c] \notin {"none", "turn", "open"}} : d = e
  BY DEF SubInv, OneTurn
<1>2. OneChildRuns
  BY <1>1, AtMostOne DEF OneChildRuns
<1> QED
  BY <1>2 DEF SubInv, SubagentsInvariant

(* One child runs and its ending is told as it is recorded, for any number *)
(* of delegations and deaths (subagent-executor.ts).                       *)
THEOREM DelegatedOnce == SubagentsSpec => []SubagentsInvariant
<1>1. SubInv /\ [SubagentsNext]_subagentVars => SubInv'
  <2> SUFFICES ASSUME SubInv, [SubagentsNext]_subagentVars PROVE SubInv'
    OBVIOUS
  <2>1. CASE SubagentsNext
    BY <2>1, SubStepInv DEF SubagentsNext
  <2>2. CASE UNCHANGED subagentVars
    BY <2>2 DEF subagentVars, SubInv, SubagentsTypeOK, OneTurn, PastTheTurn, RunOfTheChild, ToldIsRecorded
  <2> QED
    BY <2>1, <2>2
<1> QED
  BY <1>1, SubInitInv, SubInvIsEnough, PTL DEF SubagentsSpec

-----------------------------------------------------------------------------
(***************************************************************************)
(* A Turn executed by an adapter.  The status follows the done event, so   *)
(* what has to be remembered in between is that the event was accepted     *)
(* under the token the activation still holds.                             *)
(***************************************************************************)
Numbered == \A e \in Executor :
  turn[e].pc \in {"message", "drain", "events", "reason", "done", "error"} => turn[e].seq # 0

DoneIsWritten ==
  \A e \in Executor : turn[e].pc = "finalize" /\ held[e] # 0 =>
    \E i \in DOMAIN log : log[i].kind = turn[e].verdict /\ log[i].token = held[e]

AdapterInv == AdapterTypeOK /\ Numbered /\ DoneIsWritten /\ CompletedWasAnnounced

LEMMA AdapterInitInv == AdapterInit => AdapterInv
BY StoreAssumption, AdapterAssumption
DEF AdapterInit, StoreInit, AdapterInv, AdapterTypeOK, StoreTypeOK, TurnType, Verdict, Numbered,
    DoneIsWritten, CompletedWasAnnounced, Active, Terminal

(* What is told stays told: the log only grows, the status is not made     *)
(* Completed and the token of a Completed attempt is kept.                 *)
LEMMA ToldStaysTold ==
  ASSUME AdapterInv, NEW ev, log' \in {log, Append(log, ev)},
         status' = "Completed" => status = "Completed" /\ fencing' = fencing
  PROVE  CompletedWasAnnounced'
<1>1. \A i \in DOMAIN log : i \in DOMAIN log' /\ log'[i] = log[i]
  BY SMTT(60) DEF AdapterInv, AdapterTypeOK, StoreTypeOK
<1> QED
  BY <1>1 DEF AdapterInv, CompletedWasAnnounced

(* A step of one activation that writes nothing. *)
LEMMA AdapterMoves ==
  ASSUME AdapterInv, NEW e \in Executor, NEW next \in TurnType,
         turn' = [turn EXCEPT ![e] = next], UNCHANGED storeVars, next.pc # "finalize",
         next.pc \in {"message", "drain", "events", "reason", "done", "error"} => next.seq # 0
  PROVE  AdapterInv'
<1> USE DEF storeVars, AdapterInv
<1>1. AdapterTypeOK'
  BY DEF AdapterTypeOK, StoreTypeOK
<1>2. \A f \in Executor : turn'[f] = IF f = e THEN next ELSE turn[f]
  BY DEF AdapterTypeOK
<1>3. Numbered'
  BY <1>2 DEF Numbered
<1>4. DoneIsWritten'
  BY <1>2 DEF DoneIsWritten
<1>5. CompletedWasAnnounced'
  BY DEF CompletedWasAnnounced
<1> QED
  BY <1>1, <1>3, <1>4, <1>5

(* An append: accepted, the event is in the log under the token held; else *)
(* the activation goes to its catch block or gives up.                     *)
LEMMA AppendOrInv ==
  ASSUME AdapterInv, NEW e \in Executor, NEW k \in Kind \cup Terminal, NEW next \in TurnType,
         NEW otherwise \in {"catch", "left"}, AppendOr(e, k, next, otherwise),
         turn[e].seq # 0, next.seq = turn[e].seq, next.pc = "finalize" => k = next.verdict
  PROVE  AdapterInv'
<1>0. turn[e] \in TurnType /\ held[e] \in 0..MaxToken
  BY DEF AdapterInv, AdapterTypeOK, StoreTypeOK
<1>1. CASE Accepted(e, k)
  <2> DEFINE ev == Event(turn[e].seq, k, NoRef, held[e])
             then == [next EXCEPT !.seq = @ + 1]
  <2>1. log' = Append(log, ev) /\ turn' = [turn EXCEPT ![e] = then]
        /\ UNCHANGED <<status, fencing, lease, leaseOwner, held, entry>>
    <3>1. Insert(e, k) /\ turn' = [turn EXCEPT ![e] = then]
      BY <1>1 DEF AppendOr
    <3> QED
      BY <3>1 DEF Insert, AppendClosing, AppendFenced
  <2>2. ev \in EventType
    BY <1>0, <1>1, StoreAssumption DEF Accepted, Event, EventType, TurnType
  <2>3. then \in TurnType /\ then.seq # 0 /\ then.pc = next.pc /\ then.verdict = next.verdict
    BY <1>0, <1>1, StoreAssumption DEF Accepted, TurnType
  <2>4. /\ log' \in Seq(EventType)
        /\ \A i \in DOMAIN log : i \in DOMAIN log' /\ log'[i] = log[i]
        /\ Len(log) + 1 \in DOMAIN log' /\ log'[Len(log) + 1] = ev
    <3> HIDE DEF ev
    <3> QED
      BY <2>1, <2>2, AppendFacts DEF AdapterInv, AdapterTypeOK, StoreTypeOK
  <2>5. \A f \in Executor : turn'[f] = IF f = e THEN then ELSE turn[f]
    BY <2>1 DEF AdapterInv, AdapterTypeOK
  <2> HIDE DEF then
  <2>6. AdapterTypeOK'
    BY <2>1, <2>3, <2>4 DEF AdapterInv, AdapterTypeOK, StoreTypeOK
  <2>7. Numbered'
    BY <2>3, <2>5 DEF AdapterInv, Numbered
  <2>8. DoneIsWritten'
    <3> SUFFICES ASSUME NEW f \in Executor, turn'[f].pc = "finalize", held'[f] # 0
                 PROVE  \E i \in DOMAIN log' : log'[i].kind = turn'[f].verdict /\ log'[i].token = held'[f]
      BY DEF DoneIsWritten
    <3>1. CASE f = e
      <4>1. ev.kind = k /\ ev.token = held[e]
        BY DEF Event
      <4> QED
        BY <3>1, <4>1, <2>1, <2>3, <2>4, <2>5
    <3>2. CASE f # e
      BY <3>2, <2>1, <2>4, <2>5 DEF AdapterInv, DoneIsWritten
    <3> QED
      BY <3>1, <3>2
  <2>9. CompletedWasAnnounced'
    BY <2>1, ToldStaysTold
  <2> QED
    BY <2>6, <2>7, <2>8, <2>9 DEF AdapterInv
<1>2. CASE ~Accepted(e, k)
  <2>1. turn' = [turn EXCEPT ![e] = [turn[e] EXCEPT !.pc = otherwise]] /\ UNCHANGED storeVars
    BY <1>2 DEF AppendOr, Goto, AdapterInv, AdapterTypeOK
  <2>2. [turn[e] EXCEPT !.pc = otherwise] \in TurnType
    BY <1>0 DEF TurnType
  <2>3. [turn[e] EXCEPT !.pc = otherwise].pc = otherwise
    BY <1>0 DEF TurnType
  <2> QED
    BY <2>1, <2>2, <2>3, AdapterMoves
<1> QED
  BY <1>1, <1>2

(* The status of the attempt, once the done event is there. *)
LEMMA SettleAsInv ==
  ASSUME AdapterInv, NEW e \in Executor, NEW outcome \in Terminal, SettleAs(e, outcome),
         outcome = "Completed" => turn[e].pc = "finalize" /\ turn[e].verdict = "Completed"
  PROVE  AdapterInv'
<1> DEFINE left == [turn[e] EXCEPT !.pc = "left"]
<1>1. /\ UNCHANGED <<fencing, lease, leaseOwner, log, held, entry>>
      /\ status' = status \/ (status' = outcome /\ Mine(e))
  BY DEF SettleAs, SetStatus, Fenced, storeVars
<1>2. turn[e] \in TurnType
  BY DEF AdapterInv, AdapterTypeOK
<1>3. turn' = [turn EXCEPT ![e] = left]
  BY DEF SettleAs, Goto, AdapterInv, AdapterTypeOK
<1>4. \A f \in Executor : turn'[f] = IF f = e THEN left ELSE turn[f]
  BY <1>3 DEF AdapterInv, AdapterTypeOK
<1>5. left \in TurnType /\ left.pc = "left"
  BY <1>2 DEF TurnType
<1> HIDE DEF left
<1>6. AdapterTypeOK'
  BY <1>1, <1>3, <1>5 DEF AdapterInv, AdapterTypeOK, StoreTypeOK
<1>7. Numbered'
  BY <1>4, <1>5 DEF AdapterInv, Numbered
<1>9. DoneIsWritten'
  BY <1>1, <1>4, <1>5 DEF AdapterInv, DoneIsWritten
<1>8. CompletedWasAnnounced'
  BY <1>1 DEF Mine, AdapterInv, DoneIsWritten, CompletedWasAnnounced
<1> QED
  BY <1>6, <1>7, <1>8, <1>9 DEF AdapterInv

(* A step of somebody else: an activation keeps its place and its token.   *)
LEMMA ElsewhereInv ==
  ASSUME AdapterInv, Elsewhere PROVE AdapterInv'
<1> USE DEF Elsewhere, RequestCancel, RecoverExpired, LeaseExpires, FailEntryStatus, EntryLeaves,
        SideAppend, FailEntry
<1>1. UNCHANGED <<turn, held, leaseOwner>>
  OBVIOUS
<1>2. log' = log \/ \E ev \in EventType : log' = Append(log, ev)
  <2>1. CASE Len(log) < MaxSeq
    <3>1. Len(log) + 1 \in 1..MaxSeq /\ 0 \in 0..MaxToken
      BY <2>1, StoreAssumption DEF AdapterInv, AdapterTypeOK, StoreTypeOK
    <3>2. Event(Len(log) + 1, "side", NoRef, 0) \in EventType /\ Event(Len(log) + 1, "Failed", NoRef, 0) \in EventType
      BY <3>1, StoreAssumption DEF Event, EventType, Terminal
    <3> QED
      BY <3>2
  <2>2. CASE ~(Len(log) < MaxSeq)
    BY <2>2
  <2> QED
    BY <2>1, <2>2
<1>3. status' = "Completed" => status = "Completed" /\ fencing' = fencing
  BY DEF Active
<1>4. /\ log' \in Seq(EventType)
      /\ \A i \in DOMAIN log : i \in DOMAIN log' /\ log'[i] = log[i]
  <2>1. log \in Seq(EventType)
    BY DEF AdapterInv, AdapterTypeOK, StoreTypeOK
  <2>2. ASSUME NEW ev \in EventType, log' = Append(log, ev)
        PROVE  /\ log' \in Seq(EventType)
               /\ \A i \in DOMAIN log : i \in DOMAIN log' /\ log'[i] = log[i]
    BY ONLY <2>1, <2>2, AppendFacts
  <2> QED
    BY ONLY <1>2, <2>1, <2>2
<1>5. CompletedWasAnnounced'
  BY <1>2, <1>3, ToldStaysTold
<1>6. /\ status' \in Active \cup Terminal /\ fencing' \in 0..MaxToken
      /\ lease' \in {"none", "live", "expired"} /\ entry' \in {"created", "failing", "left"}
  BY StoreAssumption DEF AdapterInv, AdapterTypeOK, StoreTypeOK, Active, Terminal
<1>7. AdapterTypeOK'
  BY <1>1, <1>4, <1>6 DEF AdapterInv, AdapterTypeOK, StoreTypeOK
<1>8. Numbered' /\ DoneIsWritten'
  <2> USE <1>1, <1>4 DEF AdapterInv
  <2>1. Numbered'
    BY DEF Numbered
  <2>2. DoneIsWritten'
    BY DEF DoneIsWritten
  <2> QED
    BY <2>1, <2>2
<1> QED
  BY <1>5, <1>7, <1>8 DEF AdapterInv

(* The token of an activation changes only when it claims or dies. *)
LEMMA AdapterClaimInv ==
  ASSUME AdapterInv, NEW e \in Executor, AdapterClaim(e) PROVE AdapterInv'
<1> DEFINE next == [turn[e] EXCEPT !.pc = "number"]
<1>1. /\ turn[e] \in TurnType /\ fencing \in 0..MaxToken /\ MaxToken \in Nat
      /\ turn' = [turn EXCEPT ![e] = next]
      /\ UNCHANGED <<status, log, entry>> /\ status # "Completed"
      /\ \A f \in Executor : f # e => held'[f] = held[f]
  BY StoreAssumption DEF AdapterClaim, Claim, Goto, AdapterInv, AdapterTypeOK, StoreTypeOK
<1>2. next \in TurnType /\ next.pc = "number"
  BY <1>1 DEF TurnType
<1> HIDE DEF next
<1>3. \A f \in Executor : turn'[f] = IF f = e THEN next ELSE turn[f]
  BY <1>1 DEF AdapterInv, AdapterTypeOK
<1>4. AdapterTypeOK'
  BY <1>1, <1>2 DEF AdapterClaim, Claim, AdapterInv, AdapterTypeOK, StoreTypeOK
<1>5. Numbered'
  BY <1>2, <1>3 DEF AdapterInv, Numbered
<1>6. DoneIsWritten'
  BY <1>1, <1>2, <1>3 DEF AdapterInv, DoneIsWritten
<1>7. CompletedWasAnnounced'
  BY <1>1 DEF CompletedWasAnnounced
<1> QED
  BY <1>4, <1>5, <1>6, <1>7 DEF AdapterInv

LEMMA HostDiesInv ==
  ASSUME AdapterInv, NEW e \in Executor, HostDies(e) PROVE AdapterInv'
<1> DEFINE next == [turn[e] EXCEPT !.pc = "left"]
<1>1. /\ turn[e] \in TurnType
      /\ turn' = [turn EXCEPT ![e] = next]
      /\ UNCHANGED <<status, fencing, lease, leaseOwner, log, entry>>
      /\ held' = [held EXCEPT ![e] = 0]
  BY DEF HostDies, Forget, Goto, AdapterInv, AdapterTypeOK
<1>2. next \in TurnType /\ next.pc = "left"
  BY <1>1 DEF TurnType
<1> HIDE DEF next
<1>3. \A f \in Executor : turn'[f] = IF f = e THEN next ELSE turn[f]
  BY <1>1 DEF AdapterInv, AdapterTypeOK
<1>4. AdapterTypeOK'
  BY <1>1, <1>2, StoreAssumption DEF AdapterInv, AdapterTypeOK, StoreTypeOK
<1>5. Numbered'
  BY <1>2, <1>3 DEF AdapterInv, Numbered
<1>6. DoneIsWritten'
  BY <1>1, <1>2, <1>3 DEF AdapterInv, AdapterTypeOK, StoreTypeOK, DoneIsWritten
<1>7. CompletedWasAnnounced'
  BY <1>1 DEF AdapterInv, CompletedWasAnnounced
<1> QED
  BY <1>4, <1>5, <1>6, <1>7 DEF AdapterInv

(* The steps of an activation that write nothing. *)
LEMMA AdapterQuietInv ==
  ASSUME AdapterInv, NEW e \in Executor,
         AdapterSkip(e) \/ Number(e) \/ Drain(e) \/ Conclude(e)
  PROVE  AdapterInv'
<1>1. turn[e] \in TurnType /\ turn \in [Executor -> TurnType] /\ MaxSeq \in Nat /\ Len(log) \in Nat
  BY StoreAssumption DEF AdapterInv, AdapterTypeOK, StoreTypeOK
<1>2. turn[e].pc \in {"message", "drain", "events", "reason", "done", "error"} => turn[e].seq # 0
  BY DEF AdapterInv, Numbered
<1>3. UNCHANGED storeVars
  BY DEF AdapterSkip, Number, Drain, Conclude
<1>4. \E next \in TurnType :
        /\ turn' = [turn EXCEPT ![e] = next]
        /\ next.pc # "finalize"
        /\ next.pc \in {"message", "drain", "events", "reason", "done", "error"} => next.seq # 0
  <2>1. CASE AdapterSkip(e)
    <3>1. turn' = [turn EXCEPT ![e] = [turn[e] EXCEPT !.pc = "left"]]
      BY <1>1, <2>1 DEF AdapterSkip, Goto
    <3>2. [turn[e] EXCEPT !.pc = "left"] \in TurnType /\ [turn[e] EXCEPT !.pc = "left"].pc = "left"
      BY <1>1 DEF TurnType
    <3> QED
      BY <3>1, <3>2
  <2>2. CASE Number(e)
    <3> DEFINE next == [turn[e] EXCEPT !.seq = Len(log) + 1,
                                       !.pc = IF @ = "number" THEN "message" ELSE "error"]
    <3>1. turn' = [turn EXCEPT ![e] = next]
      BY <1>1, <2>2 DEF Number
    <3>2. next \in TurnType /\ next.pc # "finalize" /\ next.seq # 0
      BY <1>1, <2>2 DEF TurnType, Number
    <3> QED
      BY <3>1, <3>2
  <2>3. CASE Drain(e)
    <3>1. CASE Goto(e, "catch")
      <4>1. turn' = [turn EXCEPT ![e] = [turn[e] EXCEPT !.pc = "catch"]]
        BY <1>1, <3>1 DEF Goto
      <4>2. [turn[e] EXCEPT !.pc = "catch"] \in TurnType /\ [turn[e] EXCEPT !.pc = "catch"].pc = "catch"
        BY <1>1 DEF TurnType
      <4> QED
        BY <4>1, <4>2
    <3>2. ASSUME NEW n \in 0..MaxEvents, NEW v \in Verdict,
                 turn' = [turn EXCEPT ![e].pc = "events", ![e].todo = n, ![e].verdict = v]
          PROVE  \E next \in TurnType :
                   /\ turn' = [turn EXCEPT ![e] = next]
                   /\ next.pc # "finalize"
                   /\ next.pc \in {"message", "drain", "events", "reason", "done", "error"} => next.seq # 0
      <4> DEFINE next == [turn[e] EXCEPT !.pc = "events", !.todo = n, !.verdict = v]
      <4>1. turn' = [turn EXCEPT ![e] = next]
        BY <1>1, <3>2
      <4>2. next \in TurnType /\ next.pc = "events" /\ next.seq = turn[e].seq
        BY <1>1 DEF TurnType
      <4> QED
        BY <4>1, <4>2, <1>2, <2>3 DEF Drain
    <3> QED
      BY <2>3, <3>1, <3>2 DEF Drain
  <2>4. CASE Conclude(e)
    <3> DEFINE to == IF turn[e].verdict = "Completed" THEN "done" ELSE "reason"
               next == [turn[e] EXCEPT !.pc = to]
    <3>1. turn' = [turn EXCEPT ![e] = next]
      BY <1>1, <2>4 DEF Conclude, Goto
    <3>2. next \in TurnType /\ next.pc # "finalize" /\ next.seq = turn[e].seq
      BY <1>1 DEF TurnType
    <3> QED
      BY <3>1, <3>2, <1>2, <2>4 DEF Conclude
  <2> QED
    BY <2>1, <2>2, <2>3, <2>4
<1> QED
  BY <1>3, <1>4, AdapterMoves

LEMMA AdapterWritesInv ==
  ASSUME AdapterInv, NEW e \in Executor,
         Announce(e) \/ WriteEvent(e) \/ WriteReason(e) \/ WriteDone(e) \/ WriteError(e)
  PROVE  AdapterInv'
<1>1. turn[e] \in TurnType /\ {"message", "event"} \subseteq Kind /\ "Failed" \in Terminal
  BY AdapterAssumption DEF AdapterInv, AdapterTypeOK, Terminal
<1>2. turn[e].pc \in {"message", "events", "reason", "done", "error"} => turn[e].seq # 0
  BY DEF AdapterInv, Numbered
<1>3. CASE Announce(e)
  <2>1. [turn[e] EXCEPT !.pc = "drain"] \in TurnType /\ [turn[e] EXCEPT !.pc = "drain"].seq = turn[e].seq
        /\ [turn[e] EXCEPT !.pc = "drain"].pc = "drain"
    BY <1>1 DEF TurnType
  <2> QED
    BY <1>1, <1>2, <1>3, <2>1, AppendOrInv DEF Announce
<1>4. CASE WriteEvent(e)
  <2> DEFINE next == [turn[e] EXCEPT !.todo = @ - 1]
  <2>1. next \in TurnType /\ next.seq = turn[e].seq /\ next.pc = "events"
    BY <1>1, <1>4, AdapterAssumption DEF TurnType, WriteEvent
  <2>2. AppendOr(e, "event", next, "catch") /\ turn[e].seq # 0
    BY <1>2, <1>4 DEF WriteEvent
  <2> HIDE DEF next
  <2> QED
    BY <1>1, <2>1, <2>2, AppendOrInv
<1>5. CASE WriteReason(e)
  <2>1. [turn[e] EXCEPT !.pc = "done"] \in TurnType /\ [turn[e] EXCEPT !.pc = "done"].seq = turn[e].seq
        /\ [turn[e] EXCEPT !.pc = "done"].pc = "done"
    BY <1>1 DEF TurnType
  <2> QED
    BY <1>1, <1>2, <1>5, <2>1, AppendOrInv DEF WriteReason
<1>6. CASE WriteDone(e)
  <2> DEFINE next == [turn[e] EXCEPT !.pc = "finalize"]
  <2>1. next \in TurnType /\ next.seq = turn[e].seq /\ next.verdict = turn[e].verdict
        /\ turn[e].verdict \in Terminal
    BY <1>1 DEF TurnType, Verdict, Terminal
  <2>2. AppendOr(e, turn[e].verdict, next, "catch") /\ turn[e].seq # 0
    BY <1>2, <1>6 DEF WriteDone
  <2> HIDE DEF next
  <2> QED
    BY <2>1, <2>2, AppendOrInv
<1>7. CASE WriteError(e)
  <2>1. [turn[e] EXCEPT !.pc = "failed"] \in TurnType /\ [turn[e] EXCEPT !.pc = "failed"].seq = turn[e].seq
        /\ [turn[e] EXCEPT !.pc = "failed"].pc = "failed"
    BY <1>1 DEF TurnType
  <2> QED
    BY <1>1, <1>2, <1>7, <2>1, AppendOrInv DEF WriteError
<1> QED
  BY <1>3, <1>4, <1>5, <1>6, <1>7

LEMMA AdapterStepInv == AdapterInv /\ [AdapterNext]_adapterVars => AdapterInv'
<1> SUFFICES ASSUME AdapterInv, [AdapterNext]_adapterVars PROVE AdapterInv'
  OBVIOUS
<1>1. ASSUME NEW e \in Executor, AdapterStep(e) PROVE AdapterInv'
  <2>1. CASE FinalizeTurn(e)
    <3>1. turn[e].verdict \in Terminal
      BY DEF AdapterInv, AdapterTypeOK, TurnType, Verdict, Terminal
    <3> QED
      BY <2>1, <3>1, SettleAsInv DEF FinalizeTurn
  <2>2. CASE FinalizeFailed(e)
    BY <2>2, SettleAsInv DEF FinalizeFailed, Terminal
  <2> QED
    BY <1>1, <2>1, <2>2, AdapterQuietInv, AdapterWritesInv DEF AdapterStep
<1>2. CASE UNCHANGED adapterVars
  BY <1>2 DEF adapterVars, storeVars, AdapterInv, AdapterTypeOK, StoreTypeOK, Numbered, DoneIsWritten,
              CompletedWasAnnounced
<1> QED
  BY <1>1, <1>2, AdapterClaimInv, HostDiesInv, ElsewhereInv DEF AdapterNext

(* An attempt an adapter completed has its done event, for any number of   *)
(* activations, tokens and events (adapter-turn.ts:115).                   *)
THEOREM CompletionsAreAnnounced == AdapterSpec => []AdapterInvariant
<1>1. AdapterInv => AdapterInvariant
  BY DEF AdapterInv, AdapterInvariant
<1> QED
  BY <1>1, AdapterInitInv, AdapterStepInv, PTL DEF AdapterSpec

-----------------------------------------------------------------------------
(***************************************************************************)
(* The polling loop of an agent host.  runningCount is the number of slots *)
(* in use, counted attempt by attempt, and it is 0 in a host that stopped  *)
(* and drained; the rest is what keeps the fields in their types.          *)
(***************************************************************************)
SlotsCounted ==
  /\ IsFiniteSet(InFlight) /\ Cardinality(InFlight) = runningCount
  /\ runningCount <= maxConcurrency
  /\ \A a \in Attempt : Jobs(a) <= maxConcurrency

HostInv ==
  /\ HostTypeOK
  /\ SlotsCounted
  /\ \A a \in Attempt : job[a].claimed > 0 => row[a] = "claimed"
  /\ timer => intervals > 0
  /\ starter # "none" => intervals < MaxTimers
  /\ stopped /\ ~draining => runningCount = 0

(* The order of the source is a strict order of finitely many attempts. *)
LEMMA AttemptsFinite == IsFiniteSet(Attempt)
<1>1. Order \in Surjection(1..Len(Order), Attempt) /\ Len(Order) \in Nat
  BY HostAssumption DEF Surjection, Range
<1>2. IsFiniteSet(1..Len(Order))
  BY <1>1, FS_Interval
<1> QED
  BY <1>1, <1>2, FS_Surjection

LEMMA PrecedesOrders ==
  ASSUME NEW a \in Attempt, NEW b \in Attempt
  PROVE  /\ ~Precedes(a, a)
         /\ a # b => Precedes(a, b) \/ Precedes(b, a)
         /\ \A c \in Attempt : Precedes(c, a) /\ Precedes(a, b) => Precedes(c, b)
<1> USE HostAssumption DEF Precedes
<1>1. DOMAIN Order \subseteq Nat /\ \A c \in Attempt : \E i \in DOMAIN Order : Order[i] = c
  BY DEF Range
<1>2. ~Precedes(a, a)
  BY <1>1
<1>3. a # b => Precedes(a, b) \/ Precedes(b, a)
  BY <1>1
<1>4. ASSUME NEW c \in Attempt, Precedes(c, a), Precedes(a, b) PROVE Precedes(c, b)
  <2>1. PICK i, j \in DOMAIN Order : i < j /\ Order[i] = c /\ Order[j] = a
    BY <1>4
  <2>2. PICK k, l \in DOMAIN Order : k < l /\ Order[k] = a /\ Order[l] = b
    BY <1>4
  <2>3. j = k
    BY <2>1, <2>2
  <2> QED
    BY <1>1, <2>1, <2>2, <2>3
<1> QED
  BY <1>2, <1>3, <1>4

(* The first n are at most n: an attempt is determined by how many of the  *)
(* others precede it.                                                      *)
LEMMA FirstOfIsBounded ==
  ASSUME NEW n \in Nat, NEW S \in SUBSET Attempt
  PROVE  /\ FirstOf(n, S) \subseteq S
         /\ IsFiniteSet(FirstOf(n, S)) /\ Cardinality(FirstOf(n, S)) \in 0..n
<1> DEFINE Ahead(a) == {b \in S : Precedes(b, a)}
           F == FirstOf(n, S)
           rank == [a \in F |-> Cardinality(Ahead(a)) + 1]
<1>1. F \subseteq S /\ S \subseteq Attempt
  BY DEF FirstOf
<1>2. \A a \in Attempt : IsFiniteSet(Ahead(a)) /\ Cardinality(Ahead(a)) \in Nat
  <2> SUFFICES ASSUME NEW a \in Attempt PROVE IsFiniteSet(Ahead(a)) /\ Cardinality(Ahead(a)) \in Nat
    OBVIOUS
  <2>1. Ahead(a) \in SUBSET Attempt
    OBVIOUS
  <2> QED
    BY <2>1, AttemptsFinite, FS_Subset, FS_CardinalityType
<1>3. ASSUME NEW a \in F, NEW b \in F, Precedes(a, b) PROVE Cardinality(Ahead(a)) # Cardinality(Ahead(b))
  <2>1. Ahead(a) \in SUBSET Ahead(b)
    BY <1>1, <1>3, PrecedesOrders
  <2>2. a \in Ahead(b) /\ a \notin Ahead(a)
    BY <1>1, <1>3, PrecedesOrders
  <2>3. IsFiniteSet(Ahead(b))
    BY <1>1, <1>2
  <2> HIDE DEF Ahead
  <2> QED
    BY <2>1, <2>2, <2>3, FS_Subset
<1>4. \A a \in F : Cardinality(Ahead(a)) < n
  BY DEF FirstOf
<1>5. rank \in Injection(F, 1..n)
  <2>1. \A a \in F : Cardinality(Ahead(a)) + 1 \in 1..n
    <3> HIDE DEF Ahead, F
    <3> QED
      BY <1>1, <1>2, <1>4
  <2>2. \A a, b \in F : Cardinality(Ahead(a)) + 1 = Cardinality(Ahead(b)) + 1 => a = b
    <3> SUFFICES ASSUME NEW a \in F, NEW b \in F, a # b PROVE Cardinality(Ahead(a)) # Cardinality(Ahead(b))
      BY <1>1, <1>2
    <3>1. Precedes(a, b) \/ Precedes(b, a)
      BY <1>1, PrecedesOrders
    <3> QED
      BY <3>1, <1>3
  <2> HIDE DEF Ahead, F
  <2> QED
    BY <2>1, <2>2 DEF Injection, IsInjective
<1>6. IsFiniteSet(1..n) /\ Cardinality(1..n) = n
  BY FS_Interval
<1>7. IsFiniteSet(F) /\ Cardinality(F) <= n
  <2> HIDE DEF rank, F
  <2> QED
    BY <1>5, <1>6, FS_Injection
<1> QED
  BY <1>1, <1>7, FS_CardinalityType

LEMMA HostFields ==
  ASSUME HostInv
  PROVE  /\ runningCount \in Nat /\ maxConcurrency \in Nat \ {0} /\ MaxTimers \in Nat /\ "none" \notin Tick
         /\ \A a \in Attempt : /\ job[a] \in [new : Nat, claimed : 0..1] /\ Jobs(a) \in Nat
                              /\ job[a].new \in Nat /\ job[a].claimed \in 0..1
BY HostAssumption DEF HostInv, HostTypeOK, Jobs

(* A slot more for each attempt of a set. *)
LEMMA SlotsAdded ==
  ASSUME HostInv, NEW T \in SUBSET Attempt, IsFiniteSet(T),
         runningCount + Cardinality(T) <= maxConcurrency,
         \A a \in Attempt : Jobs(a)' = IF a \in T THEN Jobs(a) + 1 ELSE Jobs(a),
         runningCount' = runningCount + Cardinality(T)
  PROVE  SlotsCounted'
<1> DEFINE next == [a \in T |-> <<a, Jobs(a) + 1>>]
           Added == {<<a, Jobs(a) + 1>> : a \in T}
<1>1. /\ runningCount \in Nat /\ maxConcurrency \in Nat \ {0}
      /\ \A a \in Attempt : Jobs(a) \in Nat /\ Jobs(a) <= maxConcurrency
  BY HostFields DEF HostInv, SlotsCounted
<1>2. IsFiniteSet(Added) /\ Cardinality(Added) = Cardinality(T)
  <2>1. next \in Bijection(T, Added)
    BY DEF Bijection, Injection, Surjection, IsInjective
  <2> HIDE DEF next, Added
  <2> QED
    BY <2>1, FS_Bijection DEF ExistsBijection
<1>3. InFlight' = InFlight \cup Added
  <2>1. ASSUME NEW a \in Attempt, NEW i \in 1..maxConcurrency + 1
        PROVE  i <= Jobs(a)' <=> i <= Jobs(a) \/ <<a, i>> \in Added
    BY <1>1
  <2>2. Added \subseteq Attempt \X (1..maxConcurrency + 1)
    BY <1>1
  <2> HIDE DEF Added
  <2>3. InFlight' \subseteq InFlight \cup Added
    BY <2>1 DEF InFlight
  <2>4. InFlight \cup Added \subseteq InFlight'
    BY <2>1, <2>2 DEF InFlight
  <2> QED
    BY <2>3, <2>4
<1>4. InFlight \cap Added = {}
  BY <1>1 DEF InFlight
<1>5. IsFiniteSet(InFlight') /\ Cardinality(InFlight') = runningCount'
  <2>1. IsFiniteSet(InFlight) /\ Cardinality(InFlight) = runningCount
    BY DEF HostInv, SlotsCounted
  <2>2. Cardinality(InFlight \cap Added) = 0
    BY <1>4, FS_EmptySet
  <2> HIDE DEF Added
  <2>3. /\ IsFiniteSet(InFlight \cup Added)
        /\ Cardinality(InFlight \cup Added)
             = Cardinality(InFlight) + Cardinality(Added) - Cardinality(InFlight \cap Added)
    BY <2>1, <1>2, FS_Union
  <2>4. Cardinality(T) \in Nat
    BY FS_CardinalityType
  <2> QED
    BY <1>1, <1>2, <1>3, <2>1, <2>2, <2>3, <2>4
<1>6. ASSUME NEW a \in Attempt, Jobs(a)' > maxConcurrency PROVE FALSE
  <2> DEFINE mine == [i \in 1..maxConcurrency + 1 |-> <<a, i>>]
  <2>1. Jobs(a)' = maxConcurrency + 1
    BY <1>1, <1>6
  <2>2. mine \in Injection(1..maxConcurrency + 1, InFlight')
    <3>1. \A i \in 1..maxConcurrency + 1 : <<a, i>> \in InFlight'
      BY <1>1, <2>1 DEF InFlight
    <3> QED
      BY <3>1 DEF Injection, IsInjective
  <2>3. Cardinality(1..maxConcurrency + 1) = maxConcurrency + 1
    BY <1>1, FS_Interval
  <2> HIDE DEF mine
  <2>4. Cardinality(1..maxConcurrency + 1) <= Cardinality(InFlight')
    BY <1>5, <2>2, FS_Injection
  <2>5. Cardinality(T) \in Nat
    BY FS_CardinalityType
  <2> QED
    BY <1>1, <1>5, <2>3, <2>4, <2>5
<1> QED
  BY <1>1, <1>5, <1>6 DEF SlotsCounted

(* A slot less for one of them. *)
LEMMA SlotReturned ==
  ASSUME HostInv, NEW a \in Attempt, Jobs(a) > 0,
         \A b \in Attempt : Jobs(b)' = IF b = a THEN Jobs(b) - 1 ELSE Jobs(b),
         runningCount' = runningCount - 1
  PROVE  SlotsCounted' /\ runningCount' \in Nat
<1>1. /\ runningCount \in Nat /\ maxConcurrency \in Nat \ {0}
      /\ \A b \in Attempt : Jobs(b) \in Nat /\ Jobs(b) <= maxConcurrency
  BY HostFields DEF HostInv, SlotsCounted
<1>2. InFlight' = InFlight \ {<<a, Jobs(a)>>}
  <2>1. ASSUME NEW b \in Attempt, NEW i \in 1..maxConcurrency + 1
        PROVE  i <= Jobs(b)' <=> i <= Jobs(b) /\ <<b, i>> # <<a, Jobs(a)>>
    BY <1>1
  <2>2. \A s \in Attempt \X (1..maxConcurrency + 1) : s[1] \in Attempt /\ s[2] \in 1..maxConcurrency + 1 /\ s = <<s[1], s[2]>>
    OBVIOUS
  <2> QED
    BY <2>1, <2>2 DEF InFlight
<1>3. <<a, Jobs(a)>> \in InFlight
  BY <1>1 DEF InFlight
<1>4. /\ IsFiniteSet(InFlight') /\ Cardinality(InFlight') = runningCount'
  BY <1>2, <1>3, FS_RemoveElement DEF HostInv, SlotsCounted
<1>5. runningCount' \in Nat
  BY <1>4, FS_CardinalityType
<1> QED
  BY <1>1, <1>4, <1>5 DEF HostInv, SlotsCounted

LEMMA SlotsStay ==
  ASSUME HostInv, UNCHANGED runningCount, \A a \in Attempt : Jobs(a)' = Jobs(a) PROVE SlotsCounted'
<1>1. InFlight' = InFlight
  BY DEF InFlight
<1> QED
  BY <1>1 DEF HostInv, SlotsCounted

LEMMA HostInitInv == HostInit => HostInv
<1> SUFFICES ASSUME HostInit PROVE HostInv
  OBVIOUS
<1>1. HostTypeOK
  <2>1. tick \in [Tick -> [pc : {"idle", "list", "loop"}, slots : 0..maxConcurrency, list : SUBSET Attempt]]
    <3>1. 0 \in 0..maxConcurrency
      BY HostAssumption
    <3> QED
      BY <3>1 DEF HostInit
  <2>2. 0 \in 0..MaxTimers
    BY HostAssumption
  <2>3. job \in [Attempt -> [new : Nat, claimed : 0..1]]
    BY DEF HostInit
  <2> QED
    BY <2>1, <2>2, <2>3 DEF HostInit, HostTypeOK
<1>2. \A a \in Attempt : job[a] = [new |-> 0, claimed |-> 0] /\ Jobs(a) = 0
  BY DEF HostInit, Jobs
<1>3. InFlight = {}
  <2>1. \A s \in Attempt \X (1..maxConcurrency + 1) : s[1] \in Attempt /\ s[2] \in 1..maxConcurrency + 1
    OBVIOUS
  <2> QED
    BY <1>2, <2>1, HostAssumption DEF InFlight
<1>4. SlotsCounted
  BY <1>2, <1>3, FS_EmptySet, HostAssumption DEF SlotsCounted, HostInit
<1> QED
  BY <1>1, <1>2, <1>4, HostAssumption DEF HostInv, HostInit

(* Up to its await a tick touches nothing but itself. *)
LEMMA TickTyped ==
  ASSUME HostInv, NEW t \in Tick, NEW isStopped, TickBegins(t, isStopped)
  PROVE  tick' \in [Tick -> [pc : {"idle", "list", "loop"}, slots : 0..maxConcurrency, list : SUBSET Attempt]]
<1>1. runningCount < maxConcurrency => maxConcurrency - runningCount \in 0..maxConcurrency
  BY HostFields
<1>2. CASE isStopped \/ runningCount >= maxConcurrency
  BY <1>2 DEF TickBegins, HostInv, HostTypeOK
<1>3. CASE ~(isStopped \/ runningCount >= maxConcurrency)
  <2>1. maxConcurrency - runningCount \in 0..maxConcurrency
    BY <1>3, HostFields
  <2> QED
    BY <1>3, <2>1 DEF TickBegins, HostInv, HostTypeOK
<1> QED
  BY <1>2, <1>3

LEMMA TicksInv ==
  ASSUME HostInv, NEW t \in Tick, List(t) \/ Beat(t) PROVE HostInv'
<1>1. UNCHANGED <<runningCount, stopped, draining, started, intervals, timer, starter, stopper, row, job>>
  BY DEF List, Beat
<1>2. tick' \in [Tick -> [pc : {"idle", "list", "loop"}, slots : 0..maxConcurrency, list : SUBSET Attempt]]
  <2>1. CASE List(t)
    <3>1. FirstOf(tick[t].slots, {a \in Attempt : row[a] = "claimable"}) \in SUBSET Attempt
      BY DEF FirstOf
    <3> HIDE DEF FirstOf
    <3> QED
      BY <2>1, <3>1, ZenonT(60) DEF List, HostInv, HostTypeOK
  <2>2. CASE Beat(t)
    BY <2>2, TickTyped DEF Beat
  <2> QED
    BY <2>1, <2>2
<1>3. SlotsCounted'
  BY <1>1, SlotsStay DEF Jobs
<1> QED
  BY <1>1, <1>2, <1>3 DEF HostInv, HostTypeOK

LEMMA StartStopInv ==
  ASSUME HostInv, (\E t \in Tick : Start(t)) \/ Stop \/ Drained PROVE HostInv'
<1>1. UNCHANGED <<runningCount, row, job>>
  BY DEF Start, Stop, Drained
<1>2. SlotsCounted'
  BY <1>1, SlotsStay DEF Jobs
<1>3. ASSUME NEW t \in Tick, Start(t) PROVE HostInv'
  <2>1. tick' \in [Tick -> [pc : {"idle", "list", "loop"}, slots : 0..maxConcurrency, list : SUBSET Attempt]]
    BY <1>3, TickTyped DEF Start
  <2>2. intervals < MaxTimers /\ intervals \in 0..MaxTimers /\ MaxTimers \in Nat /\ ~stopped' /\ UNCHANGED stopper
        /\ stopped' \in BOOLEAN /\ draining' \in BOOLEAN /\ started' \in BOOLEAN
    BY <1>3, HostFields DEF Start, HostInv, HostTypeOK
  <2>3. CASE Idle(t)
    <3>1. intervals' = intervals + 1 /\ timer' = TRUE /\ starter' = "none"
      BY <1>3, <2>3 DEF Start
    <3> QED
      BY <1>1, <1>2, <2>1, <2>2, <3>1 DEF HostInv, HostTypeOK
  <2>4. CASE ~Idle(t)
    <3>1. starter' = t /\ UNCHANGED <<intervals, timer>>
      BY <1>3, <2>4 DEF Start
    <3> QED
      BY <1>1, <1>2, <2>1, <2>2, <3>1 DEF HostInv, HostTypeOK
  <2> QED
    BY <2>3, <2>4
<1>4. CASE Stop
  <2>1. intervals \in 0..MaxTimers /\ MaxTimers \in Nat /\ intervals' \in 0..MaxTimers /\ intervals' <= intervals
    BY <1>4, HostFields DEF Stop, HostInv, HostTypeOK
  <2>2. HostTypeOK'
    BY <1>1, <1>4, <2>1 DEF Stop, HostInv, HostTypeOK
  <2>3. starter' # "none" => intervals' < MaxTimers
    BY <1>4, <2>1 DEF Stop, HostInv
  <2> QED
    BY <1>1, <1>2, <1>4, <2>2, <2>3 DEF Stop, HostInv
<1>5. CASE Drained
  BY <1>1, <1>2, <1>5 DEF Drained, HostInv, HostTypeOK
<1> QED
  BY <1>3, <1>4, <1>5

(* The loop of a tick looks at stopped and at the free slots again.        *)
LEMMA LoopInv ==
  ASSUME HostInv, NEW t \in Tick, Loop(t) PROVE HostInv'
<1>1. tick[t].list \in SUBSET Attempt
  BY DEF HostInv, HostTypeOK
<1>2. runningCount \in Nat /\ maxConcurrency \in Nat /\ maxConcurrency - runningCount \in Nat
  BY HostFields DEF HostInv, SlotsCounted
<1>3. /\ Starts(t) \in SUBSET Attempt /\ IsFiniteSet(Starts(t)) /\ Cardinality(Starts(t)) \in Nat
      /\ runningCount + Cardinality(Starts(t)) <= maxConcurrency
      /\ stopped => Cardinality(Starts(t)) = 0
  <2>1. CASE stopped
    BY <1>2, <2>1, FS_EmptySet DEF Starts, HostInv, SlotsCounted
  <2>2. CASE ~stopped
    BY <1>1, <1>2, <2>2, FirstOfIsBounded DEF Starts
  <2> QED
    BY <2>1, <2>2
<1>4. /\ runningCount' = runningCount + Cardinality(Starts(t))
      /\ job' = [a \in Attempt |-> IF a \in Starts(t) THEN [job[a] EXCEPT !.new = @ + 1] ELSE job[a]]
      /\ UNCHANGED <<stopped, draining, started, stopper, row>>
      /\ tick' = [tick EXCEPT ![t] = [pc |-> "idle", slots |-> 0, list |-> {}]]
  BY DEF Loop
<1>5. \A a \in Attempt : /\ job'[a] \in [new : Nat, claimed : 0..1]
                         /\ Jobs(a)' = IF a \in Starts(t) THEN Jobs(a) + 1 ELSE Jobs(a)
                         /\ job'[a].claimed = job[a].claimed
  BY <1>4, HostFields DEF Jobs
<1>6. SlotsCounted'
  BY <1>3, <1>4, <1>5, SlotsAdded
<1>7. /\ starter' \in Tick \cup {"none"} /\ timer' \in BOOLEAN /\ intervals' \in 0..MaxTimers
      /\ timer' => intervals' > 0
      /\ starter' # "none" => intervals' < MaxTimers
  <2>1. starter \in Tick \cup {"none"} /\ timer \in BOOLEAN /\ intervals \in 0..MaxTimers /\ MaxTimers \in Nat
        /\ "none" \notin Tick /\ (timer => intervals > 0) /\ (starter # "none" => intervals < MaxTimers)
    BY HostFields DEF HostInv, HostTypeOK
  <2>2. CASE starter = t
    <3>1. starter' = "none" /\ intervals' = intervals + 1 /\ timer' = TRUE
      BY <2>2 DEF Loop
    <3> QED
      BY <2>1, <2>2, <3>1
  <2>3. CASE starter # t
    <3>1. UNCHANGED <<starter, intervals, timer>>
      BY <2>3 DEF Loop
    <3> QED
      BY <2>1, <3>1
  <2> QED
    BY <2>2, <2>3
<1>8. HostTypeOK'
  <2>1. job' \in [Attempt -> [new : Nat, claimed : 0..1]]
    BY <1>4, <1>5
  <2>2. tick' \in [Tick -> [pc : {"idle", "list", "loop"}, slots : 0..maxConcurrency, list : SUBSET Attempt]]
    BY <1>2, <1>4 DEF HostInv, HostTypeOK
  <2>3. runningCount' \in Nat
    BY <1>2, <1>3, <1>4
  <2> QED
    BY <1>4, <1>7, <2>1, <2>2, <2>3 DEF HostInv, HostTypeOK
<1>9. \A a \in Attempt : job'[a].claimed > 0 => row'[a] = "claimed"
  BY <1>4, <1>5 DEF HostInv
<1>10. stopped' /\ ~draining' => runningCount' = 0
  BY <1>2, <1>3, <1>4 DEF HostInv
<1> QED
  BY <1>6, <1>7, <1>8, <1>9, <1>10 DEF HostInv

LEMMA ExecuteInv ==
  ASSUME HostInv, NEW a \in Attempt, Execute(a) PROVE HostInv'
<1>1. UNCHANGED <<stopped, draining, started, intervals, timer, tick, starter, stopper>>
  BY DEF Execute, ClaimWins, ClaimLoses, Finish
<1>2. \A b \in Attempt : job[b] \in [new : Nat, claimed : 0..1]
  BY HostFields
<1>3. /\ row' \in [Attempt -> {"claimable", "claimed", "settled"}]
      /\ job' \in [Attempt -> [new : Nat, claimed : 0..1]]
      /\ \A b \in Attempt : job'[b].claimed > 0 => row'[b] = "claimed"
  <2>1. row[a] = "claimable" => job[a].claimed = 0
    BY <1>2 DEF HostInv
  <2>2. job \in [Attempt -> [new : Nat, claimed : 0..1]] /\ row \in [Attempt -> {"claimable", "claimed", "settled"}]
        /\ \A b \in Attempt : job[b].claimed > 0 => row[b] = "claimed"
    BY DEF HostInv, HostTypeOK
  <2>3. CASE ClaimWins(a)
    BY <2>1, <2>2, <2>3 DEF ClaimWins
  <2>4. CASE ClaimLoses(a)
    BY <2>1, <2>2, <2>4 DEF ClaimLoses
  <2>5. CASE Finish(a)
    BY <2>1, <2>2, <2>5 DEF Finish
  <2> QED
    BY <2>3, <2>4, <2>5 DEF Execute
<1>4. SlotsCounted' /\ runningCount' \in Nat /\ (runningCount = 0 => runningCount' = 0)
  <2>1. CASE ClaimWins(a)
    <3>1. \A b \in Attempt : Jobs(b)' = Jobs(b)
      BY <1>2, <2>1 DEF ClaimWins, Jobs, HostInv, HostTypeOK
    <3> QED
      BY <2>1, <3>1, SlotsStay DEF ClaimWins, HostInv, HostTypeOK
  <2>2. CASE ClaimLoses(a) \/ Finish(a)
    <3>1. /\ \A b \in Attempt : Jobs(b)' = IF b = a THEN Jobs(b) - 1 ELSE Jobs(b)
          /\ Jobs(a) > 0 /\ runningCount' = runningCount - 1
      BY <1>2, <2>2 DEF ClaimLoses, Finish, Jobs, HostInv, HostTypeOK
    <3> QED
      BY <3>1, SlotReturned
  <2> QED
    BY <2>1, <2>2 DEF Execute
<1> QED
  BY <1>1, <1>3, <1>4 DEF HostInv, HostTypeOK

LEMMA HostInvIsEnough == HostInv => HostInvariant
<1> SUFFICES ASSUME HostInv PROVE HostInvariant
  OBVIOUS
<1>1. SlotsRespected
  BY DEF HostInv, SlotsCounted, SlotsRespected
<1>2. ASSUME HostStatus = "stopped", NEW a \in Attempt, Jobs(a) # 0 PROVE FALSE
  <2>1. runningCount = 0
    BY <1>2 DEF HostStatus, HostInv
  <2>2. InFlight = {}
    BY <2>1, FS_EmptySet DEF HostInv, SlotsCounted
  <2>3. <<a, 1>> \in InFlight
    BY <1>2, HostFields DEF InFlight
  <2> QED
    BY <2>2, <2>3
<1> QED
  BY <1>1, <1>2 DEF HostInv, HostInvariant, StoppedIsQuiet

LEMMA HostStepInv == HostInv /\ [HostNext]_hostVars => HostInv'
<1> SUFFICES ASSUME HostInv, [HostNext]_hostVars PROVE HostInv'
  OBVIOUS
<1>1. CASE UNCHANGED hostVars
  <2>1. SlotsCounted'
    BY <1>1, SlotsStay DEF hostVars, Jobs
  <2> QED
    BY <1>1, <2>1 DEF hostVars, HostInv, HostTypeOK
<1> QED
  BY <1>1, TicksInv, LoopInv, StartStopInv, ExecuteInv DEF HostNext

(* No more Turns in flight than the host may run and none in a host that   *)
(* is stopped, for any number of ticks, attempts, slots and restarts       *)
(* (agent-host.ts:186-237).                                                *)
THEOREM SlotsAreRespected == HostSpec => []HostInvariant
BY HostInitInv, HostStepInv, HostInvIsEnough, PTL DEF HostSpec

-----------------------------------------------------------------------------
(***************************************************************************)
(* The driver of an adapter's process.  For a request whose stream is open *)
(* and that has not failed, what its generator has and what is still in    *)
(* the pipe is what the child said; up to the first done line it is what   *)
(* the child owes.  Once done has arrived, the generator has what is owed. *)
(***************************************************************************)
LineType == {Garbage} \cup {Line(k, r) : k \in {"event", "done", "error"}, r \in Request}

Sent(p, n, r) == Cardinality({i \in 1..n : p[i] = Line("event", r)})

FirstDone(p, i, r) == i \in DOMAIN p /\ p[i] = Line("done", r) /\ \A j \in 1..(i - 1) : p[j] # Line("done", r)

Taken(r) == gen[r].got + gen[r].queue

RequestInv(r) ==
  /\ r \in streams => gen[r].pc = "open" /\ ~gen[r].doneArrived
  /\ gen[r].pc = "new" => /\ gen[r].timer = "off" /\ ~gen[r].doneArrived /\ ~gen[r].errorArrived
                          /\ said[r] = 0
                          /\ \A i \in DOMAIN pipe : \A k \in {"event", "done", "error"} : pipe[i] # Line(k, r)
  /\ gen[r].pc = "done" => gen[r].queue = 0 /\ gen[r].doneArrived /\ ~gen[r].errorArrived
  /\ Taken(r) <= said[r]
  /\ r \in streams => Taken(r) + Sent(pipe, Len(pipe), r) <= said[r]
  /\ r \in streams /\ ~gen[r].errorArrived =>
       /\ Taken(r) + Sent(pipe, Len(pipe), r) = said[r]
       /\ \A i \in DOMAIN pipe : FirstDone(pipe, i, r) => Taken(r) + Sent(pipe, i, r) = owed[r]
  /\ gen[r].doneArrived /\ ~gen[r].errorArrived => Taken(r) = owed[r]

DriverInv == DriverTypeOK /\ pipe \in Seq(LineType) /\ \A r \in Request : RequestInv(r)

LEMMA LinesDiffer ==
  /\ \A k, l \in {"event", "done", "error"} : \A r, q \in Request :
       Line(k, r) = Line(l, q) <=> k = l /\ r = q
  /\ \A k \in {"event", "done", "error"}, r \in Request :
       Line(k, r) # Garbage /\ Line(k, r).kind = k /\ Line(k, r).id = r /\ Line(k, r) \in LineType
<1>1. ASSUME NEW k \in {"event", "done", "error"}, NEW r \in Request
      PROVE  Line(k, r).kind = k /\ Line(k, r).id = r
  BY DEF Line
<1>2. Garbage.kind = "garbage"
  BY DEF Garbage
<1>3. \A k \in {"event", "done", "error"}, r \in Request : Line(k, r) # Garbage
  BY <1>1, <1>2
<1>4. \A k \in {"event", "done", "error"}, r \in Request : Line(k, r) \in LineType
  BY DEF LineType
<1> QED
  BY <1>1, <1>3, <1>4

(* Counting the events of a request in a prefix of the pipe. *)
LEMMA SentIsCounted ==
  ASSUME NEW p, NEW n \in Nat, NEW r
  PROVE  IsFiniteSet({i \in 1..n : p[i] = Line("event", r)}) /\ Sent(p, n, r) \in Nat
<1>1. IsFiniteSet(1..n)
  BY FS_Interval
<1>2. {i \in 1..n : p[i] = Line("event", r)} \in SUBSET (1..n)
  OBVIOUS
<1> QED
  BY <1>1, <1>2, FS_Subset, FS_CardinalityType DEF Sent

LEMMA SentNothing ==
  ASSUME NEW p, NEW n \in Nat, NEW r, \A i \in 1..n : p[i] # Line("event", r)
  PROVE  Sent(p, n, r) = 0
<1>1. {i \in 1..n : p[i] = Line("event", r)} = {}
  OBVIOUS
<1> QED
  BY <1>1, FS_EmptySet DEF Sent

LEMMA SentMore ==
  ASSUME NEW p, NEW n \in Nat, NEW r
  PROVE  Sent(p, n + 1, r) = Sent(p, n, r) + IF p[n + 1] = Line("event", r) THEN 1 ELSE 0
<1> DEFINE S == {i \in 1..n : p[i] = Line("event", r)}
           T == {i \in 1..(n + 1) : p[i] = Line("event", r)}
<1>1. IsFiniteSet(S) /\ n + 1 \notin S /\ Sent(p, n, r) = Cardinality(S) /\ Cardinality(S) \in Nat
  BY SentIsCounted DEF Sent
<1>2. Sent(p, n + 1, r) = Cardinality(T)
  BY DEF Sent
<1>3. CASE p[n + 1] = Line("event", r)
  <2>1. T = S \cup {n + 1}
    BY <1>3
  <2> HIDE DEF S, T
  <2> QED
    BY <1>1, <1>2, <1>3, <2>1, FS_AddElement
<1>4. CASE p[n + 1] # Line("event", r)
  <2>1. T = S
    BY <1>4
  <2> QED
    BY <1>1, <1>2, <1>4, <2>1
<1> QED
  BY <1>3, <1>4

LEMMA SentOfTail ==
  ASSUME NEW p \in Seq(LineType), p # <<>>, NEW n \in 1..Len(p), NEW r
  PROVE  Sent(p, n, r) = Sent(Tail(p), n - 1, r) + IF Head(p) = Line("event", r) THEN 1 ELSE 0
<1> DEFINE S == {i \in 1..(n - 1) : Tail(p)[i] = Line("event", r)}
           U == {i \in 2..n : p[i] = Line("event", r)}
           T == {i \in 1..n : p[i] = Line("event", r)}
           shift == [i \in S |-> i + 1]
<1>1. /\ n - 1 \in Nat /\ n \in Nat /\ Head(p) = p[1]
      /\ \A i \in 1..(n - 1) : Tail(p)[i] = p[i + 1]
  OBVIOUS
<1>2. IsFiniteSet(S) /\ Sent(Tail(p), n - 1, r) = Cardinality(S) /\ Cardinality(S) \in Nat
  <2>1. Sent(Tail(p), n - 1, r) = Cardinality(S)
    BY DEF Sent
  <2>2. IsFiniteSet(1..(n - 1)) /\ S \in SUBSET (1..(n - 1))
    BY <1>1, FS_Interval
  <2> HIDE DEF S
  <2> QED
    BY <2>1, <2>2, FS_Subset, FS_CardinalityType
<1>3. shift \in Bijection(S, U)
  <2>1. \A i \in S : i + 1 \in U
    BY <1>1
  <2>2. \A i \in U : i - 1 \in S /\ i = (i - 1) + 1
    BY <1>1
  <2>3. S \subseteq Nat
    BY <1>1
  <2> HIDE DEF S, U
  <2> QED
    BY <2>1, <2>2, <2>3, SMTT(60) DEF Bijection, Injection, Surjection, IsInjective
<1>4. IsFiniteSet(U) /\ Cardinality(U) = Cardinality(S)
  <2> HIDE DEF S, U, shift
  <2> QED
    BY <1>2, <1>3, FS_Bijection DEF ExistsBijection
<1>5. Sent(p, n, r) = Cardinality(T)
  BY DEF Sent
<1>6. CASE Head(p) = Line("event", r)
  <2>1. T = U \cup {1} /\ 1 \notin U
    BY <1>1, <1>6
  <2> HIDE DEF S, T, U
  <2> QED
    BY <1>2, <1>4, <1>5, <1>6, <2>1, FS_AddElement, ZenonT(60)
<1>7. CASE Head(p) # Line("event", r)
  <2>1. T = U
    BY <1>1, <1>7
  <2> HIDE DEF S, T, U
  <2> QED
    BY <1>2, <1>4, <1>5, <1>7, <2>1
<1> QED
  BY <1>6, <1>7

LEMMA DriverInitInv == DriverInit => DriverInv
<1> SUFFICES ASSUME DriverInit PROVE DriverInv
  OBVIOUS
<1>1. 0 \in 0..MaxSaid
  BY DriverAssumption
<1>2. DriverTypeOK
  <2>1. gen \in [Request -> GenType]
    BY <1>1 DEF DriverInit, GenType
  <2>2. said \in [Request -> 0..MaxSaid] /\ owed \in [Request -> 0..MaxSaid]
    BY <1>1 DEF DriverInit
  <2>3. DOMAIN pipe = {}
    BY DEF DriverInit
  <2> QED
    BY <2>1, <2>2, <2>3, Zenon DEF DriverInit, DriverTypeOK
<1>3. ASSUME NEW r \in Request PROVE RequestInv(r)
  BY DEF DriverInit, RequestInv, Taken
<1> QED
  BY <1>2, <1>3 DEF DriverInit, DriverInv

(* What is known of a request in a state that satisfies the invariant. *)
LEMMA DriverFields ==
  ASSUME DriverInv, NEW r \in Request
  PROVE  /\ gen[r] \in GenType /\ said[r] \in 0..MaxSaid /\ owed[r] \in 0..MaxSaid /\ MaxSaid \in Nat
         /\ gen[r].queue \in 0..MaxSaid /\ gen[r].got \in 0..MaxSaid /\ Taken(r) \in Nat
         /\ gen[r].doneArrived \in BOOLEAN /\ gen[r].errorArrived \in BOOLEAN
         /\ Len(pipe) \in Nat /\ RequestInv(r)
BY DriverAssumption DEF DriverInv, DriverTypeOK, GenType, Taken

(* A request nothing was done to. *)
LEMMA RequestStays ==
  ASSUME DriverInv, NEW r \in Request, gen'[r] = gen[r], said'[r] = said[r], owed'[r] = owed[r], pipe' = pipe,
         r \in streams' <=> r \in streams
  PROVE  RequestInv(r)'
BY DriverFields DEF RequestInv, Taken

(* A request that failed or was dropped: its stream is no longer open. *)
LEMMA RequestDropped ==
  ASSUME DriverInv, NEW r \in Request, r \notin streams', said'[r] = said[r], owed'[r] = owed[r],
         gen'[r] = [gen[r] EXCEPT !.errorArrived = TRUE] /\ r \in streams
  PROVE  RequestInv(r)'
<1>1. gen[r].pc = "open"
  BY DriverFields DEF RequestInv
<1>2. /\ gen'[r].pc = "open" /\ gen'[r].errorArrived
      /\ gen'[r].got = gen[r].got /\ gen'[r].queue = gen[r].queue
  BY <1>1, DriverFields DEF GenType
<1> QED
  BY <1>2, DriverFields DEF RequestInv, Taken

LEMMA FailInv ==
  ASSUME DriverInv, FailUnavailable, UNCHANGED <<said, owed>>, NEW r \in Request,
         pipe' = pipe \/ (pipe # <<>> /\ pipe' = Tail(pipe))
  PROVE  RequestInv(r)'
<1>1. gen'[r] = IF r \in streams THEN [gen[r] EXCEPT !.errorArrived = TRUE] ELSE gen[r]
  BY DEF FailUnavailable, Fail
<1>2. r \notin streams'
  BY DEF FailUnavailable
<1>3. CASE r \in streams
  BY <1>1, <1>2, <1>3, RequestDropped
<1>4. CASE r \notin streams
  <2>1. \A i \in DOMAIN pipe' : \E j \in DOMAIN pipe : pipe'[i] = pipe[j]
    BY DEF DriverInv
  <2> QED
    BY <1>1, <1>2, <1>4, <2>1, DriverFields DEF RequestInv, Taken
<1> QED
  BY <1>3, <1>4

(* A line more at the end of the pipe. *)
LEMMA PipeGrows ==
  ASSUME DriverInv, NEW x \in LineType, pipe' = Append(pipe, x)
  PROVE  /\ pipe' \in Seq(LineType) /\ Len(pipe') = Len(pipe) + 1 /\ Len(pipe) \in Nat
         /\ \A i \in DOMAIN pipe' : i \in DOMAIN pipe \/ i = Len(pipe) + 1
         /\ pipe'[Len(pipe) + 1] = x
         /\ \A i \in DOMAIN pipe : pipe'[i] = pipe[i]
         /\ \A r \in Request :
              /\ Sent(pipe', Len(pipe'), r) = Sent(pipe, Len(pipe), r) + IF x = Line("event", r) THEN 1 ELSE 0
              /\ FirstDone(pipe', Len(pipe) + 1, r) => x = Line("done", r) /\ Line("done", r) \notin Range(pipe)
<1>1. /\ pipe' \in Seq(LineType) /\ Len(pipe') = Len(pipe) + 1 /\ Len(pipe) \in Nat
      /\ DOMAIN pipe = 1..Len(pipe) /\ DOMAIN pipe' = 1..(Len(pipe) + 1)
      /\ pipe'[Len(pipe) + 1] = x
      /\ \A i \in 1..Len(pipe) : pipe'[i] = pipe[i]
  BY DEF DriverInv
<1>2. ASSUME NEW r \in Request
      PROVE  Sent(pipe', Len(pipe'), r) = Sent(pipe, Len(pipe), r) + IF x = Line("event", r) THEN 1 ELSE 0
  <2>1. Sent(pipe', Len(pipe), r) = Sent(pipe, Len(pipe), r)
    <3>1. {i \in 1..Len(pipe) : pipe'[i] = Line("event", r)} = {i \in 1..Len(pipe) : pipe[i] = Line("event", r)}
      BY <1>1
    <3> QED
      BY <3>1 DEF Sent
  <2> QED
    BY <1>1, <2>1, SentMore, ZenonT(60)
<1>4. ASSUME NEW r \in Request, FirstDone(pipe', Len(pipe) + 1, r)
      PROVE  x = Line("done", r) /\ Line("done", r) \notin Range(pipe)
  BY <1>1, <1>4 DEF FirstDone, Range
<1> QED
  BY <1>1, <1>2, <1>4

LEMMA PipePrefix ==
  ASSUME DriverInv, NEW x \in LineType, pipe' = Append(pipe, x), NEW r \in Request, NEW i \in DOMAIN pipe
  PROVE  Sent(pipe', i, r) = Sent(pipe, i, r) /\ (FirstDone(pipe', i, r) => FirstDone(pipe, i, r))
<1>1. i \in Nat /\ \A j \in 1..i : pipe'[j] = pipe[j]
  BY DEF DriverInv
<1>2. {j \in 1..i : pipe'[j] = Line("event", r)} = {j \in 1..i : pipe[j] = Line("event", r)}
  BY <1>1
<1>3. Sent(pipe', i, r) = Sent(pipe, i, r)
  BY <1>2 DEF Sent
<1>4. 1..(i - 1) \subseteq 1..i /\ i \in 1..i
  BY <1>1 DEF DriverInv
<1> QED
  BY <1>1, <1>3, <1>4 DEF FirstDone

(* A line less at its head. *)
LEMMA PipeIsRead ==
  ASSUME DriverInv, pipe # <<>>, pipe' = Tail(pipe)
  PROVE  /\ pipe' \in Seq(LineType) /\ Len(pipe') = Len(pipe) - 1 /\ Len(pipe) \in Nat \ {0}
         /\ Head(pipe) = pipe[1] /\ Head(pipe) \in LineType /\ 1 \in DOMAIN pipe
         /\ \A i \in DOMAIN pipe' : \E j \in DOMAIN pipe : pipe'[i] = pipe[j]
         /\ \A r \in Request :
              /\ Sent(pipe, Len(pipe), r) = Sent(pipe', Len(pipe'), r) + IF Head(pipe) = Line("event", r) THEN 1 ELSE 0
              /\ \A i \in DOMAIN pipe' :
                   FirstDone(pipe', i, r) /\ Head(pipe) # Line("done", r) =>
                     \E j \in DOMAIN pipe : /\ FirstDone(pipe, j, r)
                                           /\ Sent(pipe, j, r) = Sent(pipe', i, r)
                                                + IF Head(pipe) = Line("event", r) THEN 1 ELSE 0
<1>1. /\ pipe' \in Seq(LineType) /\ Len(pipe') = Len(pipe) - 1 /\ Len(pipe) \in Nat \ {0}
      /\ Head(pipe) = pipe[1] /\ Head(pipe) \in LineType
      /\ DOMAIN pipe = 1..Len(pipe) /\ DOMAIN pipe' = 1..(Len(pipe) - 1)
      /\ \A i \in 1..(Len(pipe) - 1) : pipe'[i] = pipe[i + 1]
  BY DEF DriverInv
<1>2. ASSUME NEW r \in Request
      PROVE  Sent(pipe, Len(pipe), r) = Sent(pipe', Len(pipe'), r) + IF Head(pipe) = Line("event", r) THEN 1 ELSE 0
  BY <1>1, SentOfTail DEF DriverInv
<1>3. ASSUME NEW r \in Request, NEW i \in DOMAIN pipe', FirstDone(pipe', i, r), Head(pipe) # Line("done", r)
      PROVE  /\ i + 1 \in DOMAIN pipe /\ FirstDone(pipe, i + 1, r)
             /\ Sent(pipe, i + 1, r) = Sent(pipe', i, r) + IF Head(pipe) = Line("event", r) THEN 1 ELSE 0
  <2>1. i \in 1..(Len(pipe) - 1) /\ i + 1 \in 1..Len(pipe) /\ (i + 1) - 1 = i
    BY <1>1
  <2>2. \A j \in 1..i : pipe[j] # Line("done", r)
    <3> SUFFICES ASSUME NEW j \in 1..i, j # 1 PROVE pipe[j] # Line("done", r)
      BY <1>1, <1>3
    <3>1. j - 1 \in 1..(i - 1) /\ pipe'[j - 1] = pipe[j]
      BY <1>1, <2>1
    <3> QED
      BY <1>3, <3>1 DEF FirstDone
  <2>3. FirstDone(pipe, i + 1, r)
    BY <1>1, <1>3, <2>1, <2>2 DEF FirstDone
  <2>4. Sent(pipe, i + 1, r) = Sent(pipe', i, r) + IF Head(pipe) = Line("event", r) THEN 1 ELSE 0
    BY <1>1, <2>1, SentOfTail DEF DriverInv
  <2> QED
    BY <1>1, <2>1, <2>3, <2>4
<1> QED
  BY <1>1, <1>2, <1>3

(* A line of another request, or of one whose stream is closed.            *)
LEMMA RequestPassed ==
  ASSUME DriverInv, pipe # <<>>, pipe' = Tail(pipe), NEW r \in Request,
         gen'[r] = gen[r], said'[r] = said[r], owed'[r] = owed[r], r \in streams' <=> r \in streams,
         r \in streams => Head(pipe) # Line("event", r) /\ Head(pipe) # Line("done", r)
  PROVE  RequestInv(r)'
<1>1. /\ \A i \in DOMAIN pipe' : \E j \in DOMAIN pipe : pipe'[i] = pipe[j]
      /\ r \in streams =>
           /\ Sent(pipe', Len(pipe'), r) = Sent(pipe, Len(pipe), r)
           /\ \A i \in DOMAIN pipe' : FirstDone(pipe', i, r) =>
                 \E j \in DOMAIN pipe : FirstDone(pipe, j, r) /\ Sent(pipe, j, r) = Sent(pipe', i, r)
  <2>1. \A n \in Nat : Sent(pipe', n, r) \in Nat
    BY SentIsCounted
  <2>2. Len(pipe') \in Nat /\ DOMAIN pipe' \subseteq Nat
    BY PipeIsRead
  <2> QED
    BY <2>1, <2>2, PipeIsRead
<1> QED
  BY <1>1, DriverFields DEF RequestInv, Taken

(* A line that is none of a request's leaves the request alone. *)
LEMMA LineOfOther ==
  ASSUME DriverInv, NEW x \in LineType, pipe' = Append(pipe, x), NEW r \in Request,
         \A l \in {"event", "done", "error"} : x # Line(l, r),
         gen'[r] = gen[r], said'[r] = said[r], owed'[r] = owed[r], r \in streams' <=> r \in streams
  PROVE  RequestInv(r)'
<1>1. x # Line("event", r) /\ x # Line("done", r)
  OBVIOUS
<1>2. Sent(pipe, Len(pipe), r) \in Nat
  <2>1. Len(pipe) \in Nat
    BY DEF DriverInv
  <2> QED
    BY <2>1, SentIsCounted
<1>3. Sent(pipe', Len(pipe'), r) = Sent(pipe, Len(pipe), r)
  <2>1. Sent(pipe', Len(pipe'), r) = Sent(pipe, Len(pipe), r) + IF x = Line("event", r) THEN 1 ELSE 0
    BY PipeGrows
  <2> QED
    BY <1>1, <1>2, <2>1
<1>4. ASSUME NEW i \in DOMAIN pipe', FirstDone(pipe', i, r)
      PROVE  i \in DOMAIN pipe /\ FirstDone(pipe, i, r) /\ Sent(pipe', i, r) = Sent(pipe, i, r)
  <2>1. i # Len(pipe) + 1
    BY <1>1, <1>4, PipeGrows
  <2>2. i \in DOMAIN pipe
    BY <2>1, PipeGrows
  <2> QED
    BY <1>4, <2>2, PipePrefix
<1>5. ASSUME NEW i \in DOMAIN pipe', NEW l \in {"event", "done", "error"}, gen[r].pc = "new"
      PROVE  pipe'[i] # Line(l, r)
  <2>1. CASE i \in DOMAIN pipe
    <3>1. pipe'[i] = pipe[i]
      BY <2>1, PipeGrows
    <3> QED
      BY <1>5, <2>1, <3>1, DriverFields DEF RequestInv
  <2>2. CASE i = Len(pipe) + 1
    <3>1. pipe'[i] = x
      BY <2>2, PipeGrows
    <3> QED
      BY <3>1
  <2> QED
    BY <2>1, <2>2, PipeGrows
<1>6. RequestInv(r) /\ Taken(r)' = Taken(r)
  BY DriverFields DEF Taken
<1> QED
  BY <1>3, <1>4, <1>5, <1>6 DEF RequestInv

LEMMA SaysInv ==
  ASSUME DriverInv, NEW q \in Request, NEW k \in {"event", "done", "error"}, Says(q, k) PROVE DriverInv'
<1> DEFINE x == Line(k, q)
<1>1. x \in LineType /\ pipe' = Append(pipe, x) /\ UNCHANGED <<process, admitted, closed, streams, gen>> /\ Asked(q)
  BY LinesDiffer DEF Says
<1>2. /\ pipe' \in Seq(LineType) /\ Len(pipe') = Len(pipe) + 1
      /\ \A i \in DOMAIN pipe' : i \in DOMAIN pipe \/ i = Len(pipe) + 1
      /\ pipe'[Len(pipe) + 1] = x
      /\ \A i \in DOMAIN pipe : pipe'[i] = pipe[i]
      /\ \A r \in Request :
           /\ Sent(pipe', Len(pipe'), r) = Sent(pipe, Len(pipe), r) + IF x = Line("event", r) THEN 1 ELSE 0
           /\ FirstDone(pipe', Len(pipe) + 1, r) => x = Line("done", r) /\ Line("done", r) \notin Range(pipe)
  <2> HIDE DEF x
  <2> QED
    BY <1>1, PipeGrows
<1>3. /\ \A r \in Request : \A l \in {"event", "done", "error"} : x = Line(l, r) <=> l = k /\ r = q
      /\ x.id = q
  BY LinesDiffer
<1>4. /\ said' = IF k = "event" THEN [said EXCEPT ![q] = said[q] + 1] ELSE said
      /\ owed' = IF k = "done" /\ Line("done", q) \notin Range(pipe) /\ ~gen[q].doneArrived
                 THEN [owed EXCEPT ![q] = said[q]] ELSE owed
      /\ k = "event" => said[q] < MaxSaid
  BY DEF Says
<1> HIDE DEF x
<1>5. DriverTypeOK'
  <2>1. said' \in [Request -> 0..MaxSaid] /\ owed' \in [Request -> 0..MaxSaid]
    BY <1>4, DriverAssumption DEF DriverInv, DriverTypeOK
  <2>2. \A i \in DOMAIN pipe' : pipe'[i] = Garbage \/ pipe'[i].id \in Request
    BY <1>2, <1>3 DEF DriverInv, DriverTypeOK
  <2> QED
    BY <1>1, <2>1, <2>2 DEF DriverInv, DriverTypeOK
<1>6. ASSUME NEW r \in Request, r # q PROVE RequestInv(r)'
  <2>1. said'[r] = said[r] /\ owed'[r] = owed[r] /\ gen'[r] = gen[r] /\ (r \in streams' <=> r \in streams)
    BY <1>1, <1>4, <1>6 DEF DriverInv, DriverTypeOK
  <2>2. \A l \in {"event", "done", "error"} : x # Line(l, r)
    BY <1>3, <1>6
  <2> QED
    BY <1>1, <2>1, <2>2, LineOfOther
<1>7. RequestInv(q)'
  <2>1. gen[q].pc # "new"
    BY <1>1, DriverFields DEF Asked, RequestInv
  <2>2. gen'[q] = gen[q] /\ Taken(q)' = Taken(q) /\ (q \in streams' <=> q \in streams)
    BY <1>1 DEF Taken
  <2>3. said'[q] = said[q] + (IF k = "event" THEN 1 ELSE 0) /\ said[q] \in Nat /\ Taken(q) \in Nat
    BY <1>4, DriverFields DEF DriverInv, DriverTypeOK
  <2>4. Sent(pipe', Len(pipe'), q) = Sent(pipe, Len(pipe), q) + (IF k = "event" THEN 1 ELSE 0)
        /\ Sent(pipe, Len(pipe), q) \in Nat
    BY <1>2, <1>3, DriverFields, SentIsCounted
  <2>5. gen[q].doneArrived => owed'[q] = owed[q]
    BY <1>4
  <2>6. ASSUME q \in streams, ~gen[q].errorArrived, NEW i \in DOMAIN pipe', FirstDone(pipe', i, q)
        PROVE  Taken(q) + Sent(pipe', i, q) = owed'[q]
    <3>0. ~gen[q].doneArrived
      BY <2>6, DriverFields DEF RequestInv
    <3>1. CASE i \in DOMAIN pipe
      <4>1. FirstDone(pipe, i, q) /\ Sent(pipe', i, q) = Sent(pipe, i, q)
        BY <1>1, <2>6, <3>1, PipePrefix
      <4>2. Line("done", q) \in Range(pipe)
        BY <3>1, <4>1 DEF FirstDone, Range
      <4>3. owed' = owed
        BY <1>4, <4>2
      <4> QED
        BY <2>6, <3>1, <4>1, <4>3, DriverFields DEF RequestInv
    <3>2. CASE i = Len(pipe) + 1
      <4>1. k = "done" /\ Line("done", q) \notin Range(pipe)
        BY <1>2, <1>3, <2>6, <3>2
      <4>2. owed'[q] = said[q]
        BY <1>4, <3>0, <4>1 DEF DriverInv, DriverTypeOK
      <4>3. Sent(pipe', i, q) = Sent(pipe, Len(pipe), q)
        BY <1>2, <2>4, <3>2, <4>1
      <4> QED
        BY <2>6, <4>2, <4>3, DriverFields DEF RequestInv
    <3> QED
      BY <1>2, <3>1, <3>2
  <2> QED
    BY <2>1, <2>2, <2>3, <2>4, <2>5, <2>6, DriverFields, SMTT(60) DEF RequestInv
<1> QED
  BY <1>2, <1>5, <1>6, <1>7 DEF DriverInv

LEMMA SaysGarbageInv == DriverInv /\ SaysGarbage => DriverInv'
<1> SUFFICES ASSUME DriverInv, SaysGarbage PROVE DriverInv'
  OBVIOUS
<1>1. Garbage \in LineType /\ pipe' = Append(pipe, Garbage)
      /\ UNCHANGED <<process, admitted, closed, said, owed, streams, gen>>
  BY DEF SaysGarbage, LineType
<1>2. /\ pipe' \in Seq(LineType)
      /\ \A i \in DOMAIN pipe' : i \in DOMAIN pipe \/ i = Len(pipe) + 1
      /\ pipe'[Len(pipe) + 1] = Garbage
      /\ \A i \in DOMAIN pipe : pipe'[i] = pipe[i]
  BY <1>1, PipeGrows
<1>3. DriverTypeOK'
  BY <1>1, <1>2 DEF DriverInv, DriverTypeOK
<1>4. ASSUME NEW r \in Request PROVE RequestInv(r)'
  <2>1. \A l \in {"event", "done", "error"} : Garbage # Line(l, r)
    BY LinesDiffer
  <2> QED
    BY <1>1, <2>1, LineOfOther
<1> QED
  BY <1>2, <1>3, <1>4 DEF DriverInv

(* A step on one generator that keeps what it was given. *)
LEMMA GeneratorInv ==
  ASSUME DriverInv, NEW q \in Request, NEW g \in GenType, gen' = [gen EXCEPT ![q] = g],
         streams' \subseteq streams \cup {q}, streams \ {q} \subseteq streams',
         UNCHANGED <<pipe, said, owed>>,
         process' \in {"spawned", "killed", "exited"}, admitted' = admitted, closed' \in BOOLEAN,
         RequestInv(q)'
  PROVE  DriverInv'
<1>1. DriverTypeOK'
  BY DEF DriverInv, DriverTypeOK
<1>2. ASSUME NEW r \in Request, r # q PROVE RequestInv(r)'
  <2>1. gen'[r] = gen[r] /\ (r \in streams' <=> r \in streams)
    BY <1>2 DEF DriverInv, DriverTypeOK
  <2> QED
    BY <2>1, RequestStays
<1> QED
  BY <1>1, <1>2 DEF DriverInv

LEMMA RunInv ==
  ASSUME DriverInv, NEW q \in Request, Run(q) PROVE DriverInv'
<1>1. /\ gen[q] \in GenType /\ gen[q].pc = "new" /\ RequestInv(q)
      /\ q \notin streams /\ ~gen[q].doneArrived /\ ~gen[q].errorArrived /\ said[q] = 0 /\ Taken(q) = 0
  BY DriverFields DEF Run, RequestInv
<1>2. UNCHANGED <<process, admitted, closed, pipe, said, owed>>
  BY DEF Run
<1>3. CASE closed
  <2> DEFINE g == [gen[q] EXCEPT !.pc = "thrown"]
  <2>1. gen' = [gen EXCEPT ![q] = g] /\ UNCHANGED streams
    BY <1>3 DEF Run, DriverInv, DriverTypeOK
  <2>2. g \in GenType /\ g.pc = "thrown" /\ g.doneArrived = FALSE /\ g.got = gen[q].got /\ g.queue = gen[q].queue
    BY <1>1 DEF GenType
  <2> HIDE DEF g
  <2>3. gen'[q] = g
    BY <2>1 DEF DriverInv, DriverTypeOK
  <2>4. RequestInv(q)'
    BY <1>1, <1>2, <2>1, <2>2, <2>3 DEF RequestInv, Taken
  <2> QED
    BY <1>2, <2>1, <2>2, <2>4, GeneratorInv DEF DriverInv, DriverTypeOK
<1>4. CASE ~closed
  <2> DEFINE g == [gen[q] EXCEPT !.pc = "open", !.timer = "set"]
  <2>1. gen' = [gen EXCEPT ![q] = g] /\ streams' = streams \cup {q}
    BY <1>4 DEF Run, DriverInv, DriverTypeOK
  <2>2. g \in GenType /\ g.pc = "open" /\ ~g.doneArrived /\ g.got = gen[q].got /\ g.queue = gen[q].queue
    BY <1>1 DEF GenType
  <2> HIDE DEF g
  <2>3. gen'[q] = g
    BY <2>1 DEF DriverInv, DriverTypeOK
  <2>4. Sent(pipe, Len(pipe), q) = 0 /\ \A i \in DOMAIN pipe : ~FirstDone(pipe, i, q)
    <3>1. Len(pipe) \in Nat /\ DOMAIN pipe = 1..Len(pipe)
      BY DEF DriverInv
    <3>2. \A i \in DOMAIN pipe : pipe[i] # Line("event", q) /\ pipe[i] # Line("done", q)
      BY <1>1 DEF RequestInv
    <3> QED
      BY <3>1, <3>2, SentNothing DEF FirstDone
  <2>5. RequestInv(q)'
    BY <1>1, <1>2, <2>1, <2>2, <2>3, <2>4 DEF RequestInv, Taken
  <2> QED
    BY <1>2, <2>1, <2>2, <2>5, GeneratorInv DEF DriverInv, DriverTypeOK
<1> QED
  BY <1>3, <1>4

LEMMA PumpInv ==
  ASSUME DriverInv, NEW q \in Request, Pump(q) PROVE DriverInv'
<1>1. /\ gen[q] \in GenType /\ gen[q].pc = "open" /\ RequestInv(q) /\ Taken(q) <= said[q]
      /\ said[q] \in 0..MaxSaid /\ MaxSaid \in Nat
  BY DriverFields DEF Pump, RequestInv
<1>0. gen[q].queue \in 0..MaxSaid /\ gen[q].got \in 0..MaxSaid
  BY DriverFields
<1>2. UNCHANGED <<process, admitted, closed, pipe, said, owed>>
  BY DEF Pump
<1>3. CASE gen[q].queue > 0
  <2> DEFINE g == [gen[q] EXCEPT !.queue = @ - 1, !.got = @ + 1]
  <2>0. gen' = [gen EXCEPT ![q].queue = @ - 1, ![q].got = @ + 1] /\ UNCHANGED streams
    BY <1>0, <1>3 DEF Pump
  <2>1. gen' = [gen EXCEPT ![q] = g] /\ UNCHANGED streams
    BY <1>1, <2>0 DEF DriverInv, DriverTypeOK, GenType
  <2>2. /\ g \in GenType /\ g.pc = "open" /\ g.got + g.queue = Taken(q)
        /\ g.doneArrived = gen[q].doneArrived /\ g.errorArrived = gen[q].errorArrived
    <3>1. gen[q].queue - 1 \in 0..MaxSaid /\ gen[q].got + 1 \in 0..MaxSaid
      BY <1>0, <1>1, <1>3 DEF Taken
    <3>2. g.got = gen[q].got + 1 /\ g.queue = gen[q].queue - 1
      BY <1>1 DEF GenType
    <3>3. g.got + g.queue = Taken(q)
      BY <1>0, <3>2 DEF Taken
    <3> QED
      BY <1>1, <3>1, <3>3 DEF GenType
  <2> HIDE DEF g
  <2>3. gen'[q] = g
    BY <2>1 DEF DriverInv, DriverTypeOK
  <2>4. RequestInv(q)'
    BY <1>1, <1>2, <2>1, <2>2, <2>3 DEF RequestInv, Taken
  <2> QED
    BY <1>2, <2>1, <2>2, <2>4, GeneratorInv DEF DriverInv, DriverTypeOK
<1>4. CASE gen[q].queue = 0 /\ gen[q].errorArrived
  <2> DEFINE g == [gen[q] EXCEPT !.pc = "thrown"]
  <2>1. gen' = [gen EXCEPT ![q] = g] /\ streams' = streams \ {q}
    BY <1>4, <1>1 DEF Pump, DriverInv, DriverTypeOK, GenType
  <2>2. g \in GenType /\ g.pc = "thrown" /\ g.got = gen[q].got /\ g.queue = gen[q].queue /\ g.errorArrived
    BY <1>1, <1>4 DEF GenType
  <2> HIDE DEF g
  <2>3. gen'[q] = g
    BY <2>1 DEF DriverInv, DriverTypeOK
  <2>4. RequestInv(q)'
    BY <1>1, <1>2, <2>1, <2>2, <2>3 DEF RequestInv, Taken
  <2> QED
    BY <1>2, <2>1, <2>2, <2>4, GeneratorInv DEF DriverInv, DriverTypeOK
<1>5. CASE gen[q].queue = 0 /\ ~gen[q].errorArrived /\ gen[q].doneArrived
  <2> DEFINE g == [gen[q] EXCEPT !.pc = "done", !.timer = "off"]
  <2>1. gen' = [gen EXCEPT ![q] = g] /\ streams' = streams \ {q}
    <3>1. gen' = [gen EXCEPT ![q].pc = "done", ![q].timer = "off"] /\ streams' = streams \ {q}
      BY <1>0, <1>5 DEF Pump
    <3> QED
      BY <1>1, <3>1 DEF DriverInv, DriverTypeOK, GenType
  <2>2. /\ g \in GenType /\ g.pc = "done" /\ g.got = gen[q].got /\ g.queue = gen[q].queue
        /\ g.queue = 0 /\ g.doneArrived /\ ~g.errorArrived
    BY <1>1, <1>5 DEF GenType
  <2> HIDE DEF g
  <2>3. gen'[q] = g
    BY <2>1 DEF DriverInv, DriverTypeOK
  <2>4. RequestInv(q)'
    BY <1>1, <1>2, <1>5, <2>1, <2>2, <2>3 DEF RequestInv, Taken
  <2> QED
    BY <1>2, <2>1, <2>2, <2>4, GeneratorInv DEF DriverInv, DriverTypeOK
<1> QED
  BY <1>3, <1>4, <1>5 DEF Pump

(* The timer: kept or fired, it takes nothing from the queue.              *)
LEMMA RequestTimeoutInv ==
  ASSUME DriverInv, NEW q \in Request, RequestTimeout(q) PROVE DriverInv'
<1> DEFINE g == [gen[q] EXCEPT !.timer = "fired", !.errorArrived = @ \/ q \in streams]
<1>1. gen[q] \in GenType /\ gen[q].timer = "set" /\ RequestInv(q)
  BY DriverFields DEF RequestTimeout
<1>2. /\ gen' = [gen EXCEPT ![q] = g] /\ UNCHANGED <<admitted, pipe, said, owed, streams>>
      /\ closed' = TRUE /\ process' \in {"spawned", "killed", "exited"}
  BY <1>1 DEF RequestTimeout, Kill, DriverInv, DriverTypeOK, GenType
<1>3. /\ g \in GenType /\ g.pc = gen[q].pc /\ g.got = gen[q].got /\ g.queue = gen[q].queue
      /\ g.doneArrived = gen[q].doneArrived /\ (g.errorArrived <=> gen[q].errorArrived \/ q \in streams)
      /\ gen[q].pc # "new"
  <2>1. (gen[q].errorArrived \/ q \in streams) \in BOOLEAN
    BY <1>1 DEF GenType
  <2> QED
    BY <1>1, <2>1 DEF GenType, RequestInv
<1> HIDE DEF g
<1>4. gen'[q] = g
  BY <1>2 DEF DriverInv, DriverTypeOK
<1>5. RequestInv(q)'
  BY <1>1, <1>2, <1>3, <1>4 DEF RequestInv, Taken
<1> QED
  BY <1>2, <1>3, <1>5, GeneratorInv

(* Nothing but the process and the flags of the driver. *)
LEMMA OthersInv ==
  ASSUME DriverInv, Handshake \/ HandshakeFails \/ Close PROVE DriverInv'
<1>1. /\ UNCHANGED <<pipe, said, owed, streams, gen>>
      /\ process' \in {"spawned", "killed", "exited"} /\ admitted' \in {"handshake", "yes", "no"}
      /\ closed' \in BOOLEAN
  BY DEF Handshake, HandshakeFails, Close, Kill, DriverInv, DriverTypeOK
<1>2. \A r \in Request : RequestInv(r)'
  BY <1>1, RequestStays
<1>3. DriverTypeOK'
  BY <1>1 DEF DriverInv, DriverTypeOK
<1> QED
  BY <1>1, <1>2, <1>3 DEF DriverInv

LEMMA FailTyped ==
  ASSUME DriverInv, FailUnavailable
  PROVE  gen' \in [Request -> GenType] /\ streams' \subseteq Request /\ closed' \in BOOLEAN
<1>1. \A r \in Request : [gen[r] EXCEPT !.errorArrived = TRUE] \in GenType
  BY ZenonT(60) DEF DriverInv, DriverTypeOK, GenType
<1> QED
  BY <1>1 DEF FailUnavailable, Fail, DriverInv, DriverTypeOK

LEMMA ExitInv == DriverInv /\ Exit => DriverInv'
<1> SUFFICES ASSUME DriverInv, Exit PROVE DriverInv'
  OBVIOUS
<1>1. FailUnavailable /\ UNCHANGED <<admitted, pipe, said, owed>> /\ process' = "exited"
  BY DEF Exit
<1>2. \A r \in Request : RequestInv(r)'
  BY <1>1, FailInv
<1>3. DriverTypeOK'
  BY <1>1, FailTyped DEF DriverInv, DriverTypeOK
<1> QED
  BY <1>1, <1>2, <1>3 DEF DriverInv

(* A line for a request whose stream is open. *)
LEMMA LineForOpen ==
  ASSUME DriverInv, pipe # <<>>, pipe' = Tail(pipe), UNCHANGED <<said, owed>>, NEW q \in Request, q \in streams,
         NEW k \in {"event", "done", "error"}, Head(pipe) = Line(k, q),
         IF k = "event" THEN OnEvent(q) /\ UNCHANGED streams
         ELSE /\ gen' = IF k = "done" THEN [gen EXCEPT ![q].doneArrived = TRUE]
                        ELSE [gen EXCEPT ![q].errorArrived = TRUE]
              /\ streams' = streams \ {q}
  PROVE  /\ gen' \in [Request -> GenType] /\ streams' \subseteq Request
         /\ \A r \in Request : RequestInv(r)'
<1>1. /\ gen[q] \in GenType /\ gen \in [Request -> GenType] /\ streams \subseteq Request
      /\ gen[q].pc = "open" /\ ~gen[q].doneArrived /\ Taken(q) <= said[q] /\ said[q] \in 0..MaxSaid
      /\ MaxSaid \in Nat /\ Taken(q) \in Nat /\ RequestInv(q)
      /\ Taken(q) + Sent(pipe, Len(pipe), q) <= said[q]
  BY DriverFields DEF RequestInv, DriverInv, DriverTypeOK
<1>2. /\ Sent(pipe, Len(pipe), q) = Sent(pipe', Len(pipe'), q) + IF k = "event" THEN 1 ELSE 0
      /\ Sent(pipe', Len(pipe'), q) \in Nat
  <2>1. Len(pipe') \in Nat
    BY PipeIsRead
  <2>2. Sent(pipe', Len(pipe'), q) \in Nat
    BY <2>1, SentIsCounted
  <2>3. Head(pipe) = Line("event", q) <=> k = "event"
    BY LinesDiffer
  <2> QED
    BY <2>2, <2>3, PipeIsRead
<1>3. ASSUME NEW r \in Request, r # q PROVE RequestInv(r)'
  <2>1. Head(pipe) # Line("event", r) /\ Head(pipe) # Line("done", r)
    BY <1>3, LinesDiffer
  <2>2. gen'[r] = gen[r] /\ (r \in streams' <=> r \in streams)
    BY <1>1, <1>3 DEF OnEvent
  <2> QED
    BY <2>1, <2>2, RequestPassed
<1>4. CASE k = "event" /\ ~gen[q].errorArrived
  <2> DEFINE g == [gen[q] EXCEPT !.queue = @ + 1]
  <2>1. gen' = [gen EXCEPT ![q] = g] /\ UNCHANGED streams
    BY <1>1, <1>4 DEF OnEvent
  <2>2. /\ g \in GenType /\ g.pc = "open" /\ ~g.doneArrived /\ ~g.errorArrived
        /\ g.got + g.queue = Taken(q) + 1
    <3>1. gen[q].queue \in 0..MaxSaid /\ gen[q].got \in 0..MaxSaid
      BY DriverFields
    <3>2. Taken(q) + 1 <= MaxSaid
      BY <1>1, <1>2, <1>4
    <3>3. gen[q].queue + 1 \in 0..MaxSaid
      BY <1>1, <3>1, <3>2, SMTT(60) DEF Taken
    <3>4. g.got = gen[q].got /\ g.queue = gen[q].queue + 1 /\ g \in GenType /\ g.pc = "open"
          /\ g.doneArrived = gen[q].doneArrived /\ g.errorArrived = gen[q].errorArrived
      BY <1>1, <3>3 DEF GenType
    <3> QED
      BY <1>1, <1>4, <3>1, <3>4 DEF Taken
  <2> HIDE DEF g
  <2>3. gen'[q] = g
    BY <1>1, <2>1
  <2>4. Taken(q)' = Taken(q) + 1
    BY <2>2, <2>3 DEF Taken
  <2>5. ASSUME NEW i \in DOMAIN pipe', FirstDone(pipe', i, q) PROVE Taken(q)' + Sent(pipe', i, q) = owed[q]
    <3>1. Head(pipe) # Line("done", q) /\ Head(pipe) = Line("event", q)
      BY <1>4, LinesDiffer
    <3>2. PICK j \in DOMAIN pipe : FirstDone(pipe, j, q) /\ Sent(pipe, j, q) = Sent(pipe', i, q) + 1
      BY <2>5, <3>1, PipeIsRead
    <3>3. Taken(q) + Sent(pipe, j, q) = owed[q]
      BY <1>1, <1>4, <3>2 DEF RequestInv
    <3>4. Sent(pipe', i, q) \in Nat
      <4>1. i \in Nat
        BY PipeIsRead
      <4> QED
        BY <4>1, SentIsCounted
    <3> QED
      BY <1>1, <2>4, <3>2, <3>3, <3>4
  <2>6. RequestInv(q)'
    BY <1>1, <1>2, <1>4, <2>1, <2>2, <2>3, <2>4, <2>5, SMTT(60) DEF RequestInv
  <2> QED
    BY <1>1, <1>3, <2>1, <2>2, <2>6
<1>5. CASE k = "event" /\ gen[q].errorArrived
  <2>1. gen' = gen /\ UNCHANGED streams /\ Taken(q)' = Taken(q)
    BY <1>5 DEF OnEvent, Taken
  <2>2. RequestInv(q)'
    BY <1>1, <1>2, <1>5, <2>1 DEF RequestInv
  <2> QED
    BY <1>1, <1>3, <2>1, <2>2
<1>6. CASE k = "done"
  <2> DEFINE g == [gen[q] EXCEPT !.doneArrived = TRUE]
  <2>1. gen' = [gen EXCEPT ![q] = g] /\ streams' = streams \ {q}
    BY <1>1, <1>6
  <2>2. /\ g \in GenType /\ g.pc = "open" /\ g.errorArrived = gen[q].errorArrived
        /\ g.got = gen[q].got /\ g.queue = gen[q].queue
    BY <1>1 DEF GenType
  <2> HIDE DEF g
  <2>3. gen'[q] = g /\ Taken(q)' = Taken(q)
    BY <1>1, <2>1, <2>2 DEF Taken
  <2>4. ~gen[q].errorArrived => Taken(q) = owed[q]
    <3>1. 1 \in DOMAIN pipe /\ pipe[1] = Line("done", q) /\ Line("done", q) # Line("event", q)
      BY <1>6, PipeIsRead, LinesDiffer
    <3>2. FirstDone(pipe, 1, q)
      BY <3>1 DEF FirstDone
    <3>3. Sent(pipe, 1, q) = 0
      <4>1. \A i \in 1..1 : pipe[i] # Line("event", q)
        BY <3>1
      <4> QED
        BY <4>1, SentNothing
    <3> QED
      BY <1>1, <3>1, <3>2, <3>3 DEF RequestInv
  <2>5. RequestInv(q)'
    BY <1>1, <2>1, <2>2, <2>3, <2>4 DEF RequestInv
  <2> QED
    BY <1>1, <1>3, <2>1, <2>2, <2>5
<1>7. CASE k = "error"
  <2> DEFINE g == [gen[q] EXCEPT !.errorArrived = TRUE]
  <2>1. gen' = [gen EXCEPT ![q] = g] /\ streams' = streams \ {q}
    BY <1>1, <1>7
  <2>2. g \in GenType /\ gen'[q] = g /\ q \notin streams'
    BY <1>1, <2>1 DEF GenType
  <2>3. RequestInv(q)'
    BY <2>2, RequestDropped
  <2> QED
    BY <1>1, <1>3, <2>1, <2>2, <2>3
<1> QED
  BY <1>4, <1>5, <1>6, <1>7

LEMMA ReadLineInv == DriverInv /\ ReadLine => DriverInv'
<1> SUFFICES ASSUME DriverInv, ReadLine PROVE DriverInv'
  OBVIOUS
<1> DEFINE m == Head(pipe)
<1>1. pipe # <<>> /\ pipe' = Tail(pipe) /\ UNCHANGED <<process, admitted, said, owed>> /\ m \in LineType
  BY PipeIsRead DEF ReadLine
<1>2. pipe' \in Seq(LineType) /\ \A i \in DOMAIN pipe' : pipe'[i] = Garbage \/ pipe'[i].id \in Request
  BY <1>1, PipeIsRead DEF DriverInv, DriverTypeOK
<1>3. /\ gen' \in [Request -> GenType] /\ streams' \subseteq Request /\ closed' \in BOOLEAN
      /\ \A r \in Request : RequestInv(r)'
  <2>1. CASE m = Garbage
    <3>1. FailUnavailable
      BY <2>1 DEF ReadLine
    <3> QED
      BY <1>1, <3>1, FailInv, FailTyped
  <2>2. CASE m # Garbage /\ m.id \notin streams
    <3>1. UNCHANGED <<closed, streams, gen>>
      BY <2>2 DEF ReadLine
    <3>2. \A r \in streams : m # Line("event", r) /\ m # Line("done", r)
      BY <2>2, LinesDiffer DEF DriverInv, DriverTypeOK
    <3> QED
      BY <1>1, <3>1, <3>2, RequestPassed DEF DriverInv, DriverTypeOK
  <2>3. CASE m # Garbage /\ m.id \in streams
    <3>1. PICK k \in {"event", "done", "error"}, q \in Request : m = Line(k, q)
      BY <1>1, <2>3 DEF LineType
    <3>2. m.kind = k /\ m.id = q
      BY <3>1, LinesDiffer
    <3>3. /\ UNCHANGED closed
          /\ IF k = "event" THEN OnEvent(q) /\ UNCHANGED streams
             ELSE /\ gen' = IF k = "done" THEN [gen EXCEPT ![q].doneArrived = TRUE]
                            ELSE [gen EXCEPT ![q].errorArrived = TRUE]
                  /\ streams' = streams \ {q}
      BY <2>3, <3>2 DEF ReadLine
    <3> HIDE DEF m
    <3> QED
      BY <1>1, <2>3, <3>1, <3>2, <3>3, LineForOpen DEF m, DriverInv, DriverTypeOK
  <2> QED
    BY <2>1, <2>2, <2>3
<1> QED
  BY <1>1, <1>2, <1>3 DEF DriverInv, DriverTypeOK

LEMMA DriverStepInv == DriverInv /\ [DriverNext]_driverVars => DriverInv'
<1> SUFFICES ASSUME DriverInv, [DriverNext]_driverVars PROVE DriverInv'
  OBVIOUS
<1>1. CASE UNCHANGED driverVars
  <2>1. UNCHANGED <<process, admitted, closed, pipe, said, owed, streams, gen>>
    BY <1>1 DEF driverVars
  <2>2. \A r \in Request : RequestInv(r)'
    BY <2>1, RequestStays
  <2> QED
    BY <2>1, <2>2 DEF DriverInv, DriverTypeOK
<1> QED
  BY <1>1, OthersInv, SaysInv, SaysGarbageInv, RunInv, PumpInv, RequestTimeoutInv, ExitInv, ReadLineInv
  DEF DriverNext, DriverStep

LEMMA DriverInvIsEnough == DriverInv => DriverInvariant
<1> SUFFICES ASSUME DriverInv, NEW r \in Request, gen[r].pc = "done" PROVE gen[r].got = owed[r]
  BY DEF DriverInv, DriverInvariant, DoneGotEverything
<1> QED
  BY DriverFields DEF RequestInv, Taken

(* A Turn that returned normally got every event the child sent before its *)
(* done line, whatever is interleaved, lost in an exit or timed out, for   *)
(* any number of requests and lines (stdio-adapter.ts).                    *)
THEOREM NothingIsSwallowed == DriverSpec => []DriverInvariant
BY DriverInitInv, DriverStepInv, DriverInvIsEnough, PTL DEF DriverSpec

-----------------------------------------------------------------------------
(* An external adapter, its process and its Turn together, as MCHosts      *)
(* composes them: nothing swallowed, and completions announced.            *)
THEOREM ExternalRunsAreTold == HostsSpec => []ExternalInvariant
<1>1. HostsInit => DriverInv /\ AdapterInv
  BY DriverInitInv, AdapterInitInv DEF HostsInit
<1>2. DriverInv /\ AdapterInv /\ [HostsNext]_hostsVars => (DriverInv /\ AdapterInv)'
  <2> SUFFICES ASSUME DriverInv, AdapterInv, [HostsNext]_hostsVars PROVE DriverInv' /\ AdapterInv'
    OBVIOUS
  <2>1. [DriverNext]_driverVars /\ [AdapterNext]_adapterVars
    BY DEF HostsNext, hostsVars
  <2> QED
    BY <2>1, DriverStepInv, AdapterStepInv
<1>3. DriverInv /\ AdapterInv => ExternalInvariant
  BY DriverInvIsEnough DEF ExternalInvariant, AdapterInv, AdapterInvariant
<1> QED
  BY <1>1, <1>2, <1>3, PTL DEF HostsSpec
=============================================================================
