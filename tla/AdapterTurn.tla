---------------------------- MODULE AdapterTurn -----------------------------
(***************************************************************************)
(* runAdapterTurn (packages/host-agent/src/adapter-turn.ts): an agent host *)
(* lets an external adapter execute a whole Turn and writes the adapter's  *)
(* events to the stream afterwards.  Unlike executeTurn it never renews    *)
(* its lease, and it appends the done event and finalizes the attempt in   *)
(* two steps.  The executors of AttemptStore are the activations of        *)
(* runAdapterTurn for one attempt, in one host or in several.              *)
(***************************************************************************)
EXTENDS AttemptStore

CONSTANTS
  MaxEvents,  \* bound: events of an adapter that go to the stream
  MaxSide     \* bound: side events and errors of the entry loop

ASSUME AdapterAssumption ==
  MaxEvents \in Nat /\ MaxSide \in Nat /\ {"message", "event"} \subseteq Kind

VARIABLE turn   \* of each activation: next await, sequence, events to write, verdict

adapterVars == <<storeVars, turn>>

Verdict == {"Completed", "Interrupted"}

TurnType == [pc : {"idle", "number", "message", "drain", "events", "reason", "done",
                   "finalize", "catch", "error", "failed", "left"},
             seq : 0..(MaxSeq + 1), todo : 0..MaxEvents, verdict : Verdict]

AdapterTypeOK == StoreTypeOK /\ turn \in [Executor -> TurnType]

AdapterInit ==
  /\ StoreInit
  /\ turn = [e \in Executor |-> [pc |-> "idle", seq |-> 0, todo |-> 0, verdict |-> "Interrupted"]]

Goto(e, pc) == turn' = [turn EXCEPT ![e].pc = pc]

(* claim with token 0; a refused claim is "skipped".  The API's entry loop *)
(* is not part of it.                                                      *)
AdapterClaim(e) ==
  /\ turn[e].pc = "idle"
  /\ Claim(e, 0)
  /\ Goto(e, "number")
  /\ UNCHANGED entry

AdapterSkip(e) ==
  /\ turn[e].pc = "idle"
  /\ ~(status = "Running" /\ fencing = 0 /\ lease # "live")
  /\ Goto(e, "left")
  /\ UNCHANGED storeVars

(* nextSequence counts the events, at the start and again in the catch.    *)
Number(e) ==
  /\ turn[e].pc \in {"number", "catch"}
  /\ Len(log) < MaxSeq
  /\ turn' = [turn EXCEPT ![e].seq = Len(log) + 1,
                          ![e].pc = IF @ = "number" THEN "message" ELSE "error"]
  /\ UNCHANGED storeVars

(* An append that is refused -- by the token, the status or the unique     *)
(* index -- throws: into the catch block, and from there out of it.        *)
Accepted(e, k) == Free(turn[e].seq) /\ turn[e].seq <= MaxSeq /\ MayAppend(e, k)

Insert(e, k) ==
  IF k \in Terminal THEN AppendClosing(e, turn[e].seq, k)
                    ELSE AppendFenced(e, turn[e].seq, k, NoRef)

AppendOr(e, k, next, otherwise) ==
  IF Accepted(e, k)
  THEN Insert(e, k) /\ turn' = [turn EXCEPT ![e] = [next EXCEPT !.seq = @ + 1]]
  ELSE Goto(e, otherwise) /\ UNCHANGED storeVars

Announce(e) ==
  /\ turn[e].pc = "message"
  /\ AppendOr(e, "message", [turn[e] EXCEPT !.pc = "drain"], "catch")

(* drainAdapterDriver: all events of the adapter and its batch verdict, or *)
(* an exception (timeout, protocol, exit).  Nothing is written meanwhile   *)
(* and no lease is renewed.                                                *)
Drain(e) ==
  /\ turn[e].pc = "drain"
  /\ \/ \E n \in 0..MaxEvents, v \in Verdict :
          turn' = [turn EXCEPT ![e].pc = "events", ![e].todo = n, ![e].verdict = v]
     \/ Goto(e, "catch")
  /\ UNCHANGED storeVars

WriteEvent(e) ==
  /\ turn[e].pc = "events" /\ turn[e].todo > 0
  /\ AppendOr(e, "event", [turn[e] EXCEPT !.todo = @ - 1], "catch")

(* concluded: done and Completed; otherwise error, done and Interrupted.   *)
Conclude(e) ==
  /\ turn[e].pc = "events" /\ turn[e].todo = 0
  /\ Goto(e, IF turn[e].verdict = "Completed" THEN "done" ELSE "reason")
  /\ UNCHANGED storeVars

WriteReason(e) ==
  /\ turn[e].pc = "reason"
  /\ AppendOr(e, "Failed", [turn[e] EXCEPT !.pc = "done"], "catch")

WriteDone(e) ==
  /\ turn[e].pc = "done"
  /\ AppendOr(e, turn[e].verdict, [turn[e] EXCEPT !.pc = "finalize"], "catch")

(* finalizeTurnAttempt with the token; its result is not looked at. *)
SettleAs(e, outcome) ==
  /\ SetStatus(e, outcome) \/ (~Fenced(e) /\ UNCHANGED storeVars)
  /\ Goto(e, "left")

DoneFirst(e) == turn[e].pc \in {"done", "finalize"} /\ SettleAs(e, turn[e].verdict)
FinalizeTurn(e) == turn[e].pc = "finalize" /\ SettleAs(e, turn[e].verdict)

(* The catch block: an error event, then Failed; if the event is refused   *)
(* the status is not touched, and nobody hears of it.                      *)
WriteError(e) ==
  /\ turn[e].pc = "error"
  /\ AppendOr(e, "Failed", [turn[e] EXCEPT !.pc = "failed"], "left")

FinalizeFailed(e) == turn[e].pc = "failed" /\ SettleAs(e, "Failed")

(* The host's process dies. *)
HostDies(e) ==
  /\ turn[e].pc \notin {"idle", "left"}
  /\ Forget(e)
  /\ Goto(e, "left")

AdapterStep(e) ==
  \/ AdapterSkip(e) \/ Number(e) \/ Announce(e) \/ Drain(e) \/ WriteEvent(e) \/ Conclude(e)
  \/ WriteReason(e) \/ WriteDone(e) \/ FinalizeTurn(e) \/ WriteError(e) \/ FinalizeFailed(e)

(* Side events come from the API's handlers, numbered by counting rows.    *)
Elsewhere ==
  /\ \/ RequestCancel \/ RecoverExpired \/ LeaseExpires
     \/ FailEntryStatus \/ EntryLeaves
     \/ /\ Len(log) < MaxSeq /\ \A i \in DOMAIN log : log[i].token = 0 => i < MaxSide
        /\ SideAppend(Len(log) + 1) \/ FailEntry(Len(log) + 1)
  /\ UNCHANGED turn

AdapterNext ==
  \/ \E e \in Executor : AdapterClaim(e) \/ AdapterStep(e) \/ HostDies(e)
  \/ Elsewhere

AdapterSpec == AdapterInit /\ [][AdapterNext]_adapterVars

-----------------------------------------------------------------------------
(* Properties *)

(* Done comes first (adapter-turn.ts:115): an attempt an adapter completed *)
(* has the done event of the same holder in its stream, whatever cancels,  *)
(* recoveries, crashes and side events come between the two steps.         *)
CompletedWasAnnounced ==
  status = "Completed" =>
    \E i \in DOMAIN log : log[i].kind = "Completed" /\ log[i].token = fencing

(* A swallowed ending (adapter-turn.ts:138-149) and a lease nobody renews: *)
(* a claimed attempt that is not cancelled stops running all the same.     *)
AdapterSettles ==
  (fencing > 0 /\ status = "Running") ~> status # "Running"

(* In every state of an attempt an adapter runs.                           *)
AdapterInvariant == AdapterTypeOK /\ CompletedWasAnnounced

(* Statements of the adapter return or throw, leases run out and the       *)
(* recovery cycle beats; the adapter answers or times out.                 *)
AdapterFairness ==
  /\ \A e \in Executor : WF_adapterVars(AdapterStep(e))
  /\ WF_adapterVars(LeaseExpires /\ UNCHANGED turn)
  /\ WF_adapterVars(RecoverExpired /\ UNCHANGED turn)

(* "Done first, then the attempt" (adapter-turn.ts:115): a stream that     *)
(* tells a completion tells the ending of its attempt.                     *)
DoneTellsTheEnding ==
  \A i \in DOMAIN log : log[i].kind = "Completed" /\ status \in Terminal => status = "Completed"
=============================================================================
