----------------------------- MODULE MemoryStore -----------------------------
(***************************************************************************)
(* The in-memory store the tests run the loop on                           *)
(* (packages/agent-loop/src/in-memory-store.ts), which is to mean the same *)
(* as the rows of AttemptStore.  Its methods run to their first await      *)
(* without being interrupted; the outcome of a reserved call is the only   *)
(* one that awaits between two of its writes.  Numbers are not checked.    *)
(***************************************************************************)
EXTENDS Naturals, Sequences

CONSTANTS
  Holder,     \* runs of executeTurn on this store
  Nobody,     \* who has claimed an attempt that was seeded
  Invocation, \* tool calls
  MaxGrip,    \* bound: largest fencingToken
  MaxEvents   \* bound: events of the turn

ASSUME MemoryAssumption ==
  Nobody \notin Holder /\ MaxGrip \in Nat \ {0} /\ MaxEvents \in Nat \ {0}

VARIABLES
  attempt,   \* the AttemptRecord
  events,    \* eventsByTurn, in the order they were pushed; token 0 was not checked
  book,      \* toolExecutionByKey: the status of each call, none before its reservation
  grip,      \* the token each holder's claim returned, 0 before
  half       \* the call whose event each holder has still to append, none otherwise

memoryVars == <<attempt, events, book, grip, half>>

Going    == {"Running", "CancelRequested"}
Over     == {"Completed", "Failed", "Interrupted", "Cancelled"}
NoResult == "none"
BookStatus == {"executed", "rejected", "timeout_error", "duplicate"}

MemoryTypeOK ==
  /\ attempt \in [status : Going \cup Over, token : 0..MaxGrip, lease : {"none", "live", "past"},
                  leaseId : Holder \cup {Nobody}]
  /\ events \in Seq([kind : {"progress", "tool_result", "ending"}, call : Invocation \cup {NoResult},
                     token : 0..MaxGrip])
  /\ book \in [Invocation -> BookStatus \cup {"none", "pending", "outcome_unknown"}]
  /\ grip \in [Holder -> 0..MaxGrip]
  /\ half \in [Holder -> Invocation \cup {NoResult}]

MemoryInit ==
  /\ attempt = [status |-> "Running", token |-> 0, lease |-> "none", leaseId |-> Nobody]
  /\ events = <<>>
  /\ book = [c \in Invocation |-> "none"]
  /\ grip = [h \in Holder |-> 0]
  /\ half = [h \in Holder |-> NoResult]

-----------------------------------------------------------------------------
\* claimTurnAttempt, with the token the holder has read; the lease id is the same for
\* every claim of the attempt, until a hook changes it (Nobody).
MemoryClaim(h) ==
  /\ attempt.status = "Running" /\ attempt.lease # "live" /\ attempt.token < MaxGrip
  /\ attempt' = [attempt EXCEPT !.token = @ + 1, !.lease = "live", !.leaseId = h]
  /\ grip' = [grip EXCEPT ![h] = attempt.token + 1]
  /\ UNCHANGED <<events, book, half>>

Holds(h) == grip[h] # 0 /\ half[h] = NoResult

MemoryRenew(h) ==
  /\ Holds(h)
  /\ attempt.status = "Running" /\ attempt.leaseId # Nobody /\ attempt.token = grip[h]
  /\ attempt' = [attempt EXCEPT !.lease = "live"]
  /\ UNCHANGED <<events, book, grip, half>>

\* appendEvent with a token: a progress event on an attempt that goes on, a closing one
\* also on one that is over.  By the status alone, a preempted holder would be heard.
AcceptsByStatus(h, kind) == attempt.status \in Going \/ (kind = "ending" /\ attempt.status \in Over)
Accepts(h, kind) ==
  /\ attempt.token = grip[h]
  /\ attempt.status \in Going \/ (kind = "ending" /\ attempt.status \in Over)

Push(kind, call, token) ==
  /\ Len(events) < MaxEvents
  /\ events' = Append(events, [kind |-> kind, call |-> call, token |-> token])

MemoryAppend(h, kind) ==
  /\ Holds(h) /\ Accepts(h, kind)
  /\ Push(kind, NoResult, grip[h])
  /\ UNCHANGED <<attempt, book, grip, half>>

\* The tests' fixtures append without a token.
MemoryAppendDirectly ==
  /\ Push("progress", NoResult, 0)
  /\ UNCHANGED <<attempt, book, grip, half>>

\* reserveToolExecution: whoever asks, and only the first counts.
MemoryReserve(h, c) ==
  /\ Holds(h)
  /\ book[c] = "none"
  /\ book' = [book EXCEPT ![c] = "pending"]
  /\ UNCHANGED <<attempt, events, grip, half>>

\* recordToolOutcome of a call nobody reserved: a duplicate, noted and told at once.
MemoryDuplicate(h, c) ==
  /\ Holds(h) /\ Accepts(h, "tool_result") /\ book[c] = "none"
  /\ book' = [book EXCEPT ![c] = "duplicate"]
  /\ Push("tool_result", c, grip[h])
  /\ UNCHANGED <<attempt, grip, half>>

\* ... of a reserved one (the executor reserves before it runs a tool): the book first,
MemoryOutcome(h, c, s) ==
  /\ Holds(h) /\ Accepts(h, "tool_result") /\ book[c] # "none"
  /\ book' = [book EXCEPT ![c] = s]
  /\ half' = [half EXCEPT ![h] = c]
  /\ UNCHANGED <<attempt, events, grip>>

\* ... and after the await the event, which may be refused by now (LeaseLostError).
MemoryTell(h) ==
  /\ half[h] # NoResult
  /\ half' = [half EXCEPT ![h] = NoResult]
  /\ IF Accepts(h, "tool_result") THEN Push("tool_result", half[h], grip[h]) ELSE UNCHANGED events
  /\ UNCHANGED <<attempt, book, grip>>

\* finalizeAttemptWithEvent: the status, and the event in the same turn of the event loop.
MemoryFinalize(h, outcome) ==
  /\ Holds(h) /\ attempt.status \in Going /\ attempt.token = grip[h]
  /\ attempt' = [attempt EXCEPT !.status = outcome]
  /\ Push("ending", NoResult, grip[h])
  /\ UNCHANGED <<book, grip, half>>

\* finalizeAttempt, with a token or without.
MemoryFinalizePlain(outcome) ==
  /\ attempt.status \in Going
  /\ attempt' = [attempt EXCEPT !.status = outcome]
  /\ UNCHANGED <<events, book, grip, half>>

MemoryCancel ==
  /\ attempt.status = "Running"
  /\ attempt' = [attempt EXCEPT !.status = "CancelRequested"]
  /\ UNCHANGED <<events, book, grip, half>>

MemoryLeaseEnds ==
  /\ attempt.lease = "live"
  /\ attempt' = [attempt EXCEPT !.lease = "past"]
  /\ UNCHANGED <<events, book, grip, half>>

-----------------------------------------------------------------------------
(* The hooks of the tests, on an attempt that runs.                        *)
SimulateLeaseLoss ==
  /\ attempt' = [attempt EXCEPT !.lease = "past", !.leaseId = Nobody]
  /\ UNCHANGED <<events, book, grip, half>>

SimulatePreemption ==
  /\ attempt.status = "Running" /\ attempt.token < MaxGrip
  /\ attempt' = [attempt EXCEPT !.token = @ + 1, !.lease = "past", !.leaseId = Nobody]
  /\ UNCHANGED <<events, book, grip, half>>

MarkAllPendingUnknown ==
  /\ book' = [c \in Invocation |-> IF book[c] = "pending" THEN "outcome_unknown" ELSE book[c]]
  /\ UNCHANGED <<attempt, events, grip, half>>

-----------------------------------------------------------------------------
HolderOp(h) ==
  \/ MemoryClaim(h) \/ MemoryRenew(h) \/ MemoryTell(h)
  \/ \E kind \in {"progress", "ending"} : MemoryAppend(h, kind)
  \/ \E c \in Invocation : MemoryReserve(h, c) \/ MemoryDuplicate(h, c)
  \/ \E c \in Invocation, s \in BookStatus : MemoryOutcome(h, c, s)
  \/ \E outcome \in Over : MemoryFinalize(h, outcome)

MemoryNext ==
  \/ \E h \in Holder : HolderOp(h)
  \/ \E outcome \in Over : MemoryFinalizePlain(outcome)
  \/ MemoryAppendDirectly \/ MemoryCancel \/ MemoryLeaseEnds
  \/ SimulateLeaseLoss \/ SimulatePreemption \/ MarkAllPendingUnknown

MemorySpec == MemoryInit /\ [][MemoryNext]_memoryVars

-----------------------------------------------------------------------------
\* The token of the last event that was checked against one.
Heard == {i \in DOMAIN events : events[i].token # 0}
LastHeard == IF Heard = {} THEN 0 ELSE events[CHOOSE i \in Heard : \A j \in Heard : j <= i].token

Promise == INSTANCE AttemptLife WITH
             MaxEpoch <- MaxGrip, phase <- attempt.status, epoch <- attempt.token,
             spoken <- LastHeard

\* Whoever reads a result in the stream finds its call settled in the ledger.
ResultIsBooked ==
  \A i \in DOMAIN events : events[i].kind = "tool_result" => book[events[i].call] \in BookStatus

(* The double behaves like the store of the product as far as the life of  *)
(* an attempt goes: it ends once, and nobody who was preempted is heard,   *)
(* not even after the await in recordToolOutcome.  And no result is told   *)
(* that the ledger does not have.                                          *)
MemoryKeepsThePromise == Promise!LifeSpec /\ [](MemoryTypeOK /\ ResultIsBooked)
=============================================================================
