------------------------------- MODULE Outbox -------------------------------
(***************************************************************************)
(* The transactional outbox and its two consumers in the worker process:   *)
(* the audit cycle (apps/worker outbox-worker.ts) and the compaction       *)
(* marker (compaction-marker.ts).  Each is a task of its own: it never     *)
(* overlaps itself, but the two interleave at every await.  Rows change by *)
(* single statements of outbox-repository.ts.  A producer, in the API or   *)
(* in the worker, stamps its event with the time before the transaction    *)
(* that inserts the row, so rows appear in another order than their stamps.*)
(***************************************************************************)
EXTENDS Naturals, Sequences, FiniteSets

CONSTANTS
  Message,     \* outbox_events that may be written
  Compaction,  \* those of type memory.compaction.requested
  Limit,       \* rows of one fetch (50)
  MaxCrash     \* bound: abandoned cycles

ASSUME OutboxAssumption ==
  Compaction \subseteq Message /\ Limit \in Nat \ {0} /\ MaxCrash \in Nat

VARIABLES
  queue,    \* the events that have a created_at, in its order
  row,      \* outbox_events.status, "absent" before the insert
  late,     \* ghost: <<m, n>> if the row of m appeared when the younger n had been fetched
  audited,  \* whether an audit record says the event was consumed
  marked,   \* whether its memory_compaction_marker exists
  job,      \* the cycle each task is in, with the events it fetched and has not settled
  crashes

outboxVars == <<queue, row, late, audited, marked, job, crashes>>

Task == {"audit", "marker"}

OutboxTypeOK ==
  /\ queue \in Seq(Message)
  /\ row \in [Message -> {"absent", "pending", "published", "failed"}]
  /\ late \subseteq Message \X Message
  /\ audited \in [Message -> BOOLEAN]
  /\ marked \in [Message -> BOOLEAN]
  /\ job \in [Task -> [pc : {"idle", "work", "done", "caught"}, batch : SUBSET Message]]
  /\ crashes \in 0..MaxCrash

Idle == [pc |-> "idle", batch |-> {}]

OutboxInit ==
  /\ queue = <<>>
  /\ row = [m \in Message |-> "absent"]
  /\ late = {}
  /\ audited = [m \in Message |-> FALSE]
  /\ marked = [m \in Message |-> FALSE]
  /\ job = [t \in Task |-> Idle]
  /\ crashes = 0

-----------------------------------------------------------------------------
Mine(t) == IF t = "marker" THEN Compaction ELSE Message

Before(m, n) == \E i, j \in DOMAIN queue : i < j /\ queue[i] = m /\ queue[j] = n

Doing(t, pc)  == job[t].pc = pc
Become(t, pc) == job' = [job EXCEPT ![t].pc = pc]

(* The event in hand: the loop takes the batch in order of creation. *)
Current(t, m) == m \in job[t].batch /\ \A n \in job[t].batch : n = m \/ Before(m, n)

(* On to the next event of the batch; the cycle is over with the last. *)
Advance(t, m) ==
  job' = [job EXCEPT ![t] = IF @.batch = {m} THEN Idle
                            ELSE [pc |-> "work", batch |-> @.batch \ {m}]]

(* A producer takes the time of its event ...                              *)
Stamp(m) ==
  /\ \A i \in DOMAIN queue : queue[i] # m
  /\ queue' = Append(queue, m)
  /\ UNCHANGED <<row, late, audited, marked, job, crashes>>

(* ... and commits its row together with what it is about, if it does.     *)
Fetched(m) == audited[m] \/ m \in job["audit"].batch
Insert(m) ==
  /\ row[m] = "absent" /\ \E i \in DOMAIN queue : queue[i] = m
  /\ row' = [row EXCEPT ![m] = "pending"]
  /\ late' = late \cup {<<m, n>> : n \in {k \in Message : Before(m, k) /\ Fetched(k)}}
  /\ UNCHANGED <<queue, audited, marked, job, crashes>>

Pending == {m \in Message : row[m] = "pending"}

(* fetchPendingEvents: the oldest ones, up to the limit. *)
Fetch == {m \in Pending : Cardinality({n \in Pending : Before(n, m)}) < Limit}

(* A cycle begins: the fetch, and for the marker the skip of other types. *)
Begin(t) ==
  /\ Doing(t, "idle")
  /\ LET mine == Fetch \cap Mine(t) IN
     mine # {} /\ job' = [job EXCEPT ![t] = [pc |-> "work", batch |-> mine]]
  /\ UNCHANGED <<queue, row, late, audited, marked, crashes>>

(* createAuditRecord *)
Audit ==
  /\ Doing("audit", "work")
  /\ \E m \in Message : Current("audit", m) /\ audited' = [audited EXCEPT ![m] = TRUE]
  /\ Become("audit", "done")
  /\ UNCHANGED <<queue, row, late, marked, crashes>>

(* upsertMarker: an existing marker is left alone; then recordEvent. *)
Mark ==
  /\ Doing("marker", "work")
  /\ \E m \in Message : Current("marker", m) /\ marked' = [marked EXCEPT ![m] = TRUE]
  /\ Become("marker", "done")
  /\ UNCHANGED <<queue, row, late, audited, crashes>>

(* A statement of the try block throws. *)
Throw(t) ==
  /\ job[t].pc \in {"work", "done"}
  /\ Become(t, "caught")
  /\ UNCHANGED <<queue, row, late, audited, marked, crashes>>

PublishFirst(t) ==
  /\ job[t].pc \in {"work", "done"}
  /\ \E m \in Message :
       /\ Current(t, m) /\ row[m] = "pending"
       /\ row' = [row EXCEPT ![m] = "published"]
       /\ IF Doing(t, "done") THEN Advance(t, m) ELSE UNCHANGED job
  /\ UNCHANGED <<queue, late, audited, marked, crashes>>

(* markPublished, whatever the status is by now. *)
Publish(t) ==
  /\ Doing(t, "done")
  /\ \E m \in Message :
       Current(t, m) /\ row' = [row EXCEPT ![m] = "published"] /\ Advance(t, m)
  /\ UNCHANGED <<queue, late, audited, marked, crashes>>

(* markFailed, whatever the status is by now. *)
Fail(t) ==
  /\ Doing(t, "caught")
  /\ \E m \in Message :
       Current(t, m) /\ row' = [row EXCEPT ![m] = "failed"] /\ Advance(t, m)
  /\ UNCHANGED <<queue, late, audited, marked, crashes>>

(* Cycles are abandoned: the worker process dies and is started again, or  *)
(* markFailed itself throws and the task's timer swallows the error.       *)
Abandon(tasks) ==
  /\ crashes < MaxCrash
  /\ crashes' = crashes + 1
  /\ job' = [t \in Task |-> IF t \in tasks THEN Idle ELSE job[t]]
  /\ UNCHANGED <<queue, row, late, audited, marked>>

Cycle(t) ==
  Begin(t) \/ Throw(t) \/ Publish(t) \/ Fail(t)
  \/ (t = "audit" /\ Audit) \/ (t = "marker" /\ Mark)

OutboxNext ==
  \/ \E m \in Message : Stamp(m) \/ Insert(m)
  \/ \E t \in Task : Cycle(t)
  \/ \E tasks \in SUBSET Task : Abandon(tasks)

OutboxSpec == OutboxInit /\ [][OutboxNext]_outboxVars

(* The interval timer of each task beats and every statement returns or    *)
(* throws.                                                                 *)
OutboxFairness == \A t \in Task : WF_outboxVars(Cycle(t))

-----------------------------------------------------------------------------
(* At least once: nothing is published before one of the consumers has     *)
(* done its work on it, wherever the process dies in between.              *)
PublishedWasConsumed ==
  \A m \in Message : row[m] = "published" => audited[m] \/ marked[m]

(* In order of creation, as far as a fetch can know it: when an event is   *)
(* audited, every older one has been audited or settled - but for one      *)
(* whose row was not there yet when the younger was fetched.  So it is     *)
(* although fetches are cut off, events fail and crashed cycles are        *)
(* repeated from the start.                                                *)
AuditedInOrder ==
  \A m, n \in Message :
    Before(m, n) /\ audited[n] => audited[m] \/ row[m] # "pending" \/ <<m, n>> \in late

(* No event waits for ever: neither one that fails again and again nor a   *)
(* window full of events a consumer skips holds up the others.             *)
NothingWaitsForEver ==
  \A m \in Message : row[m] = "pending" ~> row[m] # "pending"

(* In every state of the outbox.                                           *)
OutboxInvariant == OutboxTypeOK /\ PublishedWasConsumed /\ AuditedInOrder
=============================================================================
