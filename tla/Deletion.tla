------------------------------ MODULE Deletion ------------------------------
(***************************************************************************)
(* Deletion requests and the worker that carries them out                  *)
(* (apps/worker/src/deletion-worker.ts over                                *)
(* packages/database/src/repositories/sqlite/privacy-repository.ts).  The  *)
(* targets of a request are external: nothing in the repository inserts    *)
(* them outside tests, so a request is posted with any set of them.  Each  *)
(* statement of the worker may throw, and the worker may die between two.  *)
(***************************************************************************)
EXTENDS Naturals, FiniteSets, FiniteSetsExt

CONSTANTS Deletion,    \* deletion requests
          Target,      \* deletion targets of one request
          Eraser,      \* worker processes
          Window,      \* requests one cycle takes (20 in the code)
          MaxMishaps   \* bound: statements that throw and workers that die

ASSUME DeletionAssumption == Window \in Nat \ {0} /\ MaxMishaps \in Nat

VARIABLES deletion, \* each request: its status and its targets not yet completed
          eraser,   \* each worker: where it is, the requests still to do, the one in hand
          mishaps

deletionVars == <<deletion, eraser, mishaps>>

Resting == [at |-> "rest", todo |-> {}, hand |-> {}]
Open == {d \in Deletion : deletion[d].status \in {"pending", "in_progress"}}

DeletionTypeOK ==
  /\ deletion \in [Deletion -> [status : {"none", "pending", "in_progress", "completed", "failed"},
                                left : SUBSET Target]]
  /\ eraser \in [Eraser -> [at : {"rest", "next", "clear", "judge", "audit"},
                            todo : SUBSET Deletion, hand : SUBSET Deletion]]
  /\ mishaps \in 0..MaxMishaps

DeletionInit ==
  /\ deletion = [d \in Deletion |-> [status |-> "none", left |-> {}]]
  /\ eraser = [w \in Eraser |-> Resting]
  /\ mishaps = 0

SetStatus(d, status) == deletion' = [deletion EXCEPT ![d].status = status]

\* POST /v1/deletions and the targets of the request.
PostDeletion(d, targets) ==
  /\ deletion[d].status = "none"
  /\ deletion' = [deletion EXCEPT ![d] = [status |-> "pending", left |-> targets]]
  /\ UNCHANGED <<eraser, mishaps>>

\* A select that only takes requests nobody has started.
TakePending(w) ==
  /\ eraser[w].at = "rest"
  /\ \E d \in Deletion :
       /\ deletion[d].status = "pending"
       /\ eraser' = [eraser EXCEPT ![w] = [at |-> "next", todo |-> {d}, hand |-> {}]]
  /\ UNCHANGED <<deletion, mishaps>>

\* The select of a cycle: requests not ended, in no order, at most a window of them.
TakeDeletions(w) ==
  /\ eraser[w].at = "rest"
  /\ Open # {}
  /\ \E chosen \in kSubset(Min({Window, Cardinality(Open)}), Open) :
       eraser' = [eraser EXCEPT ![w] = [at |-> "next", todo |-> chosen, hand |-> {}]]
  /\ UNCHANGED <<deletion, mishaps>>

\* The loop: marks the next request as under way, whatever its status is by now.
NextDeletion(w) ==
  /\ eraser[w].at = "next"
  /\ IF eraser[w].todo = {}
       THEN eraser' = [eraser EXCEPT ![w] = Resting] /\ UNCHANGED deletion
       ELSE \E d \in eraser[w].todo :
              /\ SetStatus(d, "in_progress")
              /\ eraser' = [eraser EXCEPT ![w] = [at |-> "clear", todo |-> @.todo \ {d}, hand |-> {d}]]
  /\ UNCHANGED mishaps

\* One target after the other is completed.
ClearTarget(w) ==
  /\ eraser[w].at = "clear"
  /\ \E d \in eraser[w].hand :
       IF deletion[d].left = {}
         THEN eraser' = [eraser EXCEPT ![w].at = "judge"] /\ UNCHANGED deletion
         ELSE /\ \E t \in deletion[d].left : deletion' = [deletion EXCEPT ![d].left = @ \ {t}]
              /\ UNCHANGED eraser
  /\ UNCHANGED mishaps

\* The targets are read again; the request is completed only when none is left.
Judge(w) ==
  /\ eraser[w].at = "judge"
  /\ \E d \in eraser[w].hand :
       /\ deletion[d].left = {}
       /\ SetStatus(d, "completed")
       /\ eraser' = [eraser EXCEPT ![w].at = "audit"]
  /\ UNCHANGED mishaps

\* createAuditRecord, a statement after the one that completed the request.
AuditDeletion(w) ==
  /\ eraser[w].at = "audit"
  /\ eraser' = [eraser EXCEPT ![w].at = "next", ![w].hand = {}]
  /\ UNCHANGED <<deletion, mishaps>>

\* A catch that treats a throwing target as done.
CaughtAsDone(w) == \E d \in eraser[w].hand : SetStatus(d, "completed")

\* The catch of one request: it fails, even one completed a statement before.
Catch(w) == \E d \in eraser[w].hand : SetStatus(d, "failed")

DeletionThrows(w) ==
  /\ eraser[w].at \in {"clear", "judge", "audit"}
  /\ mishaps < MaxMishaps
  /\ mishaps' = mishaps + 1
  /\ Catch(w)
  /\ eraser' = [eraser EXCEPT ![w].at = "next", ![w].hand = {}]

EraserDies(w) ==
  /\ eraser[w].at # "rest"
  /\ mishaps < MaxMishaps
  /\ mishaps' = mishaps + 1
  /\ eraser' = [eraser EXCEPT ![w] = Resting]
  /\ UNCHANGED deletion

EraserStep(w) == TakeDeletions(w) \/ NextDeletion(w) \/ ClearTarget(w) \/ Judge(w) \/ AuditDeletion(w)

DeletionNext ==
  \/ \E d \in Deletion, targets \in SUBSET Target : PostDeletion(d, targets)
  \/ \E w \in Eraser : EraserStep(w) \/ DeletionThrows(w) \/ EraserDies(w)

\* The timer of each worker process fires again and again (worker/src/index.ts:152).
DeletionFairness == \A w \in Eraser : WF_deletionVars(EraserStep(w))
DeletionSpec == DeletionInit /\ [][DeletionNext]_deletionVars /\ DeletionFairness

-----------------------------------------------------------------------------
\* A request the user was told is completed has no target left, with workers that
\* overlap, statements that throw and workers that die between two targets.
CompletedIsClear == \A d \in Deletion : deletion[d].status = "completed" => deletion[d].left = {}

\* Every posted request ends, completed or failed: a worker that dies leaves it
\* in_progress, which the next cycle takes again, so the resume gate that waits for
\* it (hasPendingDeletionRequest) opens again.
DeletionEnds == \A d \in Deletion : deletion[d].status = "pending" ~> deletion[d].status \in {"completed", "failed"}

\* In every state of the deletion requests.
DeletionInvariant == DeletionTypeOK /\ CompletedIsClear
=============================================================================
