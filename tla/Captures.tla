------------------------------ MODULE Captures ------------------------------
(***************************************************************************)
(* Raw captures of the proactive profile and what becomes of them: the     *)
(* API ingests a capture of a granted source, the worker distils it into   *)
(* observations and claims (apps/worker/src/proactive-profile-worker.ts),  *)
(* a purge scrubs what is distilled and past its retention, and the user   *)
(* can erase a source at any moment.  The statements are those of          *)
(* proactive-profile-repository.ts, one action each, for one revision of   *)
(* one profile.  Memory i of capture c is the pair <<c, i>>.               *)
(***************************************************************************)
EXTENDS Naturals, Sequences, FiniteSets, Functions

CONSTANTS
  Capture, Grant,
  Order,        \* the captures by observedAt and ingestedAt
  SourceOf,     \* the grant of each capture
  Yield,        \* how many memories the distiller finds in each capture
  Purger,       \* the worker and a client of POST /captures/purge
  BatchLimit,   \* candidates of a cycle (50), rows of a purge (200)
  Window,       \* MAX_LIST_LIMIT: rows listCaptures returns (500)
  MaxCrashes    \* bound

ASSUME CapturesAssumption ==
  /\ Order \in Seq(Capture) /\ IsInjective(Order) /\ Range(Order) = Capture
  /\ SourceOf \in [Capture -> Grant]
  /\ Yield \in [Capture -> Nat \ {0}]
  /\ BatchLimit \in Nat \ {0} /\ Window \in Nat \ {0} /\ MaxCrashes \in Nat

VARIABLES
  enabled,    \* the revision is active and its desired state enabled
  grant,      \* proactive_source_grants.state
  row,        \* proactive_captures
  claims,     \* proactive_profile_claims, by the memory they record
  observed,   \* proactive_observations, likewise
  ingest,     \* createCapture between its checks and its insert
  worker,     \* the cycle of the worker: the capture in hand, those still to do
  purge,      \* purgeEligibleCaptures, per caller
  erased,     \* the sources whose data the user has deleted
  crashes

capturesVars == <<enabled, grant, row, claims, observed, ingest, worker, purge, erased, crashes>>

Memory == UNION {{c} \X (1..Yield[c]) : c \in Capture}
Of(c) == {m \in Memory : m[1] = c}

RowType == [status : {"absent", "pending", "failed", "blocked", "distilled", "deleted"},
            payload : BOOLEAN, overdue : BOOLEAN]

CapturesTypeOK ==
  /\ enabled \in BOOLEAN
  /\ grant \in [Grant -> {"granted", "revoked"}]
  /\ row \in [Capture -> RowType]
  /\ claims \subseteq Memory /\ observed \subseteq Memory
  /\ ingest \in [Capture -> {"none", "checked", "done"}]
  /\ worker \in [pc : {"idle", "load", "known", "distil", "seen", "observe", "insert", "claim", "mark", "fail", "purge"},
                 hand : Capture \cup {"none"}, todo : SUBSET Capture, i : Nat, seen : SUBSET Memory]
  /\ purge \in [Purger -> [pc : {"idle", "block", "select", "scrub"}, held : SUBSET Capture]]
  /\ erased \subseteq Grant /\ crashes \in 0..MaxCrashes

BetweenCycles == [pc |-> "idle", hand |-> "none", todo |-> {}, i |-> 0, seen |-> {}]

CapturesInit ==
  /\ enabled = TRUE
  /\ grant = [g \in Grant |-> "granted"]
  /\ row = [c \in Capture |-> [status |-> "absent", payload |-> FALSE, overdue |-> FALSE]]
  /\ claims = {} /\ observed = {}
  /\ ingest = [c \in Capture |-> "none"]
  /\ worker = BetweenCycles
  /\ purge = [p \in Purger |-> [pc |-> "idle", held |-> {}]]
  /\ erased = {} /\ crashes = 0

(* deletedAt IS NULL *)
Kept(c) == row[c].status \notin {"absent", "deleted"}

(* createCapture and createObservation accept a granted source of an       *)
(* active, enabled revision only.                                          *)
Accepts(c) == enabled /\ grant[SourceOf[c]] = "granted"

-----------------------------------------------------------------------------
(* Ingest: the checks and the insert are separate statements. *)
CheckCapture(c) ==
  /\ ingest[c] = "none" /\ row[c].status = "absent"
  /\ Accepts(c)
  /\ ingest' = [ingest EXCEPT ![c] = "checked"]
  /\ UNCHANGED <<enabled, grant, row, claims, observed, worker, purge, erased, crashes>>

InsertCapture(c) ==
  /\ ingest[c] = "checked"
  /\ ingest' = [ingest EXCEPT ![c] = "done"]
  /\ row' = [row EXCEPT ![c].status = "pending", ![c].payload = TRUE]
  /\ UNCHANGED <<enabled, grant, claims, observed, worker, purge, erased, crashes>>

(* The clock passes retentionUntil. *)
RetentionEnds(c) ==
  /\ Kept(c) /\ ~row[c].overdue
  /\ row' = [row EXCEPT ![c].overdue = TRUE]
  /\ UNCHANGED <<enabled, grant, claims, observed, ingest, worker, purge, erased, crashes>>

(* setDesiredState, updateSourceGrant: the user pauses, resumes, revokes   *)
(* and grants again.                                                       *)
Toggle ==
  /\ \/ enabled' = ~enabled /\ UNCHANGED grant
     \/ \E g \in Grant, s \in {"granted", "revoked"} :
          grant[g] # s /\ grant' = [grant EXCEPT ![g] = s] /\ UNCHANGED enabled
  /\ UNCHANGED <<row, claims, observed, ingest, worker, purge, erased, crashes>>

Scrubbed(r) == [r EXCEPT !.status = "deleted", !.payload = FALSE]

(* deleteSourceData, one transaction. *)
DeleteSourceData(g) ==
  /\ row' = [c \in Capture |-> IF SourceOf[c] = g /\ Kept(c) THEN Scrubbed(row[c]) ELSE row[c]]
  /\ observed' = {m \in observed : SourceOf[m[1]] # g}
  /\ claims' = {m \in claims : SourceOf[m[1]] # g}
  /\ grant' = [grant EXCEPT ![g] = "revoked"]
  /\ erased' = erased \cup {g}
  /\ UNCHANGED <<enabled, ingest, worker, purge, crashes>>

-----------------------------------------------------------------------------
(* The worker's cycle.  A failed or blocked capture is a candidate again   *)
(* five minutes later; cycles are any time apart, so it may be selected.   *)
W(pc) == worker' = [worker EXCEPT !.pc = pc]
Current == worker.hand
Mark(status) == row' = IF Kept(Current) THEN [row EXCEPT ![Current].status = status] ELSE row

Earlier(c, d) == \E i, j \in DOMAIN Order : i < j /\ Order[i] = c /\ Order[j] = d

(* The cycle goes on with the first of the rest, or to the purge. *)
TakeFrom(rest) ==
  \/ rest = {} /\ worker' = [pc |-> "purge", hand |-> "none", todo |-> {}, i |-> 0, seen |-> {}]
  \/ \E c \in rest :
       /\ \A d \in rest : d = c \/ Earlier(c, d)
       /\ worker' = [pc |-> "load", hand |-> c, todo |-> rest \ {c}, i |-> 0, seen |-> {}]

Next1 == TakeFrom(worker.todo)

SelectCandidates ==
  /\ worker.pc = "idle"
  /\ LET found == {c \in Capture : Accepts(c) /\ row[c].status \in {"pending", "failed", "blocked"}}
     IN TakeFrom({c \in found : Cardinality({d \in found : Earlier(d, c)}) < BatchLimit})
  /\ UNCHANGED <<enabled, grant, row, claims, observed, ingest, purge, erased, crashes>>

(* loadCapture looks for the capture among the newest rows only; one that  *)
(* is not there is passed over and stays as it is.                         *)
InWindow(c) ==
  Cardinality({d \in Capture : Kept(d) /\ Earlier(c, d)}) < Window

Load ==
  /\ worker.pc = "load"
  /\ IF Kept(Current) /\ InWindow(Current) THEN W("known") ELSE Next1
  /\ UNCHANGED <<enabled, grant, row, claims, observed, ingest, purge, erased, crashes>>

(* Faulty variant: the capture is marked before its claims are made.       *)
LookAndMark ==
  /\ worker.pc = "known"
  /\ Mark("distilled")
  /\ W(IF claims \cap Of(Current) # {} THEN "mark" ELSE "distil")
  /\ UNCHANGED <<enabled, grant, claims, observed, ingest, purge, erased, crashes>>

(* existingMemoryIds: claims of an earlier, interrupted cycle are taken    *)
(* for the result.                                                         *)
LookForClaims ==
  /\ worker.pc = "known"
  /\ W(IF claims \cap Of(Current) # {} THEN "mark" ELSE "distil")
  /\ UNCHANGED <<enabled, grant, row, claims, observed, ingest, purge, erased, crashes>>

Distil ==
  /\ worker.pc = "distil"
  /\ W("seen") \/ W("fail")
  /\ UNCHANGED <<enabled, grant, row, claims, observed, ingest, purge, erased, crashes>>

ListObservations ==
  /\ worker.pc = "seen"
  /\ worker' = [worker EXCEPT !.pc = "observe", !.i = 1, !.seen = observed \cap Of(Current)]
  /\ UNCHANGED <<enabled, grant, row, claims, observed, ingest, purge, erased, crashes>>

(* createObservation, unless the list had it: checks, then insert.         *)
Observe ==
  /\ worker.pc = "observe"
  /\ W(IF <<Current, worker.i>> \in worker.seen THEN "claim"
       ELSE IF Accepts(Current) THEN "insert" ELSE "fail")
  /\ UNCHANGED <<enabled, grant, row, claims, observed, ingest, purge, erased, crashes>>

InsertObservation ==
  /\ worker.pc = "insert"
  /\ observed' = observed \cup {<<Current, worker.i>>}
  /\ W(IF <<Current, worker.i>> \in observed THEN "fail" ELSE "claim")
  /\ UNCHANGED <<enabled, grant, row, claims, ingest, purge, erased, crashes>>

(* createClaim: asks that the evidence and the grant exist, not that the   *)
(* grant is still granted.                                                 *)
CreateClaim ==
  /\ worker.pc = "claim"
  /\ IF <<Current, worker.i>> \in claims
     THEN W("fail") /\ UNCHANGED claims
     ELSE /\ claims' = claims \cup {<<Current, worker.i>>}
          /\ worker' = IF worker.i < Yield[Current]
                       THEN [worker EXCEPT !.pc = "observe", !.i = @ + 1]
                       ELSE [worker EXCEPT !.pc = "mark"]
  /\ UNCHANGED <<enabled, grant, row, observed, ingest, purge, erased, crashes>>

(* Faulty variant: a mark of any row.                                      *)
MarkFailedAnyway ==
  /\ worker.pc = "fail"
  /\ row' = [row EXCEPT ![Current].status = "failed"]
  /\ Next1
  /\ UNCHANGED <<enabled, grant, claims, observed, ingest, purge, erased, crashes>>

MarkDistilled ==
  /\ worker.pc = "mark"
  /\ Mark("distilled")
  /\ Next1
  /\ UNCHANGED <<enabled, grant, claims, observed, ingest, purge, erased, crashes>>

(* The catch block: whatever threw, the capture is marked failed. *)
MarkFailed ==
  /\ worker.pc = "fail"
  /\ Mark("failed")
  /\ Next1
  /\ UNCHANGED <<enabled, grant, claims, observed, ingest, purge, erased, crashes>>

(* A statement of the worker throws, or its process dies. *)
Throw ==
  /\ worker.pc \in {"known", "distil", "seen", "observe", "insert", "claim", "mark"}
  /\ crashes < MaxCrashes /\ crashes' = crashes + 1
  /\ W("fail") \/ worker' = BetweenCycles
  /\ UNCHANGED <<enabled, grant, row, claims, observed, ingest, purge, erased>>

-----------------------------------------------------------------------------
(* purgeEligibleCaptures: overdue rows that are not distilled are blocked, *)
(* then distilled ones are scrubbed; each half selects ids and updates     *)
(* them later under the same condition.                                    *)
Rows(status) == {c \in Capture : row[c].status \in status /\ row[c].overdue}

ByTheLimit(S) == {T \in SUBSET S : Cardinality(T) = BatchLimit \/ (T = S /\ Cardinality(S) < BatchLimit)}

SelectOverdue(p) ==
  /\ purge[p].pc = "idle"
  /\ p = "worker" => worker.pc = "purge"
  /\ \E T \in ByTheLimit(Rows({"pending", "failed"})) :
       purge' = [purge EXCEPT ![p] = [pc |-> "block", held |-> T]]
  /\ UNCHANGED <<enabled, grant, row, claims, observed, ingest, worker, erased, crashes>>

Block(p) ==
  /\ purge[p].pc = "block"
  /\ row' = [c \in Capture |-> IF c \in purge[p].held /\ row[c].status \in {"pending", "failed"}
                               THEN [row[c] EXCEPT !.status = "blocked"] ELSE row[c]]
  /\ purge' = [purge EXCEPT ![p] = [pc |-> "select", held |-> {}]]
  /\ UNCHANGED <<enabled, grant, claims, observed, ingest, worker, erased, crashes>>

SelectDistilled(p) ==
  /\ purge[p].pc = "select"
  /\ \E T \in ByTheLimit(Rows({"distilled"})) :
       purge' = [purge EXCEPT ![p] = [pc |-> "scrub", held |-> T]]
  /\ UNCHANGED <<enabled, grant, row, claims, observed, ingest, worker, erased, crashes>>

Scrub(p) ==
  /\ purge[p].pc = "scrub"
  /\ row' = [c \in Capture |-> IF c \in purge[p].held /\ row[c].status = "distilled"
                               THEN Scrubbed(row[c]) ELSE row[c]]
  /\ purge' = [purge EXCEPT ![p] = [pc |-> "idle", held |-> {}]]
  /\ worker' = IF p = "worker" THEN [worker EXCEPT !.pc = "idle"] ELSE worker
  /\ UNCHANGED <<enabled, grant, claims, observed, ingest, erased, crashes>>

WorkerStep ==
  \/ SelectCandidates \/ Load \/ LookForClaims \/ Distil \/ ListObservations \/ Observe
  \/ InsertObservation \/ CreateClaim \/ MarkDistilled \/ MarkFailed

CapturesNext ==
  \/ WorkerStep \/ Throw \/ Toggle
  \/ \E c \in Capture : CheckCapture(c) \/ InsertCapture(c) \/ RetentionEnds(c)
  \/ \E g \in Grant : DeleteSourceData(g)
  \/ \E p \in Purger : SelectOverdue(p) \/ Block(p) \/ SelectDistilled(p) \/ Scrub(p)

CapturesSpec == CapturesInit /\ [][CapturesNext]_capturesVars

-----------------------------------------------------------------------------
(* Properties *)

(* No raw copy is given up for nothing (proactive-profile-worker.ts:4-5):  *)
(* whenever the payload of an ingested capture is gone, or it counts as    *)
(* distilled, there is a memory of it, or the user erased its source.      *)
GoneIsRemembered ==
  \A c \in Capture :
    row[c].status = "distilled" \/ (row[c].status # "absent" /\ ~row[c].payload)
      => claims \cap Of(c) # {} \/ SourceOf[c] \in erased

(* Scrubbed is final: neither a cycle that loaded the capture before, nor  *)
(* its catch block, nor a second purge brings the row back into the        *)
(* pipeline.                                                               *)
ScrubbedIsFinal ==
  [][\A c \in Capture : row[c].status = "deleted" => row'[c] = row[c]]_capturesVars

(* "Physical deletion is allowed only when distillation is complete"       *)
(* (docs/reference/DATA_PRIVACY.md:80): what a purge scrubbed had all its  *)
(* memories recorded.                                                      *)
PurgedIsFullyDistilled ==
  \A c \in Capture : row[c].status = "deleted" /\ SourceOf[c] \notin erased => Of(c) \subseteq claims

(* In every state of the pipeline.                                         *)
CapturesInvariant == CapturesTypeOK /\ GoneIsRemembered
=============================================================================
