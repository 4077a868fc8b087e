---------------------------- MODULE Intelligence ----------------------------
(***************************************************************************)
(* runProactiveIntelligenceCycle (apps/worker/src/proactive-intelligence-  *)
(* worker.ts) for one profile on one day, over the rows it derives from    *)
(* the profile: the queue of claim conflicts, action verifications,        *)
(* trigger events with their notifications, and the daily review.  It is   *)
(* called again and again; what a call has read may change before it       *)
(* writes, and it may die at every await.                                  *)
(***************************************************************************)
EXTENDS Naturals, FiniteSets

CONSTANTS
  Claim,       \* claims on one subject that say different things
  Commitment,  \* commitments due within a day
  Action,
  MaxCycleCrashes,   \* bound: crashes of the worker
  MaxEdits     \* bound: changes by the user

ASSUME IntelligenceAssumption ==
  IsFiniteSet(Claim) /\ MaxCycleCrashes \in Nat /\ MaxEdits \in Nat

VARIABLES
  claims,      \* updated_at of each, 0 for those rejected
  conflict,    \* the row of each ordered pair of claims
  commitment,  \* the open ones
  action,      \* the state of each action
  verdict,     \* its verification
  events,      \* trigger events of the day
  notified,    \* notifications of each type
  disabled,    \* the user disabled the rule commitment_due
  review,      \* the daily review is there
  cycle,       \* the worker: next await and what it has read
  cycleCrashes, edits

intelligenceVars ==
  <<claims, conflict, commitment, action, verdict, events, notified, disabled, review, cycle, cycleCrashes, edits>>

Trigger == {"commitment_due", "other"}
Pair == Claim \X Claim
NoCycle == [pc |-> "idle", pairs |-> {}, action |-> [a \in Action |-> "none"],
            due |-> {}, other |-> FALSE, known |-> {}, firing |-> "none"]

IntelligenceTypeOK ==
  /\ claims \in [Claim -> Nat]
  /\ conflict \in [Pair -> {"none", "open", "resolved"}]
  /\ commitment \subseteq Commitment
  /\ action \in [Action -> {"none", "executed", "failed"}]
  /\ verdict \in [Action -> {"none", "verified", "failed"}]
  /\ events \subseteq Trigger /\ notified \in [Trigger -> Nat]
  /\ disabled \in BOOLEAN /\ review \in BOOLEAN
  /\ cycle \in [pc : {"idle", "conflicts", "verify", "rules", "known", "fire", "notify"},
                pairs : SUBSET Pair, action : [Action -> {"none", "executed", "failed"}],
                due : SUBSET Commitment, other : BOOLEAN, known : SUBSET Trigger,
                firing : Trigger \cup {"none"}]
  /\ cycleCrashes \in 0..MaxCycleCrashes /\ edits \in 0..MaxEdits

IntelligenceInit ==
  /\ claims \in {u \in [Claim -> 1..Cardinality(Claim)] : \A c, d \in Claim : u[c] = u[d] => c = d}
  /\ conflict = [p \in Pair |-> "none"]
  /\ commitment = Commitment
  /\ action = [a \in Action |-> "none"] /\ verdict = [a \in Action |-> "none"]
  /\ events = {} /\ notified = [t \in Trigger |-> 0]
  /\ disabled = FALSE /\ review = FALSE
  /\ cycle = NoCycle /\ cycleCrashes = 0 /\ edits = 0

Goto(pc) == cycle' = [cycle EXCEPT !.pc = pc]
user     == <<claims, commitment, action, disabled, edits>>
outcomes == <<events, notified, review, cycleCrashes>>

-----------------------------------------------------------------------------
(* One call of the worker. *)

(* listActions and listClaims, the one updated last in front, so that the  *)
(* pairs are those of a later and an earlier claim; then the timeline,     *)
(* projects and workflows made from them, which have rows of their own.    *)
ReadProfileRows ==
  /\ cycle.pc = "idle"
  /\ cycle' = [NoCycle EXCEPT !.pc = "conflicts", !.action = action,
                              !.pairs = {p \in Pair : claims[p[1]] > claims[p[2]] /\ claims[p[2]] > 0}]
  /\ UNCHANGED <<user, conflict, verdict, outcomes>>

(* createClaimConflict for every pair in the order of the list: an         *)
(* existing row is left as it is.  The faulty form writes it anew, as the  *)
(* upserts of this repository do.                                          *)
InsertConflictAnew(p) == conflict' = [conflict EXCEPT ![p] = "open"]
InsertConflict(p) == conflict' = [conflict EXCEPT ![p] = IF @ = "none" THEN "open" ELSE @]

CompareClaims(p) ==
  /\ cycle.pc = "conflicts" /\ p \in cycle.pairs
  /\ InsertConflict(p)
  /\ cycle' = [cycle EXCEPT !.pairs = @ \ {p}]
  /\ UNCHANGED <<user, verdict, outcomes>>

AllCompared ==
  /\ cycle.pc = "conflicts" /\ cycle.pairs = {} /\ Goto("verify")
  /\ UNCHANGED <<user, conflict, verdict, outcomes>>

(* Every finished action that has no verification gets one, by the state   *)
(* it had when the call began; then the commitments are read.              *)
VerifyAction(a) ==
  /\ cycle.pc = "verify" /\ cycle.action[a] # "none" /\ verdict[a] = "none"
  /\ verdict' = [verdict EXCEPT ![a] = IF cycle.action[a] = "executed" THEN "verified" ELSE "failed"]
  /\ UNCHANGED <<user, conflict, cycle, outcomes>>

ReadCommitments ==
  /\ cycle.pc = "verify" /\ \A a \in Action : cycle.action[a] # "none" => verdict[a] # "none"
  /\ \E o \in BOOLEAN : cycle' = [cycle EXCEPT !.pc = "rules", !.due = commitment, !.other = o]
  /\ UNCHANGED <<user, conflict, verdict, outcomes>>

(* The built-in rules are written in full, enabled. *)
WriteRules ==
  /\ cycle.pc = "rules" /\ disabled' = FALSE /\ Goto("known")
  /\ UNCHANGED <<claims, commitment, action, edits, conflict, verdict, outcomes>>

(* The trigger events of the day, listed once before the loop.             *)
Known == events

ListTriggerEvents ==
  /\ cycle.pc = "known"
  /\ cycle' = [cycle EXCEPT !.pc = "fire", !.known = Known]
  /\ UNCHANGED <<user, conflict, verdict, outcomes>>

(* One candidate for each due commitment, at most one of another type; all *)
(* of one type and day have one id, so the second insert throws and the    *)
(* call is over.  RecordAgain is the form without such an id.              *)
Candidate(t) == IF t = "other" THEN cycle.other ELSE cycle.due # {}

DropCandidate(t) ==
  IF t = "other" THEN [cycle EXCEPT !.other = FALSE]
  ELSE [cycle EXCEPT !.due = cycle.due \ {CHOOSE c \in cycle.due : TRUE}]

InOrder(t) == t = "other" => cycle.due = {}

SkipTrigger(t) ==
  /\ cycle.pc = "fire" /\ Candidate(t) /\ InOrder(t) /\ t \in cycle.known
  /\ cycle' = DropCandidate(t)
  /\ UNCHANGED <<user, conflict, verdict, outcomes>>

RecordAgain(t) ==
  /\ cycle.pc = "fire" /\ Candidate(t) /\ InOrder(t) /\ t \notin cycle.known
  /\ events' = events \cup {t}
  /\ cycle' = [DropCandidate(t) EXCEPT !.pc = "notify", !.firing = t]
  /\ UNCHANGED <<user, conflict, verdict, notified, review, cycleCrashes>>

RecordTrigger(t) ==
  /\ cycle.pc = "fire" /\ Candidate(t) /\ InOrder(t) /\ t \notin cycle.known
  /\ IF t \in events THEN cycle' = NoCycle /\ UNCHANGED events
     ELSE /\ events' = events \cup {t}
          /\ cycle' = [DropCandidate(t) EXCEPT !.pc = "notify", !.firing = t]
  /\ UNCHANGED <<user, conflict, verdict, notified, review, cycleCrashes>>

(* createNotification; a failure is swallowed. *)
Notify ==
  /\ cycle.pc = "notify"
  /\ \E ok \in BOOLEAN :
       notified' = IF ok THEN [notified EXCEPT ![cycle.firing] = @ + 1] ELSE notified
  /\ cycle' = [cycle EXCEPT !.pc = "fire", !.firing = "none"]
  /\ UNCHANGED <<user, conflict, verdict, events, review, cycleCrashes>>

(* upsertReview, then the end of the call. *)
WriteReview ==
  /\ cycle.pc = "fire" /\ \A t \in Trigger : ~Candidate(t)
  /\ review' = TRUE /\ cycle' = NoCycle
  /\ UNCHANGED <<user, conflict, verdict, events, notified, cycleCrashes>>

IntelligenceCrash ==
  /\ cycle.pc # "idle" /\ cycleCrashes < MaxCycleCrashes
  /\ cycleCrashes' = cycleCrashes + 1 /\ cycle' = NoCycle
  /\ UNCHANGED <<user, conflict, verdict, events, notified, review>>

CycleStep ==
  \/ ReadProfileRows \/ AllCompared \/ \E p \in Pair : CompareClaims(p)
  \/ \E a \in Action : VerifyAction(a)
  \/ ReadCommitments \/ WriteRules \/ ListTriggerEvents
  \/ \E t \in Trigger : SkipTrigger(t) \/ RecordTrigger(t)
  \/ Notify \/ WriteReview

-----------------------------------------------------------------------------
(* The user, through the routes. *)
Edit == edits < MaxEdits /\ edits' = edits + 1

(* updateClaimState: the claim is updated last, so it comes first in the   *)
(* list from now on, or it is rejected.                                    *)
UpdateClaim(c, rejected) ==
  /\ Edit
  /\ claims' = [claims EXCEPT ![c] = IF rejected THEN 0 ELSE Cardinality(Claim) + edits + 1]
  /\ UNCHANGED <<conflict, commitment, action, verdict, disabled, cycle, outcomes>>

ResolveConflict(p) ==
  /\ conflict[p] # "none" /\ Edit
  /\ conflict' = [conflict EXCEPT ![p] = "resolved"]
  /\ UNCHANGED <<claims, commitment, action, verdict, disabled, cycle, outcomes>>

CloseCommitment(c) ==
  /\ c \in commitment /\ Edit
  /\ commitment' = commitment \ {c}
  /\ UNCHANGED <<claims, conflict, action, verdict, disabled, cycle, outcomes>>

DisableRule ==
  /\ Edit /\ disabled' = TRUE
  /\ UNCHANGED <<claims, conflict, commitment, action, verdict, cycle, outcomes>>

FinishAction(a, s) ==
  /\ action[a] = "none" /\ action' = [action EXCEPT ![a] = s]
  /\ UNCHANGED <<claims, conflict, commitment, verdict, disabled, cycle, edits, outcomes>>

UserEdits ==
  \/ \E c \in Claim, r \in BOOLEAN : UpdateClaim(c, r)
  \/ \E p \in Pair : ResolveConflict(p)
  \/ \E c \in Commitment : CloseCommitment(c)
  \/ DisableRule
  \/ \E a \in Action, s \in {"executed", "failed"} : FinishAction(a, s)

IntelligenceNext == CycleStep \/ IntelligenceCrash \/ UserEdits

IntelligenceFairness == WF_intelligenceVars(CycleStep)

IntelligenceSpec == IntelligenceInit /\ [][IntelligenceNext]_intelligenceVars /\ IntelligenceFairness

-----------------------------------------------------------------------------
(* Properties *)

(* Nobody is told twice on a day (proactive-intelligence-worker.ts:283):   *)
(* with several commitments due, repeated calls and crashes between the    *)
(* trigger event and its notification.                                     *)
NotifiedOnce == \A t \in Trigger : notified[t] <= (IF t \in events THEN 1 ELSE 0)

(* What the user settled is not asked again                                *)
(* (proactive-intelligence-repository.ts:502): the row of two claims in    *)
(* one order keeps its resolution however often and late the worker finds  *)
(* the two in that order again. (Another order, or a claim extracted anew, *)
(* has a row of its own: 491-500 look the row up by both ids.)             *)
ResolutionIsKept ==
  [][\A p \in Pair : conflict[p] = "resolved" => conflict'[p] = "resolved"]_intelligenceVars

(* The review of the day is written (proactive-intelligence-worker.ts:303) *)
(* although a call dies of the second commitment that is due on a day.     *)
ReviewComes == <>review

(* In every state of a profile's day.                                      *)
IntelligenceInvariant == IntelligenceTypeOK /\ NotifiedOnce
=============================================================================
