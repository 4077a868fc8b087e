---------------------------- MODULE AttemptStore ----------------------------
(***************************************************************************)
(* The persistent side of one Turn: its row in turn_attempts and its       *)
(* rows in turn_stream_events, with the operations the conversation        *)
(* repository offers on them (packages/database/.../sqlite/                *)
(* conversation-repository.ts).  Each operation is one SQL statement or    *)
(* one BEGIN IMMEDIATE transaction, hence one action.                      *)
(*                                                                         *)
(* The callers are the most general ones: an executor may issue any        *)
(* operation at any moment, but only with the fencing token its last       *)
(* claim returned.  TurnExecution and AdapterTurn restrict them to the     *)
(* two programs that run a Turn.                                           *)
(***************************************************************************)
EXTENDS Naturals, Sequences

CONSTANTS
  Executor,   \* runs of executeTurn: the API's background loop, agent hosts
  NoOne,      \* lease_id of an attempt nobody has claimed
  Kind,       \* progress event types (message, delta, tool_request, ...)
  Ref,        \* what an event is about: an executionId, or nothing
  NoRef,      \* the reference of an event that is about no tool call
  MaxToken,   \* bound: largest fencing_token
  MaxSeq      \* bound: largest event sequence number

Active   == {"Running", "CancelRequested"}
Terminal == {"Completed", "Failed", "Interrupted", "Cancelled"}

ASSUME StoreAssumption ==
  /\ NoOne \notin Executor
  /\ NoRef \in Ref
  /\ MaxToken \in Nat
  /\ MaxSeq \in Nat
  /\ Kind \cap Terminal = {}
  /\ "side" \notin Kind \cup Terminal

VARIABLES
  status,      \* turn_attempts.status
  fencing,     \* turn_attempts.fencing_token
  lease,       \* lease_expires_at: NULL, in the future, or in the past
  leaseOwner,  \* the executor whose claim wrote lease_id
  log,         \* turn_stream_events, in the order they were committed
  held,        \* the token each executor got from its last claim, 0 if none
  entry        \* the API's background loop before its first claim

storeVars == <<status, fencing, lease, leaseOwner, log, held, entry>>

(* A row of turn_stream_events.  An event whose kind is a terminal status  *)
(* is a closing event: done with that status, or error for Failed.         *)
(* token = 0 marks an insert that was not checked against a claimed token. *)
EventType == [seq : 1..MaxSeq, kind : Kind \cup Terminal \cup {"side"},
              ref : Ref, token : 0..MaxToken]

StoreTypeOK ==
  /\ status \in Active \cup Terminal
  /\ fencing \in 0..MaxToken
  /\ lease \in {"none", "live", "expired"}
  /\ leaseOwner \in Executor \cup {NoOne}
  /\ log \in Seq(EventType)
  /\ held \in [Executor -> 0..MaxToken]
  /\ entry \in {"created", "failing", "left"}

(* createTurnAttempt: Running, token 0, no lease. *)
StoreInit ==
  /\ status = "Running"
  /\ fencing = 0
  /\ lease = "none"
  /\ leaseOwner = NoOne
  /\ log = <<>>
  /\ held = [e \in Executor |-> 0]
  /\ entry = "created"

-----------------------------------------------------------------------------
(* UNIQUE (turn_id, sequence); FreeAlways is the faulty schema without it. *)
FreeAlways(s) == s \in Nat
Free(s) == \A i \in DOMAIN log : log[i].seq # s

Event(s, k, r, t) == [seq |-> s, kind |-> k, ref |-> r, token |-> t]

(* Faulty variants, each a plausible slip in the definition that follows   *)
(* it; no action uses them.                                                *)
FencedByStatusOnly(e) == status \in Active /\ held[e] # 0
FencedByTokenOnly(e)  == held[e] = fencing /\ held[e] # 0

(* The caller's token is the one in the row. *)
Mine(e) == held[e] = fencing /\ held[e] # 0

(* The guard of every fenced write but one: the attempt is active as well. *)
Fenced(e) == status \in Active /\ Mine(e)

(* What appendStreamEvent demands of a caller with a token: the exception  *)
(* is terminalDoneOk, by which a done or error event is accepted on an     *)
(* attempt that is finished, too.                                          *)
MayAppend(e, k) ==
  Mine(e) /\ (status \in Active \/ (k \in Terminal /\ status \in Terminal))

ClaimIgnoringLease(e, expected) ==
  /\ status = "Running" /\ fencing = expected /\ fencing < MaxToken
  /\ fencing' = expected + 1 /\ lease' = "live" /\ leaseOwner' = e
  /\ held' = [held EXCEPT ![e] = expected + 1]
  /\ UNCHANGED <<status, log>>

(* claimTurnAttempt: Running, the expected token, no lease or an expired   *)
(* one; the token is incremented and a new lease is bound.                 *)
Claim(e, expected) ==
  /\ status = "Running"
  /\ fencing = expected
  /\ lease # "live"
  /\ fencing < MaxToken
  /\ fencing' = expected + 1
  /\ lease' = "live"
  /\ leaseOwner' = e
  /\ held' = [held EXCEPT ![e] = expected + 1]
  /\ UNCHANGED <<status, log>>

(* The first claim expects token 0 and is made once, by the API's loop;    *)
(* later claims are takeovers of an attempt whose lease was seen expired.  *)
ClaimFresh(e) == entry = "created" /\ entry' = "left" /\ Claim(e, 0)

ClaimExpired(e, expected) == expected > 0 /\ Claim(e, expected) /\ UNCHANGED entry

(* renewTurnAttemptLease matches lease id, token and Running; it does not  *)
(* look at the expiry, so an expired lease nobody took can be revived.     *)
CanRenew(e) == leaseOwner = e /\ held[e] = fencing /\ status = "Running"

Renew(e) ==
  /\ CanRenew(e)
  /\ lease' = "live"
  /\ UNCHANGED <<status, fencing, leaseOwner, log, held, entry>>

(* appendStreamEvent of a progress event with a token,                     *)
(* recordToolOutcomeAtomically and recordSafeSegmentAtomically: guard and  *)
(* insert in one transaction.                                              *)
AppendFenced(e, s, k, r) ==
  /\ Fenced(e)
  /\ Free(s)
  /\ log' = Append(log, Event(s, k, r, held[e]))
  /\ UNCHANGED <<status, fencing, lease, leaseOwner, held, entry>>

FinalizeWithoutEvent(e, outcome, s) ==
  /\ Fenced(e)
  /\ status' = outcome
  /\ UNCHANGED <<fencing, lease, leaseOwner, log, held, entry>>

(* appendStreamEvent of done or error with a token: the status is left as  *)
(* it is, whatever the event tells of it.                                  *)
AppendClosing(e, s, outcome) ==
  /\ MayAppend(e, outcome)
  /\ Free(s)
  /\ log' = Append(log, Event(s, outcome, NoRef, held[e]))
  /\ UNCHANGED <<status, fencing, lease, leaseOwner, held, entry>>

(* finalizeTurnAttempt with a token: the status alone. *)
SetStatus(e, outcome) ==
  /\ Fenced(e)
  /\ status' = outcome
  /\ UNCHANGED <<fencing, lease, leaseOwner, log, held, entry>>

(* finalizeAttemptWithEventAtomically: status CAS and closing event. *)
Finalize(e, outcome, s) ==
  /\ Fenced(e)
  /\ Free(s)
  /\ status' = outcome
  /\ log' = Append(log, Event(s, outcome, NoRef, held[e]))
  /\ UNCHANGED <<fencing, lease, leaseOwner, held, entry>>

(* requestCancelTurnAttempt, the statement on turn_attempts *)
RequestCancel ==
  /\ status = "Running"
  /\ status' = "CancelRequested"
  /\ UNCHANGED <<fencing, lease, leaseOwner, log, held, entry>>

RecoverWhateverStatus ==
  /\ lease = "expired" /\ fencing < MaxToken
  /\ status' = "Interrupted" /\ fencing' = fencing + 1
  /\ UNCHANGED <<lease, leaseOwner, log, held, entry>>

RecoverToUnknownStatus ==
  /\ status = "Running" /\ lease = "expired" /\ fencing < MaxToken
  /\ status' = "Expired" /\ fencing' = fencing + 1
  /\ UNCHANGED <<lease, leaseOwner, log, held, entry>>

(* recoverExpiredAttempts *)
RecoverExpired ==
  /\ status = "Running"
  /\ lease = "expired"
  /\ fencing < MaxToken
  /\ status' = "Interrupted"
  /\ fencing' = fencing + 1
  /\ UNCHANGED <<lease, leaseOwner, log, held, entry>>

(* appendStreamEvent without a token: user questions and answers, approval *)
(* decisions, extracted terms.  Only the unique index can refuse it.       *)
SideAppend(s) ==
  /\ Free(s)
  /\ log' = Append(log, Event(s, "side", NoRef, 0))
  /\ UNCHANGED <<status, fencing, lease, leaseOwner, held, entry>>

(* failTurnWithError, first half: the loop could not be set up; an error   *)
(* event is appended expecting token 0.  An error is accepted on an active *)
(* or a finished attempt; a refused insert is swallowed.                   *)
FailEntry(s) ==
  /\ entry = "created"
  /\ entry' = "failing"
  /\ log' = IF fencing = 0 /\ Free(s)
            THEN Append(log, Event(s, "Failed", NoRef, 0)) ELSE log
  /\ UNCHANGED <<status, fencing, lease, leaseOwner, held>>

(* failTurnWithError, second half: finalizeTurnAttempt without a token. *)
FailEntryStatus ==
  /\ entry = "failing"
  /\ entry' = "left"
  /\ status' = IF status \in Active THEN "Failed" ELSE status
  /\ UNCHANGED <<fencing, lease, leaseOwner, log, held>>

(* The API's loop never claims: its claim is refused because a cancel came *)
(* first (executeTurn returns skipped), or its process dies before it.     *)
EntryLeaves ==
  /\ entry # "left"
  /\ entry' = "left"
  /\ UNCHANGED <<status, fencing, lease, leaseOwner, log, held>>

(* Time passes the stored lease_expires_at. *)
LeaseExpires ==
  /\ lease = "live"
  /\ lease' = "expired"
  /\ UNCHANGED <<status, fencing, leaseOwner, log, held, entry>>

(* An executor's process dies and with it its copy of the token. *)
Forget(e) ==
  /\ held[e] # 0
  /\ held' = [held EXCEPT ![e] = 0]
  /\ UNCHANGED <<status, fencing, lease, leaseOwner, log, entry>>

-----------------------------------------------------------------------------
ExecutorOp(e) ==
  \/ ClaimFresh(e)
  \/ \E t \in 1..MaxToken : ClaimExpired(e, t)
  \/ Renew(e)
  \/ \E s \in 1..MaxSeq, k \in Kind, r \in Ref : AppendFenced(e, s, k, r)
  \/ \E s \in 1..MaxSeq, o \in Terminal : Finalize(e, o, s)
  \/ Forget(e)

(* An ending in two statements, in either order: runAdapterTurn.           *)
SplitEnding(e) ==
  \E o \in Terminal : SetStatus(e, o) \/ \E s \in 1..MaxSeq : AppendClosing(e, s, o)

OtherOp ==
  \/ RequestCancel
  \/ RecoverExpired
  \/ LeaseExpires
  \/ FailEntryStatus
  \/ EntryLeaves
  \/ \E s \in 1..MaxSeq : SideAppend(s) \/ FailEntry(s)

(* The statements of those who end an attempt in one transaction.          *)
AtomicNext == (\E e \in Executor : ExecutorOp(e)) \/ OtherOp

StoreNext == AtomicNext \/ \E e \in Executor : SplitEnding(e)

StoreSpec == StoreInit /\ [][StoreNext]_storeVars

(* The store as executeTurn uses it. *)
AtomicSpec == StoreInit /\ [][AtomicNext]_storeVars

-----------------------------------------------------------------------------
(* The promise it keeps: the token of the last fenced event says who spoke *)
(* last.                                                                   *)
Tokens == {log[i].token : i \in DOMAIN log} \ {0}
LastToken == CHOOSE t \in Tokens \cup {0} : \A u \in Tokens : u <= t

Life == INSTANCE AttemptLife WITH
          MaxEpoch <- MaxToken, phase <- status, epoch <- fencing, spoken <- LastToken

-----------------------------------------------------------------------------
(* Properties *)

(* An attempt's life (claim, cancel, recovery, endings): every statement   *)
(* of the repository, in any order and by any caller, is a step of the     *)
(* promise or invisible to it.                                             *)
ImplementsLife == Life!LifeSpec

(* Fencing tokens (claimTurnAttempt): however often an attempt is claimed, *)
(* taken over, recovered and its executors restarted, at most one executor *)
(* is able to commit, so the stream of a Turn has one author at a time.    *)
SingleWriter ==
  \A e, f \in Executor : Fenced(e) /\ Fenced(f) => e = f

(* Late writes (the transaction guards): in commit order the tokens of the *)
(* fenced events never go down, i.e. nothing a preempted executor produced *)
(* lands after an event of its successor.                                  *)
CommitOrder ==
  \A i, j \in DOMAIN log :
    i < j /\ log[i].token # 0 /\ log[j].token # 0 => log[i].token <= log[j].token

IsClosing(ev) == ev.kind \in Terminal /\ ev.token # 0

(* The stream after the end (terminalDoneOk): once an attempt is finished, *)
(* whoever finished it, no executor commits anything to its stream but the *)
(* last holder a done or error event that was still on its way.            *)
FinishedIsQuiet ==
  [][(status \in Terminal) =>
       (\A i \in DOMAIN log' \ DOMAIN log :
          log'[i].token # 0 => (IsClosing(log'[i]) /\ log'[i].token = fencing))]_storeVars

(* One ending: a closing event states the status the attempt really has,   *)
(* it was written under the final token and no fenced event follows it --  *)
(* so there is at most one.                                                *)
ClosingEventFinal ==
  \A i \in DOMAIN log : IsClosing(log[i]) =>
    /\ status = log[i].kind
    /\ log[i].token = fencing
    /\ \A j \in DOMAIN log : j > i => log[j].token = 0

(* No silent ending: an attempt is Completed or Cancelled only together    *)
(* with the event that tells the client so.                                *)
EndingIsPublished ==
  status \in {"Completed", "Cancelled"} =>
    \E i \in DOMAIN log : IsClosing(log[i]) /\ log[i].kind = status

(* What finalizeAttemptWithEventAtomically is for: the stream of a Turn    *)
(* that executeTurn runs ends once, truly and never in silence, although   *)
(* it may be taken over, cancelled or recovered at any moment.  It holds   *)
(* of AtomicSpec; an adapter's Turn, which ends in two statements, keeps   *)
(* less (AdapterTurn).                                                     *)
EndingInvariant == ClosingEventFinal /\ EndingIsPublished

(* A finished attempt stays as it finished: neither the recovery worker,   *)
(* nor a late cancel, nor a stale executor reopens or re-labels it, and    *)
(* its token is frozen.                                                    *)
FinishedIsFinal ==
  [][(status \in Terminal) => (status' = status /\ fencing' = fencing)]_storeVars

(* Ownership changes hands only through an expired lease: the token moves  *)
(* past a claimed one only when that claim's lease has run out.            *)
NoTheftOfLiveLease ==
  [][fencing' # fencing => lease # "live"]_storeVars
=============================================================================
