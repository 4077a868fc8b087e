------------------------- MODULE AttemptStoreProofs -------------------------
(***************************************************************************)
(* The safety of the attempt store for any number of executors, tokens and *)
(* events.  SingleWriter is not inductive by itself: it needs that no      *)
(* executor holds a token above the row's and that two executors never     *)
(* hold the same one.  CommitOrder needs that no committed event carries a *)
(* token above the row's.                                                  *)
(***************************************************************************)
EXTENDS AttemptStore, TLAPS

TokensBelow    == \A e \in Executor : held[e] <= fencing
TokensDistinct == \A e, f \in Executor : held[e] = held[f] /\ held[e] # 0 => e = f
EventsBelow    == \A i \in DOMAIN log : log[i].token <= fencing

StoreInv ==
  /\ StoreTypeOK
  /\ TokensBelow
  /\ TokensDistinct
  /\ EventsBelow
  /\ CommitOrder

-----------------------------------------------------------------------------
(* What Append does to a sequence, for the steps that commit an event. *)
LEMMA AppendFacts ==
  ASSUME NEW S, NEW s \in Seq(S), NEW x \in S
  PROVE  /\ Append(s, x) \in Seq(S)
         /\ DOMAIN s = 1..Len(s)
         /\ Len(s) \in Nat
         /\ DOMAIN Append(s, x) = 1..(Len(s) + 1)
         /\ \A i \in DOMAIN s : i \in DOMAIN Append(s, x) /\ Append(s, x)[i] = s[i]
         /\ Append(s, x)[Len(s) + 1] = x
         /\ \A i \in DOMAIN Append(s, x) : i \in DOMAIN s \/ i = Len(s) + 1
  OBVIOUS

(* A step that commits one event well below or at the current token keeps  *)
(* the facts about the log that do not mention the status.                 *)
LEMMA LogGrows ==
  ASSUME StoreTypeOK, EventsBelow, CommitOrder,
         NEW ev \in EventType, log' = Append(log, ev),
         ev.token = fencing \/ ev.token = 0, fencing' = fencing
  PROVE  log' \in Seq(EventType) /\ EventsBelow' /\ CommitOrder'
<1> USE DEF EventsBelow, CommitOrder
<1>1. log \in Seq(EventType) /\ fencing \in Nat /\ MaxToken \in Nat
  BY StoreAssumption DEF StoreTypeOK
<1>2. \A i \in DOMAIN log : log[i].token \in Nat
  <2> SUFFICES ASSUME NEW i \in DOMAIN log PROVE log[i].token \in Nat
    OBVIOUS
  <2>1. log[i] \in EventType
    BY <1>1
  <2> QED
    BY <2>1, <1>1 DEF EventType
<1>3. ev.token \in Nat
  BY <1>1
<1>4. /\ log' \in Seq(EventType)
      /\ DOMAIN log = 1..Len(log)
      /\ Len(log) \in Nat
      /\ DOMAIN log' = 1..(Len(log) + 1)
      /\ \A i \in DOMAIN log : i \in DOMAIN log' /\ log'[i] = log[i]
      /\ log'[Len(log) + 1] = ev
      /\ \A i \in DOMAIN log' : i \in DOMAIN log \/ i = Len(log) + 1
  BY <1>1, AppendFacts
<1>5. EventsBelow'
  BY <1>1, <1>2, <1>3, <1>4
<1>6. CommitOrder'
  <2> SUFFICES ASSUME NEW i \in DOMAIN log', NEW j \in DOMAIN log',
                      i < j, log'[i].token # 0, log'[j].token # 0
               PROVE  log'[i].token <= log'[j].token
    OBVIOUS
  <2>1. i \in DOMAIN log
    BY <1>4
  <2>2. CASE j \in DOMAIN log
    BY <2>1, <2>2, <1>4
  <2>3. CASE j = Len(log) + 1
    BY <2>1, <2>3, <1>1, <1>2, <1>4
  <2> QED
    BY <2>2, <2>3, <1>4
<1> QED
  BY <1>4, <1>5, <1>6

(* A step that leaves the log alone keeps CommitOrder. *)
LEMMA LogStays ==
  ASSUME CommitOrder, UNCHANGED log
  PROVE  CommitOrder'
  BY DEF CommitOrder

LEMMA StoreInitInv == StoreInit => StoreInv
  BY StoreAssumption
  DEF StoreInit, StoreInv, StoreTypeOK, TokensBelow, TokensDistinct, EventsBelow,
      CommitOrder, Active, Terminal

(* Claims: the new token is above every token in use. *)
LEMMA ClaimInv ==
  ASSUME StoreInv, NEW e \in Executor, NEW t, Claim(e, t), entry' \in {entry, "left"}
  PROVE  StoreInv'
<1> USE DEF Claim
<1>1. fencing \in Nat /\ MaxToken \in Nat
  BY StoreAssumption DEF StoreInv, StoreTypeOK
<1>2. StoreTypeOK'
  BY <1>1 DEF StoreInv, StoreTypeOK, Active
<1>3. \A f \in Executor : held[f] \in Nat /\ held[f] <= fencing
  BY <1>1 DEF StoreInv, StoreTypeOK, TokensBelow
<1>4. TokensBelow' /\ TokensDistinct'
  BY <1>1, <1>3 DEF StoreInv, StoreTypeOK, TokensBelow, TokensDistinct
<1>5. EventsBelow'
  <2> SUFFICES ASSUME NEW i \in DOMAIN log PROVE log[i].token <= fencing + 1
    BY DEF EventsBelow
  <2>1. log[i] \in EventType
    BY DEF StoreInv, StoreTypeOK
  <2>2. log[i].token \in Nat /\ log[i].token <= fencing
    BY <2>1, <1>1 DEF EventType, StoreInv, EventsBelow
  <2> QED
    BY <2>2, <1>1
<1>6. CommitOrder'
  BY LogStays DEF StoreInv
<1> QED
  BY <1>2, <1>4, <1>5, <1>6 DEF StoreInv

(* A statement that commits one event, under the row's token or under      *)
(* none, and possibly a status.                                            *)
LEMMA EventInv ==
  ASSUME StoreInv, NEW ev \in EventType, log' = Append(log, ev),
         ev.token = fencing \/ ev.token = 0,
         status' \in Active \cup Terminal, entry' \in {"created", "failing", "left"},
         UNCHANGED <<fencing, lease, leaseOwner, held>>
  PROVE  StoreInv'
<1>1. log' \in Seq(EventType) /\ EventsBelow' /\ CommitOrder'
  BY LogGrows DEF StoreInv
<1>2. StoreTypeOK' /\ TokensBelow' /\ TokensDistinct'
  BY <1>1 DEF StoreInv, StoreTypeOK, TokensBelow, TokensDistinct
<1> QED
  BY <1>1, <1>2 DEF StoreInv

(* The event a holder commits, and the one somebody without a token does.  *)
LEMMA FencedEvent ==
  ASSUME StoreInv, NEW e \in Executor, Mine(e), NEW s \in 1..MaxSeq,
         NEW k \in Kind \cup Terminal, NEW r \in Ref
  PROVE  /\ Event(s, k, r, held[e]) \in EventType
         /\ Event(s, k, r, held[e]).token = fencing /\ fencing # 0
         /\ Event(s, k, r, held[e]).kind = k
  BY DEF Mine, Event, EventType, StoreInv, StoreTypeOK

LEMMA SideEvent ==
  ASSUME StoreInv, NEW s \in 1..MaxSeq, NEW k \in Terminal \cup {"side"}
  PROVE  /\ Event(s, k, NoRef, 0) \in EventType
         /\ Event(s, k, NoRef, 0).token = 0
  BY StoreAssumption DEF Event, EventType

LEMMA HolderWritesInv ==
  ASSUME StoreInv, NEW e \in Executor, Mine(e), NEW s \in 1..MaxSeq,
         NEW k \in Kind \cup Terminal, NEW r \in Ref,
         log' = Append(log, Event(s, k, r, held[e])), status' \in Active \cup Terminal,
         UNCHANGED <<fencing, lease, leaseOwner, held, entry>>
  PROVE  StoreInv'
<1>1. Event(s, k, r, held[e]) \in EventType /\ Event(s, k, r, held[e]).token = fencing
  BY FencedEvent
<1>2. entry' \in {"created", "failing", "left"}
  BY DEF StoreInv, StoreTypeOK
<1> QED
  BY <1>1, <1>2, EventInv

LEMMA SideWritesInv ==
  ASSUME StoreInv, NEW s \in 1..MaxSeq, NEW k \in Terminal \cup {"side"},
         log' = Append(log, Event(s, k, NoRef, 0)), entry' \in {"created", "failing", "left"},
         UNCHANGED <<status, fencing, lease, leaseOwner, held>>
  PROVE  StoreInv'
<1>1. Event(s, k, NoRef, 0) \in EventType /\ Event(s, k, NoRef, 0).token = 0
  BY SideEvent
<1>2. status' \in Active \cup Terminal
  BY DEF StoreInv, StoreTypeOK
<1> QED
  BY <1>1, <1>2, EventInv

(* Steps that leave the log and the row's token alone, and no executor with *)
(* a token it did not have.                                                *)
LEMMA QuietInv ==
  ASSUME StoreInv, StoreTypeOK', UNCHANGED <<log, fencing>>,
         \A e \in Executor : held'[e] \in {held[e], 0}
  PROVE  StoreInv'
<1>1. fencing \in Nat /\ \A e \in Executor : held[e] \in Nat
  BY StoreAssumption DEF StoreInv, StoreTypeOK
<1>2. TokensBelow' /\ TokensDistinct'
  BY <1>1 DEF StoreInv, TokensBelow, TokensDistinct
<1>3. EventsBelow' /\ CommitOrder'
  BY LogStays DEF StoreInv, EventsBelow
<1> QED
  BY <1>2, <1>3 DEF StoreInv

(* Recovery leaves the holder's token behind. *)
LEMMA RecoverInv == StoreInv /\ RecoverExpired => StoreInv'
<1> SUFFICES ASSUME StoreInv, RecoverExpired PROVE StoreInv'
  OBVIOUS
<1> USE DEF RecoverExpired
<1>1. fencing \in Nat /\ MaxToken \in Nat /\ \A e \in Executor : held[e] \in Nat
  BY StoreAssumption DEF StoreInv, StoreTypeOK
<1>2. StoreTypeOK'
  BY <1>1 DEF StoreInv, StoreTypeOK, Terminal
<1>3. TokensBelow' /\ TokensDistinct'
  BY <1>1 DEF StoreInv, TokensBelow, TokensDistinct
<1>4. EventsBelow'
  <2> SUFFICES ASSUME NEW i \in DOMAIN log PROVE log[i].token <= fencing + 1
    BY DEF EventsBelow
  <2>1. log[i] \in EventType
    BY DEF StoreInv, StoreTypeOK
  <2>2. log[i].token \in Nat /\ log[i].token <= fencing
    BY <2>1, <1>1 DEF EventType, StoreInv, EventsBelow
  <2> QED
    BY <2>2, <1>1
<1>5. CommitOrder'
  BY LogStays DEF StoreInv
<1> QED
  BY <1>2, <1>3, <1>4, <1>5 DEF StoreInv

LEMMA StoreNextInv == StoreInv /\ [StoreNext]_storeVars => StoreInv'
<1> SUFFICES ASSUME StoreInv, [StoreNext]_storeVars PROVE StoreInv'
  OBVIOUS
<1>1. ASSUME NEW e \in Executor, ClaimFresh(e) PROVE StoreInv'
  BY <1>1, ClaimInv DEF ClaimFresh
<1>2. ASSUME NEW e \in Executor, NEW t \in 1..MaxToken, ClaimExpired(e, t) PROVE StoreInv'
  BY <1>2, ClaimInv DEF ClaimExpired
<1>3. ASSUME NEW e \in Executor, Renew(e) PROVE StoreInv'
  BY <1>3, QuietInv DEF Renew, StoreInv, StoreTypeOK
<1>4. ASSUME NEW e \in Executor, NEW s \in 1..MaxSeq, NEW k \in Kind, NEW r \in Ref,
             AppendFenced(e, s, k, r)
      PROVE  StoreInv'
  BY <1>4, HolderWritesInv DEF AppendFenced, Fenced
<1>5. ASSUME NEW e \in Executor, NEW s \in 1..MaxSeq, NEW o \in Terminal,
             Finalize(e, o, s) \/ AppendClosing(e, s, o)
      PROVE  StoreInv'
  <2>1. NoRef \in Ref /\ status \in Active \cup Terminal
    BY StoreAssumption DEF StoreInv, StoreTypeOK
  <2> QED
    BY <1>5, <2>1, HolderWritesInv DEF Finalize, AppendClosing, Fenced, MayAppend
<1>6. ASSUME NEW e \in Executor, Forget(e) PROVE StoreInv'
  <2>1. StoreTypeOK'
    BY <1>6, StoreAssumption DEF Forget, StoreInv, StoreTypeOK
  <2> QED
    BY <1>6, <2>1, QuietInv DEF Forget, StoreInv, StoreTypeOK
<1>7. ASSUME NEW e \in Executor, NEW o \in Terminal, SetStatus(e, o) PROVE StoreInv'
  BY <1>7, QuietInv DEF SetStatus, StoreInv, StoreTypeOK
<1>8. CASE RequestCancel
  BY <1>8, QuietInv DEF RequestCancel, StoreInv, StoreTypeOK, Active
<1>9. CASE RecoverExpired
  BY <1>9, RecoverInv
<1>10. CASE LeaseExpires
  BY <1>10, QuietInv DEF LeaseExpires, StoreInv, StoreTypeOK
<1>11. CASE FailEntryStatus
  <2>1. StoreTypeOK'
    BY <1>11 DEF FailEntryStatus, StoreInv, StoreTypeOK, Terminal
  <2> QED
    BY <1>11, <2>1, QuietInv DEF FailEntryStatus
<1>12. ASSUME NEW s \in 1..MaxSeq, SideAppend(s) PROVE StoreInv'
  BY <1>12, SideWritesInv DEF SideAppend, StoreInv, StoreTypeOK
<1>13. ASSUME NEW s \in 1..MaxSeq, FailEntry(s) PROVE StoreInv'
  <2>1. CASE log' = log
    BY <1>13, <2>1, QuietInv DEF FailEntry, StoreInv, StoreTypeOK
  <2>2. CASE log' = Append(log, Event(s, "Failed", NoRef, 0))
    BY <1>13, <2>2, SideWritesInv DEF FailEntry, Terminal
  <2> QED
    BY <1>13, <2>1, <2>2 DEF FailEntry
<1>14. CASE EntryLeaves
  BY <1>14, QuietInv DEF EntryLeaves, StoreInv, StoreTypeOK
<1>15. CASE UNCHANGED storeVars
  BY <1>15, QuietInv DEF storeVars, StoreInv, StoreTypeOK
<1> QED
  BY <1>1, <1>2, <1>3, <1>4, <1>5, <1>6, <1>7, <1>8, <1>9, <1>10, <1>11, <1>12, <1>13,
     <1>14, <1>15
  DEF StoreNext, AtomicNext, ExecutorOp, SplitEnding, OtherOp

-----------------------------------------------------------------------------
(* Endings, where each is one transaction (AtomicSpec): no closing event   *)
(* before the end, and then the one that tells it.                         *)
(* A fenced executor excludes that the attempt has already been closed. *)
LEMMA FencedNotClosed ==
  ASSUME ClosingEventFinal, NEW e \in Executor, Fenced(e)
  PROVE  \A i \in DOMAIN log : ~IsClosing(log[i])
  BY DEF ClosingEventFinal, Fenced, IsClosing, Active, Terminal

(* Steps that leave the log and the row's token alone and move the status  *)
(* at most where no closing event has been written.                        *)
LEMMA QuietEnd ==
  ASSUME EndingInvariant, UNCHANGED log,
         \/ UNCHANGED <<status, fencing>>
         \/ status \in Active /\ status' \in Active \cup {"Failed", "Interrupted"}
  PROVE  EndingInvariant'
  BY DEF EndingInvariant, ClosingEventFinal, EndingIsPublished, IsClosing, Active, Terminal

(* An insert without a token never counts as a closing event. *)
LEMMA SideEnd ==
  ASSUME StoreInv, EndingInvariant, NEW s \in 1..MaxSeq, NEW k \in Terminal \cup {"side"},
         log' = Append(log, Event(s, k, NoRef, 0)), UNCHANGED <<status, fencing>>
  PROVE  EndingInvariant'
<1> DEFINE ev == Event(s, k, NoRef, 0)
<1>1. ev \in EventType /\ ev.token = 0
  BY SideEvent
<1>2. /\ \A i \in DOMAIN log' : i \in DOMAIN log \/ log'[i].token = 0
      /\ \A i \in DOMAIN log : i \in DOMAIN log' /\ log'[i] = log[i]
  BY <1>1, AppendFacts DEF StoreInv, StoreTypeOK
<1>3. ClosingEventFinal'
  BY <1>2 DEF EndingInvariant, ClosingEventFinal, IsClosing
<1>4. EndingIsPublished'
  BY <1>2 DEF EndingInvariant, EndingIsPublished, IsClosing
<1> QED
  BY <1>3, <1>4 DEF EndingInvariant

LEMMA ProgressEnd ==
  ASSUME StoreInv, EndingInvariant, NEW e \in Executor, NEW s \in 1..MaxSeq, NEW k \in Kind, NEW r \in Ref,
         AppendFenced(e, s, k, r)
  PROVE  EndingInvariant'
<1> DEFINE ev == Event(s, k, r, held[e])
<1> USE DEF AppendFenced
<1>1. ev \in EventType /\ ev.kind = k
  BY FencedEvent DEF Fenced
<1>2. \A i \in DOMAIN log' : (i \in DOMAIN log /\ log'[i] = log[i]) \/ log'[i] = ev
  BY <1>1, AppendFacts DEF StoreInv, StoreTypeOK
<1>3. \A i \in DOMAIN log' : ~IsClosing(log'[i])
  BY <1>1, <1>2, FencedNotClosed, StoreAssumption DEF EndingInvariant, IsClosing
<1>4. ClosingEventFinal'
  BY <1>3 DEF ClosingEventFinal, IsClosing
<1>5. EndingIsPublished'
  BY DEF EndingIsPublished, Fenced, Active
<1> QED
  BY <1>4, <1>5 DEF EndingInvariant

(* The closing transaction: the only step that adds a closing event. *)
LEMMA FinalizeEnd ==
  ASSUME StoreInv, EndingInvariant, NEW e \in Executor, NEW o \in Terminal, NEW s \in 1..MaxSeq,
         Finalize(e, o, s)
  PROVE  EndingInvariant'
<1> DEFINE ev == Event(s, o, NoRef, held[e])
<1> USE DEF Finalize
<1>1. ev \in EventType /\ ev.token = fencing /\ ev.kind = o /\ ev.token # 0
  BY FencedEvent, StoreAssumption DEF Fenced
<1>2. /\ DOMAIN log = 1..Len(log) /\ Len(log) \in Nat
      /\ Len(log) + 1 \in DOMAIN log' /\ log'[Len(log) + 1] = ev
      /\ \A i \in DOMAIN log' : i \in DOMAIN log \/ i = Len(log) + 1
      /\ \A i \in DOMAIN log : log'[i] = log[i]
  BY <1>1, AppendFacts DEF StoreInv, StoreTypeOK
<1>3. \A i \in DOMAIN log : ~IsClosing(log'[i])
  BY <1>2, FencedNotClosed DEF EndingInvariant
<1>4. ClosingEventFinal'
  <2> SUFFICES ASSUME NEW i \in DOMAIN log', IsClosing(log'[i])
               PROVE  /\ status' = log'[i].kind
                      /\ log'[i].token = fencing'
                      /\ \A j \in DOMAIN log' : j > i => log'[j].token = 0
    BY DEF ClosingEventFinal, IsClosing
  <2>1. i = Len(log) + 1
    BY <1>2, <1>3
  <2> QED
    BY <2>1, <1>1, <1>2
<1>5. EndingIsPublished'
  BY <1>1, <1>2 DEF EndingIsPublished, IsClosing
<1> QED
  BY <1>4, <1>5 DEF EndingInvariant

LEMMA EndInitInv == StoreInit => EndingInvariant
  BY DEF StoreInit, EndingInvariant, ClosingEventFinal, EndingIsPublished

LEMMA EndNextInv == StoreInv /\ EndingInvariant /\ [AtomicNext]_storeVars => EndingInvariant'
<1> SUFFICES ASSUME StoreInv, EndingInvariant, [AtomicNext]_storeVars PROVE EndingInvariant'
  OBVIOUS
<1>1. ASSUME NEW e \in Executor, NEW t, Claim(e, t) PROVE EndingInvariant'
  BY <1>1, QuietEnd DEF Claim, Active
<1>2. ASSUME NEW e \in Executor, Renew(e) \/ Forget(e) PROVE EndingInvariant'
  BY <1>2, QuietEnd DEF Renew, Forget
<1>3. CASE RequestCancel \/ RecoverExpired \/ LeaseExpires \/ FailEntryStatus \/ EntryLeaves
  BY <1>3, QuietEnd
  DEF RequestCancel, RecoverExpired, LeaseExpires, FailEntryStatus, EntryLeaves, Active
<1>4. ASSUME NEW s \in 1..MaxSeq, SideAppend(s) PROVE EndingInvariant'
  BY <1>4, SideEnd DEF SideAppend
<1>5. ASSUME NEW s \in 1..MaxSeq, FailEntry(s) PROVE EndingInvariant'
  <2>1. CASE log' = log
    BY <1>5, <2>1, QuietEnd DEF FailEntry
  <2>2. CASE log' = Append(log, Event(s, "Failed", NoRef, 0))
    BY <1>5, <2>2, SideEnd DEF FailEntry, Terminal
  <2> QED
    BY <1>5, <2>1, <2>2 DEF FailEntry
<1>6. CASE UNCHANGED storeVars
  BY <1>6, QuietEnd DEF storeVars
<1>7. ASSUME NEW e \in Executor, ExecutorOp(e) PROVE EndingInvariant'
  <2>1. ASSUME NEW t, ClaimExpired(e, t) PROVE EndingInvariant'
    BY <2>1, <1>1 DEF ClaimExpired
  <2>2. ASSUME NEW s \in 1..MaxSeq, NEW k \in Kind, NEW r \in Ref, AppendFenced(e, s, k, r)
        PROVE  EndingInvariant'
    BY <2>2, ProgressEnd
  <2>3. ASSUME NEW s \in 1..MaxSeq, NEW o \in Terminal, Finalize(e, o, s) PROVE EndingInvariant'
    BY <2>3, FinalizeEnd
  <2>4. CASE ClaimFresh(e)
    BY <2>4, <1>1 DEF ClaimFresh
  <2> QED
    BY <1>2, <1>7, <2>1, <2>2, <2>3, <2>4 DEF ExecutorOp
<1>8. CASE OtherOp
  BY <1>3, <1>4, <1>5, <1>8 DEF OtherOp
<1> QED
  BY <1>6, <1>7, <1>8 DEF AtomicNext

-----------------------------------------------------------------------------
(* The inductive invariant holds in every reachable state. *)
THEOREM StoreInvariant == StoreSpec => []StoreInv
  BY StoreInitInv, StoreNextInv, PTL DEF StoreSpec

(* Type correctness of the attempt store. *)
THEOREM StoreTyped == StoreSpec => []StoreTypeOK
<1>1. StoreInv => StoreTypeOK
  BY DEF StoreInv
<1> QED
  BY <1>1, StoreInvariant, PTL

(* Fencing works for every number of executors and claims: never two that  *)
(* can commit.                                                             *)
THEOREM OneWriterAtATime == StoreSpec => []SingleWriter
<1>1. StoreInv => SingleWriter
  BY DEF StoreInv, TokensDistinct, SingleWriter, Fenced, Mine
<1> QED
  BY <1>1, StoreInvariant, PTL

(* Nothing a preempted executor produced lands behind its successor's      *)
(* events, however the writes interleave.                                  *)
THEOREM CommitsInTokenOrder == StoreSpec => []CommitOrder
<1>1. StoreInv => CommitOrder
  BY DEF StoreInv
<1> QED
  BY <1>1, StoreInvariant, PTL

(* Those who end an attempt in one transaction are among the callers.      *)
THEOREM AtomicIsStore == AtomicSpec => StoreSpec
<1>1. [AtomicNext]_storeVars => [StoreNext]_storeVars
  BY DEF StoreNext
<1> QED
  BY <1>1, PTL DEF AtomicSpec, StoreSpec

(* Where an attempt is ended in one transaction the stream tells its end:  *)
(* once, truly, as the last word of an executor, and never in silence.     *)
THEOREM EndingsAreTold == AtomicSpec => []EndingInvariant
<1>1. StoreInit => EndingInvariant
  BY EndInitInv
<1>2. StoreInv /\ EndingInvariant /\ [AtomicNext]_storeVars => EndingInvariant'
  BY EndNextInv
<1> QED
  BY <1>1, <1>2, AtomicIsStore, StoreInvariant, PTL DEF AtomicSpec

(* A finished attempt never changes status or token again. *)
THEOREM FinishedStaysFinished == StoreSpec => FinishedIsFinal
<1>1. [StoreNext]_storeVars
        => [(status \in Terminal) => (status' = status /\ fencing' = fencing)]_storeVars
  BY DEF StoreNext, AtomicNext, ExecutorOp, SplitEnding, OtherOp, ClaimFresh, ClaimExpired,
         Claim, Renew, AppendFenced, AppendClosing, SetStatus, Finalize, Forget, RequestCancel, RecoverExpired, LeaseExpires,
         FailEntryStatus, EntryLeaves, SideAppend, FailEntry, Fenced, Active, Terminal, storeVars
<1> QED
  BY <1>1, PTL DEF StoreSpec, FinishedIsFinal

(* After the end of an attempt no executor is heard but the last holder,   *)
(* and of it no more than a closing event.                                 *)
THEOREM FinishedStaysQuiet == StoreSpec => FinishedIsQuiet
<1>1. ASSUME StoreInv, StoreNext, status \in Terminal,
             NEW i \in DOMAIN log' \ DOMAIN log, log'[i].token # 0
      PROVE  IsClosing(log'[i]) /\ log'[i].token = fencing
  <2>1. ASSUME NEW ev \in EventType, log' = Append(log, ev) PROVE log'[i] = ev
    BY <1>1, <2>1, AppendFacts DEF StoreInv, StoreTypeOK
  <2>2. ASSUME NEW e \in Executor, NEW s \in 1..MaxSeq, NEW o \in Terminal, AppendClosing(e, s, o)
        PROVE  IsClosing(log'[i]) /\ log'[i].token = fencing
    <3>1. /\ Event(s, o, NoRef, held[e]) \in EventType
          /\ Event(s, o, NoRef, held[e]).token = fencing /\ fencing # 0
          /\ Event(s, o, NoRef, held[e]).kind = o
      BY <1>1, <2>2, FencedEvent, StoreAssumption DEF AppendClosing, MayAppend
    <3>2. log'[i] = Event(s, o, NoRef, held[e])
      BY <2>1, <2>2, <3>1 DEF AppendClosing
    <3> QED
      BY <3>1, <3>2 DEF IsClosing
  <2>3. ASSUME NEW s \in 1..MaxSeq, NEW k \in Terminal \cup {"side"},
               log' = Append(log, Event(s, k, NoRef, 0))
        PROVE  FALSE
    BY <1>1, <2>1, <2>3, SideEvent
  <2>4. log' # log
    BY <1>1
  <2> QED
    BY <1>1, <2>2, <2>3, <2>4
    DEF StoreNext, AtomicNext, ExecutorOp, SplitEnding, OtherOp, ClaimFresh, ClaimExpired, Claim,
        Renew, AppendFenced, SetStatus, Finalize, Forget, RequestCancel, RecoverExpired,
        LeaseExpires, FailEntryStatus, EntryLeaves, SideAppend, FailEntry, Fenced, Active, Terminal
<1>2. StoreInv /\ [StoreNext]_storeVars =>
        [(status \in Terminal) =>
           (\A i \in DOMAIN log' \ DOMAIN log :
              log'[i].token # 0 => (IsClosing(log'[i]) /\ log'[i].token = fencing))]_storeVars
  BY <1>1
<1> QED
  BY <1>2, StoreInvariant, PTL DEF StoreSpec, FinishedIsQuiet

(* No live lease is ever taken away. *)
THEOREM LiveLeaseIsSafe == StoreSpec => NoTheftOfLiveLease
<1>1. [StoreNext]_storeVars => [fencing' # fencing => lease # "live"]_storeVars
  BY DEF StoreNext, AtomicNext, ExecutorOp, SplitEnding, OtherOp, ClaimFresh, ClaimExpired,
         Claim, Renew, AppendFenced, AppendClosing, SetStatus, Finalize, Forget, RequestCancel, RecoverExpired, LeaseExpires,
         FailEntryStatus, EntryLeaves, SideAppend, FailEntry, storeVars
<1> QED
  BY <1>1, PTL DEF StoreSpec, NoTheftOfLiveLease
-----------------------------------------------------------------------------
(* The store implements the promise of AttemptLife.  LastToken does not    *)
(* move when no fenced event is committed, and it is the row's token once  *)
(* one is, because no event is above the row's token.                      *)
LEMMA TokenStays ==
  ASSUME StoreInv, NEW ev, ev.token = 0,
         ev \in EventType, log' = Append(log, ev)
  PROVE  LastToken' = LastToken
<1>1. /\ \A i \in DOMAIN log : i \in DOMAIN log' /\ log'[i] = log[i]
      /\ \A i \in DOMAIN log' : i \in DOMAIN log \/ log'[i] = ev
  BY AppendFacts DEF StoreInv, StoreTypeOK
<1>2. Tokens' = Tokens
  BY <1>1 DEF Tokens
<1> QED
  BY <1>2 DEF LastToken

LEMMA TokenIsRows ==
  ASSUME StoreInv, NEW ev, ev.token = fencing, fencing # 0,
         ev \in EventType, log' = Append(log, ev)
  PROVE  LastToken' = fencing
<1>1. fencing \in Nat /\ log \in Seq(EventType)
  BY StoreAssumption DEF StoreInv, StoreTypeOK
<1>2. /\ \A i \in DOMAIN log : i \in DOMAIN log' /\ log'[i] = log[i]
      /\ \A i \in DOMAIN log' : i \in DOMAIN log \/ log'[i] = ev
      /\ Len(log) + 1 \in DOMAIN log' /\ log'[Len(log) + 1] = ev
  BY <1>1, AppendFacts
<1>3. \A i \in DOMAIN log : log[i].token \in Nat /\ log[i].token <= fencing
  <2> SUFFICES ASSUME NEW i \in DOMAIN log
               PROVE  log[i].token \in Nat /\ log[i].token <= fencing
    OBVIOUS
  <2>1. log[i] \in EventType
    BY <1>1
  <2> QED
    BY <2>1, StoreAssumption DEF EventType, StoreInv, EventsBelow
<1>4. fencing \in Tokens' /\ \A u \in Tokens' : u \in Nat /\ u <= fencing
  BY <1>1, <1>2, <1>3 DEF Tokens
<1>5. \E t \in Tokens' \cup {0} : \A u \in Tokens' : u <= t
  BY <1>4
<1>6. LastToken' \in Tokens' \cup {0} /\ \A u \in Tokens' : u <= LastToken'
  BY <1>5 DEF LastToken
<1> QED
  BY <1>1, <1>4, <1>6

LEMMA LifeOfInit == StoreInit => Life!LifeInit
<1> SUFFICES ASSUME StoreInit PROVE Life!LifeInit
  OBVIOUS
<1>1. Tokens = {}
  BY DEF StoreInit, Tokens
<1>2. LastToken = 0
  BY <1>1 DEF LastToken
<1> QED
  BY <1>2 DEF StoreInit, Life!LifeInit

(* Every statement maps to a step of the promise or to none. *)
LEMMA LifeOfStep == StoreInv /\ [StoreNext]_storeVars => [Life!LifeNext]_Life!lifeVars
<1> SUFFICES ASSUME StoreInv, [StoreNext]_storeVars PROVE [Life!LifeNext]_Life!lifeVars
  OBVIOUS
<1> USE DEF Life!lifeVars, Life!LifeNext
<1>1. UNCHANGED log => UNCHANGED LastToken
  BY DEF LastToken, Tokens
<1>2. fencing \in Nat /\ \A e \in Executor : held[e] \in Nat
  BY StoreAssumption DEF StoreInv, StoreTypeOK
<1>3. ASSUME NEW e \in Executor, NEW t, Claim(e, t) PROVE Life!TakeOver
  BY <1>1, <1>3 DEF Claim, Life!TakeOver
<1>4. ASSUME NEW e \in Executor, NEW s \in 1..MaxSeq, NEW k \in Kind, NEW r \in Ref,
             AppendFenced(e, s, k, r)
      PROVE  Life!Speak
  <2> DEFINE ev == Event(s, k, r, held[e])
  <2>1. ev \in EventType /\ ev.token = fencing /\ fencing # 0
    BY <1>4, FencedEvent DEF AppendFenced, Fenced
  <2>2. LastToken' = fencing
    BY <1>4, <2>1, TokenIsRows DEF AppendFenced
  <2> QED
    BY <1>2, <1>4, <2>1, <2>2 DEF AppendFenced, Life!Speak
<1>5. ASSUME NEW e \in Executor, NEW s \in 1..MaxSeq, NEW o \in Terminal, Finalize(e, o, s)
      PROVE  Life!Settle
  <2> DEFINE ev == Event(s, o, NoRef, held[e])
  <2>1. ev \in EventType /\ ev.token = fencing /\ fencing # 0
    BY <1>5, FencedEvent, StoreAssumption DEF Finalize, Fenced
  <2>2. LastToken' = fencing
    BY <1>5, <2>1, TokenIsRows DEF Finalize
  <2> QED
    BY <1>5, <2>2 DEF Finalize, Fenced, Active, Terminal, Life!Settle, Life!Ended
<1>6. CASE RequestCancel
  BY <1>1, <1>6 DEF RequestCancel, Life!AskCancel
<1>7. CASE RecoverExpired
  BY <1>1, <1>7 DEF RecoverExpired, Life!Recover
<1>8. CASE FailEntryStatus
  BY <1>1, <1>8 DEF FailEntryStatus, Active, Life!Settle, Life!Ended
<1>9. ASSUME NEW s \in 1..MaxSeq, SideAppend(s) \/ FailEntry(s)
      PROVE  UNCHANGED Life!lifeVars
  <2>1. CASE log' = log
    BY <1>1, <1>9, <2>1 DEF SideAppend, FailEntry
  <2>2. ASSUME NEW k \in Terminal \cup {"side"}, log' = Append(log, Event(s, k, NoRef, 0))
        PROVE  LastToken' = LastToken
    <3>1. Event(s, k, NoRef, 0) \in EventType /\ Event(s, k, NoRef, 0).token = 0
      BY StoreAssumption DEF Event, EventType
    <3> QED
      BY <2>2, <3>1, TokenStays
  <2> QED
    BY <1>9, <2>1, <2>2 DEF SideAppend, FailEntry, Terminal
<1>10. ASSUME NEW e \in Executor, NEW s \in 1..MaxSeq, NEW o \in Terminal, AppendClosing(e, s, o)
       PROVE  Life!Speak
  <2> DEFINE ev == Event(s, o, NoRef, held[e])
  <2>1. ev \in EventType /\ ev.token = fencing /\ fencing # 0
    BY <1>10, FencedEvent, StoreAssumption DEF AppendClosing, MayAppend
  <2>2. LastToken' = fencing
    BY <1>10, <2>1, TokenIsRows DEF AppendClosing
  <2> QED
    BY <1>2, <1>10, <2>1, <2>2 DEF AppendClosing, Life!Speak
<1>11. ASSUME NEW e \in Executor, NEW o \in Terminal, SetStatus(e, o) PROVE Life!Settle
  BY <1>1, <1>11 DEF SetStatus, Fenced, Active, Terminal, Life!Settle, Life!Ended
<1> QED
  BY <1>1, <1>3, <1>4, <1>5, <1>6, <1>7, <1>8, <1>9, <1>10, <1>11
  DEF StoreNext, AtomicNext, ExecutorOp, SplitEnding, OtherOp, ClaimFresh, ClaimExpired, Renew, Forget, LeaseExpires,
      EntryLeaves, storeVars

(* Whoever issues statements on an attempt and in whatever order, the      *)
(* attempt lives the life its readers, the recovery worker and the hosts   *)
(* are promised.                                                           *)
THEOREM StoreKeepsThePromise == StoreSpec => ImplementsLife
  BY LifeOfInit, LifeOfStep, StoreInvariant, PTL DEF StoreSpec, ImplementsLife, Life!LifeSpec
=============================================================================
