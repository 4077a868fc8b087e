---------------------------- MODULE RecordsProofs ----------------------------
(***************************************************************************)
(* What is kept about the user, what a tool may do in his name, and what a *)
(* user who studies is told, asked and shown (StudyIsTrue).  The parts     *)
(* share no state; each has an inductive invariant of its own.             *)
(***************************************************************************)
EXTENDS MCRecords, FiniteSetTheorems, TLAPS

-----------------------------------------------------------------------------
(* The captures.  That a payload is gone only for a memory is not          *)
(* inductive by itself: it has to be known that a row without a payload is *)
(* a scrubbed one, that the worker marks a capture only when it has a      *)
(* memory of it, and that a row is inserted where none was.                *)
Remembered(c) == claims \cap Of(c) # {} \/ SourceOf[c] \in erased

RowIsFounded(c) ==
  /\ row[c].payload <=> Kept(c)
  /\ row[c].status \in {"distilled", "deleted"} => Remembered(c)
  /\ ingest[c] = "checked" => row[c].status = "absent"

WorkerIsFounded ==
  /\ worker.pc \notin {"idle", "purge"} => worker.hand \in Capture
  /\ worker.pc = "mark" => Remembered(worker.hand)
  /\ worker.pc \in {"observe", "insert", "claim"} => worker.i \in 1..Yield[worker.hand]

CapturesInv == CapturesInvariant /\ (\A c \in Capture : RowIsFounded(c)) /\ WorkerIsFounded

RowParts == row \in [Capture -> RowType] /\ \A c \in Capture : RowIsFounded(c)

WorkerParts ==
  /\ worker \in [pc : {"idle", "load", "known", "distil", "seen", "observe", "insert", "claim", "mark", "fail", "purge"},
                 hand : Capture \cup {"none"}, todo : SUBSET Capture, i : Nat, seen : SUBSET Memory]
  /\ WorkerIsFounded

OtherParts ==
  /\ enabled \in BOOLEAN
  /\ grant \in [Grant -> {"granted", "revoked"}]
  /\ claims \subseteq Memory /\ observed \subseteq Memory
  /\ ingest \in [Capture -> {"none", "checked", "done"}]
  /\ purge \in [Purger -> [pc : {"idle", "block", "select", "scrub"}, held : SUBSET Capture]]
  /\ erased \subseteq Grant /\ crashes \in 0..MaxCrashes

LEMMA CapturesInParts ==
  /\ CapturesInv <=> RowParts /\ WorkerParts /\ OtherParts
  /\ CapturesInv' <=> RowParts' /\ WorkerParts' /\ OtherParts'
BY DEF CapturesInv, CapturesInvariant, CapturesTypeOK, GoneIsRemembered, RowParts, WorkerParts, OtherParts,
       RowIsFounded, Remembered, Kept

(* Memories are lost only with their source. *)
Recalls == \A c \in Capture : Remembered(c) => Remembered(c)'

LEMMA MemoriesAreKept ==
  ASSUME claims \subseteq claims', erased \subseteq erased'
  PROVE  Recalls
BY DEF Recalls, Remembered

(* A step that leaves rows and ingest alone. *)
LEMMA RowsAreKept ==
  ASSUME RowParts, Recalls, UNCHANGED <<row, ingest>>
  PROVE  RowParts' /\ \A c \in Capture : row[c].status = "deleted" => row'[c] = row[c]
BY DEF RowParts, RowIsFounded, Recalls, Kept

(* A step that changes the status of one capture that has its row, or its  *)
(* clock.                                                                  *)
LEMMA StatusChanges ==
  ASSUME RowParts, Recalls, ingest' = ingest, NEW c \in Capture, Kept(c),
         NEW s \in {"pending", "failed", "blocked", "distilled"},
         s = "distilled" => Remembered(c), row' = [row EXCEPT ![c].status = s],
         row[c].status # "deleted"
  PROVE  RowParts' /\ \A d \in Capture : row[d].status = "deleted" => row'[d] = row[d]
<1>1. row' \in [Capture -> RowType]
  BY DEF RowParts, RowType
<1>2. row'[c].status = s /\ row'[c].payload = row[c].payload
  BY DEF RowParts, RowType
<1>3. \A d \in Capture : d # c => row'[d] = row[d]
  BY DEF RowParts
<1> QED
  BY <1>1, <1>2, <1>3 DEF RowParts, RowIsFounded, Recalls, Kept

LEMMA ClockRunsOut ==
  ASSUME RowParts, Recalls, ingest' = ingest, NEW c \in Capture, Kept(c),
         row' = [row EXCEPT ![c].overdue = TRUE]
  PROVE  RowParts' /\ \A d \in Capture : row[d].status = "deleted" => row'[d] = row[d]
<1>1. row' \in [Capture -> RowType]
  BY DEF RowParts, RowType
<1>2. row'[c].status = row[c].status /\ row'[c].payload = row[c].payload
  BY DEF RowParts, RowType
<1>3. \A d \in Capture : d # c => row'[d] = row[d]
  BY DEF RowParts
<1> QED
  BY <1>1, <1>2, <1>3 DEF RowParts, RowIsFounded, Recalls, Kept

LEMMA WorkerIsKept ==
  ASSUME WorkerParts, Recalls, UNCHANGED worker PROVE WorkerParts'
BY DEF WorkerParts, WorkerIsFounded, Recalls

LEMMA WorkerGoes ==
  ASSUME WorkerParts, Recalls, worker.pc \notin {"idle", "purge"},
         NEW pc \in {"known", "distil", "seen", "insert", "claim", "mark", "fail"}, W(pc),
         pc = "mark" => Remembered(worker.hand),
         pc \in {"insert", "claim"} => worker.pc \in {"observe", "insert"}
  PROVE  WorkerParts'
<1>1. /\ worker'.pc = pc /\ worker'.hand = worker.hand /\ worker'.i = worker.i
      /\ worker' \in [pc : {"idle", "load", "known", "distil", "seen", "observe", "insert", "claim", "mark", "fail", "purge"},
                      hand : Capture \cup {"none"}, todo : SUBSET Capture, i : Nat, seen : SUBSET Memory]
  BY DEF WorkerParts, W
<1> QED
  BY <1>1 DEF WorkerParts, WorkerIsFounded, Recalls

LEMMA WorkerRests == ASSUME worker' = BetweenCycles PROVE WorkerParts'
BY DEF BetweenCycles, WorkerParts, WorkerIsFounded

LEMMA WorkerTakes == ASSUME NEW rest \in SUBSET Capture, TakeFrom(rest) PROVE WorkerParts'
<1>1. CASE rest = {} /\ worker' = [pc |-> "purge", hand |-> "none", todo |-> {}, i |-> 0, seen |-> {}]
  BY <1>1 DEF WorkerParts, WorkerIsFounded
<1>2. CASE rest # {} \/ worker' # [pc |-> "purge", hand |-> "none", todo |-> {}, i |-> 0, seen |-> {}]
  <2>1. PICK c \in rest : worker' = [pc |-> "load", hand |-> c, todo |-> rest \ {c}, i |-> 0, seen |-> {}]
    BY <1>2 DEF TakeFrom
  <2> QED
    BY <2>1 DEF WorkerParts, WorkerIsFounded
<1> QED
  BY <1>1, <1>2

-----------------------------------------------------------------------------
LEMMA CapturesInitInv == CapturesInit => CapturesInv
<1> SUFFICES ASSUME CapturesInit PROVE CapturesInv
  OBVIOUS
<1>1. RowParts
  BY DEF CapturesInit, RowParts, RowType, RowIsFounded, Kept
<1>2. WorkerParts
  BY DEF CapturesInit, WorkerParts, WorkerIsFounded, BetweenCycles
<1>3. OtherParts
  BY CapturesAssumption DEF CapturesInit, OtherParts
<1> QED
  BY <1>1, <1>2, <1>3, CapturesInParts

(* What a step leaves of a scrubbed row: everything. *)
Final == \A c \in Capture : row[c].status = "deleted" => row'[c] = row[c]

Holds == RowParts' /\ WorkerParts' /\ OtherParts' /\ Final

(* The ingest, the clock and the user. *)
LEMMA IngestStep ==
  ASSUME RowParts, WorkerParts, OtherParts, NEW c \in Capture,
         CheckCapture(c) \/ InsertCapture(c) \/ RetentionEnds(c)
  PROVE  Holds
<1>1. Recalls /\ WorkerParts'
  BY MemoriesAreKept, WorkerIsKept DEF CheckCapture, InsertCapture, RetentionEnds
<1>2. OtherParts'
  BY DEF OtherParts, CheckCapture, InsertCapture, RetentionEnds
<1>3. CASE CheckCapture(c)
  BY <1>1, <1>2, <1>3 DEF Holds, Final, RowParts, RowIsFounded, Recalls, Kept, CheckCapture
<1>4. CASE InsertCapture(c)
  <2>1. row' \in [Capture -> RowType]
    BY <1>4, ZenonT(60) DEF RowParts, RowType, InsertCapture
  <2>2. row'[c].status = "pending" /\ row'[c].payload = TRUE
    BY <1>4 DEF RowParts, RowType, InsertCapture
  <2>3. \A d \in Capture : d # c => row'[d] = row[d]
    BY <1>4 DEF RowParts, InsertCapture
  <2>4. row[c].status = "absent" /\ ingest'[c] = "done" /\ \A d \in Capture : d # c => ingest'[d] = ingest[d]
    BY <1>4 DEF RowParts, RowIsFounded, OtherParts, InsertCapture
  <2> QED
    BY <1>1, <1>2, <2>1, <2>2, <2>3, <2>4 DEF Holds, Final, RowParts, RowIsFounded, Recalls, Kept
<1>5. CASE RetentionEnds(c)
  BY <1>1, <1>2, <1>5, ClockRunsOut DEF Holds, Final, RetentionEnds
<1> QED
  BY <1>3, <1>4, <1>5

LEMMA ToggleStep ==
  ASSUME RowParts, WorkerParts, OtherParts, Toggle PROVE Holds
<1>1. Recalls /\ WorkerParts'
  BY MemoriesAreKept, WorkerIsKept DEF Toggle
<1>2. RowParts' /\ Final
  BY <1>1, RowsAreKept DEF Toggle, Final
<1>3. enabled' \in BOOLEAN
  BY DEF Toggle, OtherParts
<1>4. OtherParts'
  BY <1>3 DEF OtherParts, Toggle
<1> QED
  BY <1>1, <1>2, <1>4 DEF Holds

LEMMA DeleteStep ==
  ASSUME RowParts, WorkerParts, OtherParts, NEW g \in Grant, DeleteSourceData(g) PROVE Holds
<1>1. Recalls /\ WorkerParts'
  <2>1. \A c \in Capture : SourceOf[c] # g => claims' \cap Of(c) = claims \cap Of(c)
    BY DEF DeleteSourceData, Of
  <2>2. Recalls
    BY <2>1 DEF DeleteSourceData, Recalls, Remembered
  <2> QED
    BY <2>2, WorkerIsKept DEF DeleteSourceData
<1>2. OtherParts'
  BY DEF OtherParts, DeleteSourceData
<1>3. \A c \in Capture :
        /\ Scrubbed(row[c]) \in RowType
        /\ Scrubbed(row[c]).status = "deleted" /\ Scrubbed(row[c]).payload = FALSE
  BY DEF RowParts, RowType, Scrubbed
<1>4. row' \in [Capture -> RowType]
  BY <1>3 DEF RowParts, DeleteSourceData
<1>5. ASSUME NEW c \in Capture PROVE RowIsFounded(c)' /\ (row[c].status = "deleted" => row'[c] = row[c])
  <2>1. CASE SourceOf[c] = g /\ Kept(c)
    BY <1>3, <2>1 DEF DeleteSourceData, RowParts, RowIsFounded, Kept, Remembered
  <2>2. CASE ~(SourceOf[c] = g /\ Kept(c))
    BY <1>1, <2>2 DEF DeleteSourceData, RowParts, RowIsFounded, Kept, Recalls
  <2> QED
    BY <2>1, <2>2
<1> QED
  BY <1>1, <1>2, <1>4, <1>5 DEF Holds, RowParts, Final

(* The worker's steps that touch no row and no memory. *)
LEMMA LookStep ==
  ASSUME RowParts, WorkerParts, OtherParts,
         SelectCandidates \/ Load \/ LookForClaims \/ Distil \/ ListObservations \/ Observe
  PROVE  Holds
<1>1. Recalls /\ UNCHANGED <<row, ingest>> /\ OtherParts'
  BY MemoriesAreKept
  DEF OtherParts, SelectCandidates, Load, LookForClaims, Distil, ListObservations, Observe
<1>2. RowParts' /\ Final
  BY <1>1, RowsAreKept DEF Final
<1>3. CASE SelectCandidates
  <2>1. \A S \in SUBSET Capture : TakeFrom(S) => WorkerParts'
    BY WorkerTakes
  <2> QED
    BY <1>1, <1>2, <1>3, <2>1 DEF SelectCandidates, Holds
<1>4. CASE Load
  <2>1. worker.todo \in SUBSET Capture
    BY DEF WorkerParts
  <2>2. CASE Next1
    BY <1>1, <1>2, <2>1, <2>2, WorkerTakes DEF Next1, Holds
  <2>3. CASE W("known")
    BY <1>1, <1>2, <1>4, <2>3, WorkerGoes DEF Load, Holds
  <2> QED
    BY <1>4, <2>2, <2>3 DEF Load
<1>5. CASE LookForClaims
  <2>1. claims \cap Of(worker.hand) # {} => Remembered(worker.hand)
    BY DEF Remembered
  <2>2. (W("mark") /\ claims \cap Of(worker.hand) # {}) \/ W("distil")
    BY <1>5 DEF LookForClaims, Current
  <2> QED
    BY <1>1, <1>2, <1>5, <2>1, <2>2, WorkerGoes DEF LookForClaims, Holds
<1>6. CASE Distil
  BY <1>1, <1>2, <1>6, WorkerGoes DEF Distil, Holds
<1>7. CASE ListObservations
  <2>1. /\ worker'.pc = "observe" /\ worker'.hand = worker.hand /\ worker'.i = 1
        /\ worker' \in [pc : {"idle", "load", "known", "distil", "seen", "observe", "insert", "claim", "mark", "fail", "purge"},
                        hand : Capture \cup {"none"}, todo : SUBSET Capture, i : Nat, seen : SUBSET Memory]
    BY <1>7 DEF ListObservations, WorkerParts, OtherParts
  <2>2. worker.hand \in Capture /\ 1 \in 1..Yield[worker.hand]
    BY <1>7, CapturesAssumption DEF ListObservations, WorkerParts, WorkerIsFounded
  <2> QED
    BY <1>1, <1>2, <2>1, <2>2 DEF Holds, WorkerParts, WorkerIsFounded
<1>8. CASE Observe
  <2>1. W("claim") \/ W("insert") \/ W("fail")
    BY <1>8 DEF Observe
  <2> QED
    BY <1>1, <1>2, <1>8, <2>1, WorkerGoes DEF Observe, Holds
<1> QED
  BY <1>3, <1>4, <1>5, <1>6, <1>7, <1>8

(* The steps that make a memory. *)
LEMMA MemoryStep ==
  ASSUME RowParts, WorkerParts, OtherParts, InsertObservation \/ CreateClaim PROVE Holds
<1>1. worker.hand \in Capture /\ worker.i \in 1..Yield[worker.hand]
  BY DEF InsertObservation, CreateClaim, WorkerParts, WorkerIsFounded
<1>2. <<worker.hand, worker.i>> \in Memory /\ <<worker.hand, worker.i>> \in Of(worker.hand)
  BY <1>1 DEF Memory, Of
<1>3. Recalls /\ UNCHANGED <<row, ingest>>
  BY MemoriesAreKept DEF InsertObservation, CreateClaim
<1>4. RowParts' /\ Final
  BY <1>3, RowsAreKept DEF Final
<1>5. OtherParts'
  BY <1>2 DEF OtherParts, InsertObservation, CreateClaim, Current
<1>6. CASE InsertObservation
  <2>1. W("fail") \/ W("claim")
    BY <1>6 DEF InsertObservation
  <2> QED
    BY <1>3, <1>4, <1>5, <1>6, <2>1, WorkerGoes DEF InsertObservation, Holds
<1>7. CASE CreateClaim
  <2>1. CASE W("fail")
    BY <1>3, <1>4, <1>5, <1>7, <2>1, WorkerGoes DEF CreateClaim, Holds
  <2>2. CASE ~W("fail")
    <3>1. Remembered(worker.hand)'
      <4>1. <<worker.hand, worker.i>> \in claims' /\ worker'.hand = worker.hand
        BY <1>7, <2>2 DEF CreateClaim, Current, WorkerParts
      <4> QED
        BY <1>2, <4>1 DEF Remembered, Of
    <3>2. CASE worker.i < Yield[worker.hand]
      <4>0. worker.i + 1 \in Nat
        BY <1>1, CapturesAssumption
      <4>1. worker' = [worker EXCEPT !.pc = "observe", !.i = worker.i + 1]
        BY <1>7, <2>2, <3>2 DEF CreateClaim, Current
      <4>2. /\ worker'.pc = "observe" /\ worker'.hand = worker.hand /\ worker'.i = worker.i + 1
            /\ worker' \in [pc : {"idle", "load", "known", "distil", "seen", "observe", "insert", "claim", "mark", "fail", "purge"},
                            hand : Capture \cup {"none"}, todo : SUBSET Capture, i : Nat, seen : SUBSET Memory]
        BY <4>0, <4>1 DEF WorkerParts
      <4>3. worker.i + 1 \in 1..Yield[worker.hand]
        BY <1>1, <3>2, CapturesAssumption
      <4> QED
        BY <1>1, <1>4, <1>5, <4>2, <4>3 DEF Holds, WorkerParts, WorkerIsFounded
    <3>3. CASE ~(worker.i < Yield[worker.hand])
      <4>1. worker' = [worker EXCEPT !.pc = "mark"]
        BY <1>7, <2>2, <3>3 DEF CreateClaim, Current
      <4>2. /\ worker'.pc = "mark" /\ worker'.hand = worker.hand
            /\ worker' \in [pc : {"idle", "load", "known", "distil", "seen", "observe", "insert", "claim", "mark", "fail", "purge"},
                            hand : Capture \cup {"none"}, todo : SUBSET Capture, i : Nat, seen : SUBSET Memory]
        BY <4>1 DEF WorkerParts
      <4> QED
        BY <1>1, <1>4, <1>5, <3>1, <4>2 DEF Holds, WorkerParts, WorkerIsFounded
    <3> QED
      BY <3>2, <3>3
  <2> QED
    BY <2>1, <2>2
<1> QED
  BY <1>6, <1>7

(* The marks at the end of a capture, and what cuts a cycle short. *)
LEMMA MarkStep ==
  ASSUME RowParts, WorkerParts, OtherParts, MarkDistilled \/ MarkFailed PROVE Holds
<1>1. worker.hand \in Capture /\ worker.todo \in SUBSET Capture
  BY DEF WorkerParts, WorkerIsFounded, MarkDistilled, MarkFailed
<1>2. Recalls /\ UNCHANGED <<enabled, grant, claims, observed, ingest, purge, erased, crashes>>
  BY MemoriesAreKept DEF MarkDistilled, MarkFailed
<1>3. OtherParts' /\ WorkerParts'
  BY <1>1, <1>2, WorkerTakes DEF OtherParts, MarkDistilled, MarkFailed, Next1
<1>4. CASE row' = row
  BY <1>2, <1>3, <1>4, RowsAreKept DEF Holds, Final
<1>5. CASE row' # row
  <2>1. PICK s \in {"distilled", "failed"} :
          /\ row' = [row EXCEPT ![worker.hand].status = s]
          /\ s = "distilled" => Remembered(worker.hand)
    BY <1>5 DEF MarkDistilled, MarkFailed, Mark, Current, WorkerParts, WorkerIsFounded
  <2>2. Kept(worker.hand) /\ row[worker.hand].status # "deleted"
    BY <1>5 DEF MarkDistilled, MarkFailed, Mark, Current, Kept
  <2> QED
    BY <1>1, <1>2, <1>3, <2>1, <2>2, StatusChanges DEF Holds, Final
<1> QED
  BY <1>4, <1>5

LEMMA ThrowStep ==
  ASSUME RowParts, WorkerParts, OtherParts, Throw PROVE Holds
<1>1. Recalls /\ UNCHANGED <<row, ingest>>
  BY MemoriesAreKept DEF Throw
<1>2. RowParts' /\ Final
  BY <1>1, RowsAreKept DEF Final
<1>3. OtherParts'
  BY CapturesAssumption DEF OtherParts, Throw
<1>4. WorkerParts'
  BY <1>1, WorkerGoes, WorkerRests DEF Throw
<1> QED
  BY <1>2, <1>3, <1>4 DEF Holds

(* The purge. *)
LEMMA PurgeStep ==
  ASSUME RowParts, WorkerParts, OtherParts, NEW p \in Purger,
         SelectOverdue(p) \/ Block(p) \/ SelectDistilled(p) \/ Scrub(p)
  PROVE  Holds
<1>1. Recalls /\ ingest' = ingest
  BY MemoriesAreKept DEF SelectOverdue, Block, SelectDistilled, Scrub
<1>2. \A s : Rows(s) \subseteq Capture
  BY DEF Rows
<1>3. purge' \in [Purger -> [pc : {"idle", "block", "select", "scrub"}, held : SUBSET Capture]]
  <2>1. CASE SelectOverdue(p)
    BY <2>1 DEF SelectOverdue, ByTheLimit, Rows, OtherParts
  <2>2. CASE SelectDistilled(p)
    BY <2>2 DEF SelectDistilled, ByTheLimit, Rows, OtherParts
  <2>3. CASE Block(p) \/ Scrub(p)
    BY <2>3 DEF Block, Scrub, OtherParts
  <2> QED
    BY <2>1, <2>2, <2>3
<1>4. OtherParts'
  BY <1>3 DEF OtherParts, SelectOverdue, Block, SelectDistilled, Scrub
<1>5. WorkerParts'
  <2>1. CASE worker' = worker
    BY <1>1, <2>1, WorkerIsKept
  <2>2. CASE worker' = [worker EXCEPT !.pc = "idle"]
    BY <2>2 DEF WorkerParts, WorkerIsFounded
  <2> QED
    BY <2>1, <2>2 DEF SelectOverdue, Block, SelectDistilled, Scrub
<1>6. CASE row' = row
  BY <1>1, <1>4, <1>5, <1>6, RowsAreKept DEF Holds, Final
<1>7. CASE Block(p)
  <2>1. \A c \in Capture :
          LET r == [row[c] EXCEPT !.status = "blocked"]
          IN r \in RowType /\ r.status = "blocked" /\ r.payload = row[c].payload
    BY DEF RowParts, RowType
  <2>2. row' \in [Capture -> RowType]
    BY <1>7, <2>1 DEF Block, RowParts
  <2>3. ASSUME NEW c \in Capture PROVE RowIsFounded(c)' /\ (row[c].status = "deleted" => row'[c] = row[c])
    <3>1. CASE c \in purge[p].held /\ row[c].status \in {"pending", "failed"}
      BY <1>1, <1>7, <2>1, <3>1 DEF Block, RowParts, RowIsFounded, Kept
    <3>2. CASE ~(c \in purge[p].held /\ row[c].status \in {"pending", "failed"})
      BY <1>1, <1>7, <3>2 DEF Block, RowParts, RowIsFounded, Kept, Recalls
    <3> QED
      BY <3>1, <3>2
  <2> QED
    BY <1>4, <1>5, <2>2, <2>3 DEF Holds, RowParts, Final
<1>8. CASE Scrub(p)
  <2>1. \A c \in Capture :
          /\ Scrubbed(row[c]) \in RowType
          /\ Scrubbed(row[c]).status = "deleted" /\ Scrubbed(row[c]).payload = FALSE
    BY DEF RowParts, RowType, Scrubbed
  <2>2. row' \in [Capture -> RowType]
    BY <1>8, <2>1 DEF Scrub, RowParts
  <2>3. ASSUME NEW c \in Capture PROVE RowIsFounded(c)' /\ (row[c].status = "deleted" => row'[c] = row[c])
    <3>1. CASE c \in purge[p].held /\ row[c].status = "distilled"
      BY <1>1, <1>8, <2>1, <3>1 DEF Scrub, RowParts, RowIsFounded, Kept, Recalls
    <3>2. CASE ~(c \in purge[p].held /\ row[c].status = "distilled")
      BY <1>1, <1>8, <3>2 DEF Scrub, RowParts, RowIsFounded, Kept, Recalls
    <3> QED
      BY <3>1, <3>2
  <2> QED
    BY <1>4, <1>5, <2>2, <2>3 DEF Holds, RowParts, Final
<1> QED
  BY <1>6, <1>7, <1>8 DEF SelectOverdue, SelectDistilled

LEMMA CapturesStep == CapturesInv /\ [CapturesNext]_capturesVars => CapturesInv' /\ Final
<1> SUFFICES ASSUME CapturesInv, [CapturesNext]_capturesVars PROVE CapturesInv' /\ Final
  OBVIOUS
<1>1. RowParts /\ WorkerParts /\ OtherParts
  BY CapturesInParts
<1>2. CASE WorkerStep
  BY <1>1, <1>2, LookStep, MemoryStep, MarkStep, CapturesInParts DEF WorkerStep, Holds
<1>3. CASE Throw \/ Toggle
  BY <1>1, <1>3, ThrowStep, ToggleStep, CapturesInParts DEF Holds
<1>4. CASE \E c \in Capture : CheckCapture(c) \/ InsertCapture(c) \/ RetentionEnds(c)
  BY <1>1, <1>4, IngestStep, CapturesInParts DEF Holds
<1>5. CASE \E g \in Grant : DeleteSourceData(g)
  BY <1>1, <1>5, DeleteStep, CapturesInParts DEF Holds
<1>6. CASE \E p \in Purger : SelectOverdue(p) \/ Block(p) \/ SelectDistilled(p) \/ Scrub(p)
  BY <1>1, <1>6, PurgeStep, CapturesInParts DEF Holds
<1>7. CASE UNCHANGED capturesVars
  <2>1. Recalls /\ OtherParts'
    BY <1>1, <1>7, MemoriesAreKept DEF capturesVars, OtherParts
  <2>2. RowParts' /\ WorkerParts' /\ Final
    BY <1>1, <1>7, <2>1, RowsAreKept, WorkerIsKept DEF capturesVars, Final
  <2> QED
    BY <2>1, <2>2, CapturesInParts
<1> QED
  BY <1>2, <1>3, <1>4, <1>5, <1>6, <1>7 DEF CapturesNext

(* No raw copy is given up for nothing (proactive-profile-worker.ts):      *)
(* whatever the user, the worker, the purges and their deaths do, for any  *)
(* captures, grants and limits.                                            *)
THEOREM GoneIsAlwaysRemembered == CapturesSpec => []CapturesInvariant
<1>1. CapturesInv => CapturesInvariant
  BY DEF CapturesInv
<1> QED
  BY <1>1, CapturesInitInv, CapturesStep, PTL DEF CapturesSpec

(* A scrubbed row stays as it is (proactive-profile-repository.ts).        *)
THEOREM ScrubbedStays == CapturesSpec => ScrubbedIsFinal
<1>1. CapturesInv /\ [CapturesNext]_capturesVars =>
        [\A c \in Capture : row[c].status = "deleted" => row'[c] = row[c]]_capturesVars
  BY CapturesStep DEF Final
<1> QED
  BY <1>1, CapturesInitInv, CapturesStep, PTL DEF CapturesSpec, ScrubbedIsFinal

-----------------------------------------------------------------------------
(* The approvals.  What lets a call run is carried from step to step: what *)
(* it is based on, the action that was opened for it, the row it is about  *)
(* to decide.                                                              *)
RowFounded(r) ==
  /\ rows[r].state = "granted" /\ rows[r].by = "user" => granted
  /\ rows[r].by = "none" => rows[r].state = "pending"

BasisFounded(c) ==
  /\ call[c].basis = "user" => granted /\ action[c] = "none"
  /\ call[c].basis = "full_access" => Mode[c] = "full_access" /\ ~tool.privileged /\ action[c] = "none"
  /\ call[c].basis = "proactive" => Mode[c] = "full_access" /\ action[c] \notin {"none", "pending"}

PlaceFounded(c) ==
  /\ call[c].pc \in {"find", "profile", "lease", "limited", "action"} => action[c] = "none" /\ call[c].basis = "none"
  /\ call[c].pc \in {"profile", "lease", "limited", "action"} => Mode[c] = "full_access"
  /\ call[c].pc \in {"run", "decide"} => call[c].basis # "none"
  /\ call[c].pc = "decide" => call[c].row \in DOMAIN rows
  /\ call[c].pc \in {"update", "write"} =>
       /\ Mode[c] = "full_access" /\ action[c] # "none"
       /\ call[c].to \in {"approved", "running", "executed", "failed"}
       /\ call[c].to # "approved" => call[c].basis = "proactive"
  /\ call[c].pc = "left" => action[c] \in {"none"} \cup ActionEnd

CallFounded(c) ==
  /\ BasisFounded(c) /\ PlaceFounded(c)
  /\ meddler[c] # "none" => action[c] # "none"
  /\ c \in ran => granted \/ (Mode[c] = "full_access" /\ (tool.privileged => action[c] # "none"))

ApprovalsInv ==
  /\ ApprovalsTypeOK
  /\ \A r \in DOMAIN rows : RowFounded(r)
  /\ \A c \in Call : CallFounded(c)

LEMMA ApprovalsInvImplies == ApprovalsInv => ApprovalsInvariant
BY DEF ApprovalsInv, ApprovalsInvariant, ApprovalsTypeOK, EffectIsAuthorized, LedgerIsClosed, CallFounded, PlaceFounded

LEMMA ApprovalsInitInv == ApprovalsInit => ApprovalsInv
<1> SUFFICES ASSUME ApprovalsInit PROVE ApprovalsInv
  OBVIOUS
<1>1. /\ rows \in Seq([state : {"pending", "granted", "denied"}, by : {"none", "user", "proactive", "full_access"}])
      /\ Len(rows) <= MaxRows /\ shown \subseteq DOMAIN rows /\ changes \in 0..MaxChanges
  BY ApprovalsAssumption DEF ApprovalsInit
<1>2. call \in [Call -> CallType]
  BY ApprovalsAssumption DEF ApprovalsInit, CallType
<1>3. /\ action \in [Call -> ActionState \cup {"none"}] /\ meddler \in [Call -> {"none", "denied", "revoked"}]
      /\ setter \in [to : Desired \cup {"none"}, status : {"active", "revoked"}]
      /\ ran \subseteq Call /\ granted \in BOOLEAN
  BY DEF ApprovalsInit
<1>4. tool \in [enabled : BOOLEAN, privileged : BOOLEAN]
  BY DEF ApprovalsInit
<1>5. profile \in [desired : Desired, status : {"active", "revoked"}, grants : BOOLEAN,
                  lease : {"active", "overdue", "expired", "ended"}, fit : BOOLEAN]
  BY DEF ApprovalsInit, Desired
<1> QED
  BY <1>1, <1>2, <1>3, <1>4, <1>5 DEF ApprovalsInit, ApprovalsInv, ApprovalsTypeOK, CallFounded, BasisFounded, PlaceFounded

(* What the permissions of the others rest on is not taken away. *)
Stands ==
  /\ granted => granted'
  /\ tool.privileged' = tool.privileged
  /\ DOMAIN rows \subseteq DOMAIN rows'

LEMMA CallStays ==
  ASSUME Stands, NEW c \in Call, CallFounded(c), call'[c] = call[c], action'[c] = action[c],
         meddler'[c] # "none" => meddler[c] # "none", c \in ran' => c \in ran
  PROVE  CallFounded(c)'
BY DEF Stands, CallFounded, BasisFounded, PlaceFounded

(* Another record for one call. *)
CallPc == {"find", "profile", "lease", "limited", "action", "update", "write", "record", "insert", "decide",
           "run", "asked", "left", "thrown"}
CallBasis == {"none", "user", "proactive", "full_access"}

OnlyCall(c) == call' \in [Call -> CallType] /\ \A d \in Call : d # c => call'[d] = call[d]

LEMMA PlaceChanges ==
  ASSUME call \in [Call -> CallType], NEW c \in Call, NEW pc \in CallPc,
         call' = [call EXCEPT ![c].pc = pc]
  PROVE  OnlyCall(c) /\ call'[c].pc = pc /\ call'[c].row = call[c].row /\ call'[c].to = call[c].to /\ call'[c].basis = call[c].basis
BY DEF OnlyCall, CallType, CallPc, CallBasis

LEMMA TargetChanges ==
  ASSUME call \in [Call -> CallType], NEW c \in Call, NEW to \in ActionState \cup {"none"},
         call' = [call EXCEPT ![c].to = to]
  PROVE  OnlyCall(c) /\ call'[c].pc = call[c].pc /\ call'[c].row = call[c].row /\ call'[c].to = to /\ call'[c].basis = call[c].basis
BY DEF OnlyCall, CallType, CallPc, CallBasis

LEMMA PlaceAndBasisChange ==
  ASSUME call \in [Call -> CallType], NEW c \in Call, NEW pc \in CallPc,
         NEW b \in CallBasis,
         call' = [call EXCEPT ![c] = [@ EXCEPT !.pc = pc, !.basis = b]]
  PROVE  OnlyCall(c) /\ call'[c].pc = pc /\ call'[c].row = call[c].row /\ call'[c].to = call[c].to /\ call'[c].basis = b
BY ZenonT(60) DEF OnlyCall, CallType, CallPc, CallBasis

LEMMA PlaceAndTargetChange ==
  ASSUME call \in [Call -> CallType], NEW c \in Call, NEW pc \in CallPc,
         NEW to \in ActionState \cup {"none"},
         call' = [call EXCEPT ![c] = [@ EXCEPT !.pc = pc, !.to = to]]
  PROVE  OnlyCall(c) /\ call'[c].pc = pc /\ call'[c].row = call[c].row /\ call'[c].to = to /\ call'[c].basis = call[c].basis
BY ZenonT(60) DEF OnlyCall, CallType, CallPc, CallBasis

LEMMA PlaceAndRowChange ==
  ASSUME call \in [Call -> CallType], NEW c \in Call, NEW pc \in CallPc,
         NEW r \in 0..MaxRows,
         call' = [call EXCEPT ![c] = [@ EXCEPT !.pc = pc, !.row = r]]
  PROVE  OnlyCall(c) /\ call'[c].pc = pc /\ call'[c].row = r /\ call'[c].to = call[c].to /\ call'[c].basis = call[c].basis
BY ZenonT(60) DEF OnlyCall, CallType, CallPc, CallBasis

(* A step of one call that opens no action and writes none. *)
LEMMA CallMoves ==
  ASSUME ApprovalsInv, NEW c \in Call, UNCHANGED <<tool, rows, granted, action, meddler>>,
         OnlyCall(c), ran' \subseteq ran \cup {c},
         shown' \subseteq DOMAIN rows,
         BasisFounded(c)', PlaceFounded(c)',
         c \in ran' => c \in ran \/ call[c].basis # "none",
         profile' \in [desired : Desired, status : {"active", "revoked"}, grants : BOOLEAN,
                       lease : {"active", "overdue", "expired", "ended"}, fit : BOOLEAN],
         UNCHANGED <<setter, changes>>
  PROVE  ApprovalsInv'
<1>1. ApprovalsTypeOK'
  <2>1. ran' \subseteq Call /\ call' \in [Call -> CallType] /\ DOMAIN rows' = DOMAIN rows
    BY DEF ApprovalsInv, ApprovalsTypeOK, OnlyCall
  <2> QED
    BY <2>1 DEF ApprovalsInv, ApprovalsTypeOK
<1>2. Stands
  BY DEF Stands
<1>3. ASSUME NEW d \in Call, d # c PROVE CallFounded(d)'
  <2>1. call'[d] = call[d]
    BY <1>3 DEF OnlyCall
  <2> QED
    BY <1>2, <1>3, <2>1, CallStays DEF ApprovalsInv
<1>4. CallFounded(c)'
  <2>1. meddler'[c] # "none" => action'[c] # "none"
    BY DEF ApprovalsInv, CallFounded
  <2>2. c \in ran' => granted' \/ (Mode[c] = "full_access" /\ (tool'.privileged => action'[c] # "none"))
    BY DEF ApprovalsInv, ApprovalsTypeOK, CallType, CallFounded, BasisFounded
  <2> QED
    BY <2>1, <2>2 DEF CallFounded
<1>5. \A r \in DOMAIN rows' : RowFounded(r)'
  BY DEF ApprovalsInv, RowFounded
<1> QED
  BY <1>1, <1>3, <1>4, <1>5 DEF ApprovalsInv

ProfileType == [desired : Desired, status : {"active", "revoked"}, grants : BOOLEAN,
                lease : {"active", "overdue", "expired", "ended"}, fit : BOOLEAN]

LEMMA FindStep ==
  ASSUME ApprovalsInv, NEW c \in Call, Find(c) PROVE ApprovalsInv'
<1>1. /\ UNCHANGED <<tool, rows, granted, action, meddler, setter, changes, profile, shown>> /\ ran' = ran
      /\ action[c] = "none" /\ call[c].basis = "none" /\ call \in [Call -> CallType]
      /\ shown' \subseteq DOMAIN rows /\ profile' \in ProfileType
  BY DEF Find, profileVars, ghosts, ApprovalsInv, ApprovalsTypeOK, CallFounded, PlaceFounded, ProfileType
<1>2. CASE \E r \in DOMAIN rows : Explicit(r) /\ call' = [call EXCEPT ![c] = [@ EXCEPT !.pc = "run", !.basis = "user"]]
  <2>1. OnlyCall(c) /\ call'[c].pc = "run" /\ call'[c].basis = "user"
    BY <1>1, <1>2, PlaceAndBasisChange, Zenon DEF CallPc, CallBasis
  <2>2. granted
    BY <1>2 DEF Explicit, ApprovalsInv, RowFounded
  <2>3. BasisFounded(c)' /\ PlaceFounded(c)'
    BY <1>1, <2>1, <2>2 DEF BasisFounded, PlaceFounded
  <2> QED
    BY <1>1, <2>1, <2>3, CallMoves, SMTT(60) DEF ProfileType
<1>3. CASE \E pc \in {"left", "record"} : Step(c, pc)
  <2>1. OnlyCall(c) /\ call'[c].pc \in {"left", "record"} /\ call'[c].basis = "none"
    BY <1>1, <1>3, PlaceChanges, ZenonT(60) DEF Step, CallPc
  <2>2. BasisFounded(c)' /\ PlaceFounded(c)'
    BY <1>1, <2>1 DEF BasisFounded, PlaceFounded
  <2> QED
    BY <1>1, <2>1, <2>2, CallMoves DEF ProfileType
<1>4. CASE Mode[c] = "full_access" /\ Step(c, "profile")
  <2>1. OnlyCall(c) /\ call'[c].pc = "profile" /\ call'[c].basis = "none"
    BY <1>1, <1>4, PlaceChanges DEF Step, CallPc
  <2>2. BasisFounded(c)' /\ PlaceFounded(c)'
    BY <1>1, <1>4, <2>1 DEF BasisFounded, PlaceFounded
  <2> QED
    BY <1>1, <2>1, <2>2, CallMoves DEF ProfileType
<1> QED
  BY <1>2, <1>3, <1>4 DEF Find

LEMMA ProfileStep ==
  ASSUME ApprovalsInv, NEW c \in Call, ReadProfile(c) \/ ReadLease(c) PROVE ApprovalsInv'
<1>1. /\ UNCHANGED <<tool, rows, granted, action, meddler, setter, changes, shown>> /\ ran' = ran
      /\ action[c] = "none" /\ call[c].basis = "none" /\ Mode[c] = "full_access"
      /\ call \in [Call -> CallType] /\ shown' \subseteq DOMAIN rows
  BY DEF ReadProfile, ReadLease, profileVars, ghosts, ApprovalsInv, ApprovalsTypeOK, CallFounded, PlaceFounded
<1>2. profile' \in ProfileType
  BY SMTT(60) DEF ReadProfile, ReadLease, profileVars, ApprovalsInv, ApprovalsTypeOK, ProfileType
<1>3. CASE \E pc \in {"lease", "limited", "action"} : call' = [call EXCEPT ![c].pc = pc]
  <2>1. OnlyCall(c) /\ call'[c].pc \in {"lease", "limited", "action"} /\ call'[c].basis = "none"
    BY <1>1, <1>3, PlaceChanges, ZenonT(60) DEF CallPc
  <2>2. BasisFounded(c)' /\ PlaceFounded(c)'
    BY <1>1, <2>1 DEF BasisFounded, PlaceFounded
  <2> QED
    BY <1>1, <1>2, <2>1, <2>2, CallMoves DEF ProfileType
<1>4. CASE call' = Fallback(c)
  <2>1. PICK b \in CallBasis : b = IF tool.privileged THEN "none" ELSE "full_access"
    BY DEF CallBasis
  <2>2. OnlyCall(c) /\ call'[c].pc = "record" /\ call'[c].basis = b
    <3>1. call' = [call EXCEPT ![c] = [@ EXCEPT !.pc = "record", !.basis = b]]
      BY <1>4, <2>1 DEF Fallback
    <3> QED
      BY <1>1, <3>1, PlaceAndBasisChange DEF CallPc
  <2>3. BasisFounded(c)' /\ PlaceFounded(c)'
    BY <1>1, <2>1, <2>2 DEF BasisFounded, PlaceFounded
  <2> QED
    BY <1>1, <1>2, <2>2, <2>3, CallMoves DEF ProfileType
<1> QED
  BY <1>3, <1>4 DEF ReadProfile, ReadLease, Step

LEMMA ReadActionStep ==
  ASSUME ApprovalsInv, NEW c \in Call, ReadAction(c) PROVE ApprovalsInv'
<1>1. /\ UNCHANGED <<tool, rows, granted, action, meddler, setter, changes, profile, shown>> /\ ran' = ran
      /\ action[c] \in ActionState /\ Mode[c] = "full_access"
      /\ call[c].pc = "update" /\ call[c].to \in {"approved", "running", "executed", "failed"}
      /\ call[c].to # "approved" => call[c].basis = "proactive"
      /\ call[c].basis = "proactive" => action[c] # "pending"
      /\ call \in [Call -> CallType] /\ shown' \subseteq DOMAIN rows /\ profile' \in ProfileType
  BY DEF ReadAction, profileVars, ghosts, ApprovalsInv, ApprovalsTypeOK, CallFounded, PlaceFounded, BasisFounded, ProfileType
<1>2. OnlyCall(c) /\ call'[c].basis = call[c].basis /\ PlaceFounded(c)'
  <2>1. CASE call' = [call EXCEPT ![c].pc = "write"]
    <3>1. OnlyCall(c) /\ call'[c].pc = "write" /\ call'[c].to = call[c].to /\ call'[c].basis = call[c].basis
      BY <1>1, <2>1, PlaceChanges DEF CallPc
    <3> QED
      BY <1>1, <3>1 DEF PlaceFounded, ActionState
  <2>2. CASE call' = [call EXCEPT ![c].pc = "thrown"]
    <3>1. OnlyCall(c) /\ call'[c].pc = "thrown" /\ call'[c].basis = call[c].basis
      BY <1>1, <2>2, PlaceChanges DEF CallPc
    <3> QED
      BY <3>1 DEF PlaceFounded
  <2>3. CASE call[c].to = "failed" /\ "failed" \notin AllowedFrom(action[c]) /\ call' = [call EXCEPT ![c].pc = "left"]
    <3>1. OnlyCall(c) /\ call'[c].pc = "left" /\ call'[c].basis = call[c].basis
      BY <1>1, <2>3, PlaceChanges DEF CallPc
    <3>2. action[c] \in ActionEnd
      BY <1>1, <2>3 DEF AllowedFrom, ActionState, ActionEnd
    <3> QED
      BY <1>1, <3>1, <3>2 DEF PlaceFounded
  <2>4. CASE call[c].to # "approved" /\ call' = [call EXCEPT ![c].to = "failed"]
    <3>1. OnlyCall(c) /\ call'[c].pc = "update" /\ call'[c].to = "failed" /\ call'[c].basis = call[c].basis
      BY <1>1, <2>4, TargetChanges DEF ActionState
    <3> QED
      BY <1>1, <2>4, <3>1 DEF PlaceFounded, ActionState
  <2> QED
    BY <2>1, <2>2, <2>3, <2>4 DEF ReadAction
<1>3. BasisFounded(c)'
  BY <1>1, <1>2 DEF BasisFounded, ApprovalsInv, CallFounded
<1> QED
  BY <1>1, <1>2, <1>3, CallMoves DEF ProfileType

LEMMA RecordStep ==
  ASSUME ApprovalsInv, NEW c \in Call, Record(c) PROVE ApprovalsInv'
<1>1. /\ UNCHANGED <<tool, rows, granted, action, meddler, setter, changes, profile>> /\ ran' = ran
      /\ call \in [Call -> CallType] /\ call[c].pc = "record" /\ profile' \in ProfileType
  BY DEF Record, profileVars, ghosts, ApprovalsInv, ApprovalsTypeOK, ProfileType
<1>2. CASE Step(c, "insert") /\ UNCHANGED shown
  <2>1. OnlyCall(c) /\ call'[c].pc = "insert" /\ call'[c].basis = call[c].basis
    BY <1>1, <1>2, PlaceChanges DEF Step, CallPc
  <2>2. BasisFounded(c)' /\ PlaceFounded(c)' /\ shown' \subseteq DOMAIN rows
    BY <1>1, <1>2, <2>1 DEF BasisFounded, PlaceFounded, ApprovalsInv, ApprovalsTypeOK, CallFounded
  <2> QED
    BY <1>1, <2>1, <2>2, CallMoves DEF ProfileType
<1>3. CASE ~(Step(c, "insert") /\ UNCHANGED shown)
  <2>1. PICK r \in Undecided : HasRow(c, r)
    BY <1>3 DEF Record
  <2>2. r \in DOMAIN rows /\ r \in 0..MaxRows
    BY ApprovalsAssumption, SMTT(60) DEF Undecided, ApprovalsInv, ApprovalsTypeOK
  <2>3. OnlyCall(c) /\ call'[c].pc = (IF call[c].basis = "none" THEN "asked" ELSE "decide")
        /\ call'[c].basis = call[c].basis /\ call'[c].row = r
    BY <1>1, <2>1, <2>2, PlaceAndRowChange, ZenonT(60) DEF HasRow, CallPc
  <2>4. BasisFounded(c)' /\ PlaceFounded(c)'
    BY <1>1, <2>2, <2>3 DEF BasisFounded, PlaceFounded, ApprovalsInv, CallFounded
  <2>5. shown' \subseteq DOMAIN rows
    BY <2>1, <2>2 DEF HasRow, ApprovalsInv, ApprovalsTypeOK
  <2> QED
    BY <1>1, <2>3, <2>4, <2>5, CallMoves DEF ProfileType
<1> QED
  BY <1>2, <1>3

LEMMA RunStep ==
  ASSUME ApprovalsInv, NEW c \in Call, RunTool(c) PROVE ApprovalsInv'
<1>1. /\ UNCHANGED <<tool, rows, granted, action, meddler, setter, changes, profile, shown>>
      /\ ran' \subseteq ran \cup {c} /\ shown' \subseteq DOMAIN rows
      /\ call \in [Call -> CallType] /\ call[c].basis \in CallBasis \ {"none"} /\ profile' \in ProfileType
  BY DEF RunTool, profileVars, ApprovalsInv, ApprovalsTypeOK, CallFounded, PlaceFounded, ProfileType, CallType, CallBasis
<1>2. PICK ok \in BOOLEAN : AfterRun(c, ok)
  BY DEF RunTool
<1>3. CASE call[c].basis = "proactive"
  <2>1. PICK to \in {"executed", "failed"} : Plan(c, to)
    BY <1>2, <1>3, SMTT(60) DEF AfterRun
  <2>2. OnlyCall(c) /\ call'[c].pc = "update" /\ call'[c].to = to /\ call'[c].basis = "proactive"
    BY <1>1, <1>3, <2>1, PlaceAndTargetChange, ZenonT(60) DEF Plan, CallPc, ActionState
  <2>3. BasisFounded(c)' /\ PlaceFounded(c)'
    BY <1>1, <1>3, <2>2 DEF BasisFounded, PlaceFounded, ApprovalsInv, CallFounded
  <2> QED
    BY <1>1, <2>2, <2>3, CallMoves DEF ProfileType
<1>4. CASE call[c].basis # "proactive"
  <2>1. OnlyCall(c) /\ call'[c].pc = "left" /\ call'[c].basis = call[c].basis
    BY <1>1, <1>2, <1>4, PlaceChanges DEF AfterRun, Step, CallPc
  <2>2. action[c] = "none"
    BY <1>1, <1>4 DEF CallBasis, BasisFounded, ApprovalsInv, CallFounded
  <2>3. BasisFounded(c)' /\ PlaceFounded(c)'
    BY <1>1, <2>1, <2>2 DEF BasisFounded, PlaceFounded, ApprovalsInv, CallFounded
  <2> QED
    BY <1>1, <2>1, <2>3, CallMoves DEF ProfileType
<1> QED
  BY <1>3, <1>4

(* A step of one call that opens or writes its action. *)
LEMMA CallActs ==
  ASSUME ApprovalsInv, NEW c \in Call, NEW s \in ActionState, action' = [action EXCEPT ![c] = s],
         UNCHANGED <<tool, rows, shown, meddler, profile, setter, changes, ran, granted>>,
         OnlyCall(c), BasisFounded(c)', PlaceFounded(c)'
  PROVE  ApprovalsInv'
<1>1. ApprovalsTypeOK'
  <2>1. action' \in [Call -> ActionState \cup {"none"}] /\ call' \in [Call -> CallType]
    BY DEF ApprovalsInv, ApprovalsTypeOK, OnlyCall
  <2> QED
    BY <2>1 DEF ApprovalsInv, ApprovalsTypeOK
<1>2. Stands
  BY DEF Stands
<1>3. ASSUME NEW d \in Call, d # c PROVE CallFounded(d)'
  BY <1>2, <1>3, CallStays DEF ApprovalsInv, ApprovalsTypeOK, OnlyCall
<1>4. CallFounded(c)'
  <2>1. action'[c] = s /\ s # "none"
    BY DEF ApprovalsInv, ApprovalsTypeOK, ActionState
  <2> QED
    BY <2>1 DEF ApprovalsInv, CallFounded
<1>5. \A r \in DOMAIN rows' : RowFounded(r)'
  BY DEF ApprovalsInv, RowFounded
<1> QED
  BY <1>1, <1>3, <1>4, <1>5 DEF ApprovalsInv

LEMMA CreateActionStep ==
  ASSUME ApprovalsInv, NEW c \in Call, CreateAction(c) PROVE ApprovalsInv'
<1>1. /\ UNCHANGED <<tool, rows, shown, meddler, profile, setter, changes, granted>> /\ ran' = ran
      /\ Mode[c] = "full_access" /\ call[c].basis = "none" /\ action[c] = "none"
      /\ call \in [Call -> CallType] /\ action \in [Call -> ActionState \cup {"none"}]
      /\ shown' \subseteq DOMAIN rows /\ profile' \in ProfileType
  BY DEF CreateAction, profileVars, ghosts, ApprovalsInv, ApprovalsTypeOK, CallFounded, PlaceFounded, ProfileType
<1>2. CASE action' = [action EXCEPT ![c] = "pending"] /\ Plan(c, "approved")
  <2>1. OnlyCall(c) /\ call'[c].pc = "update" /\ call'[c].to = "approved" /\ call'[c].basis = "none"
    BY <1>1, <1>2, PlaceAndTargetChange, ZenonT(60) DEF Plan, CallPc, ActionState
  <2>2. BasisFounded(c)' /\ PlaceFounded(c)'
    BY <1>1, <1>2, <2>1 DEF BasisFounded, PlaceFounded
  <2> QED
    BY <1>1, <1>2, <2>1, <2>2, CallActs, Zenon DEF ActionState
<1>3. CASE Step(c, "thrown") /\ UNCHANGED action
  <2>1. OnlyCall(c) /\ call'[c].pc = "thrown" /\ call'[c].basis = "none"
    BY <1>1, <1>3, PlaceChanges DEF Step, CallPc
  <2>2. BasisFounded(c)' /\ PlaceFounded(c)'
    BY <2>1 DEF BasisFounded, PlaceFounded
  <2> QED
    BY <1>1, <1>3, <2>1, <2>2, CallMoves DEF ProfileType
<1> QED
  BY <1>2, <1>3 DEF CreateAction

LEMMA WriteActionStep ==
  ASSUME ApprovalsInv, NEW c \in Call, WriteAction(c) PROVE ApprovalsInv'
<1>1. /\ UNCHANGED <<tool, rows, shown, meddler, profile, setter, changes, ran, granted>>
      /\ Mode[c] = "full_access" /\ action[c] # "none"
      /\ call[c].to \in {"approved", "running", "executed", "failed"}
      /\ call[c].to # "approved" => call[c].basis = "proactive"
      /\ call \in [Call -> CallType] /\ action \in [Call -> ActionState \cup {"none"}]
      /\ action' = [action EXCEPT ![c] = call[c].to] /\ call' = AfterWrite(c)
  BY DEF WriteAction, profileVars, ghosts, ApprovalsInv, ApprovalsTypeOK, CallFounded, PlaceFounded
<1>2. OnlyCall(c) /\ BasisFounded(c)' /\ PlaceFounded(c)'
  <2>1. CASE call[c].to = "approved"
    <3>1. OnlyCall(c) /\ call'[c].pc = "record" /\ call'[c].basis = "proactive"
      BY <1>1, <2>1, PlaceAndBasisChange, ZenonT(60) DEF AfterWrite, CallPc, CallBasis
    <3> QED
      BY <1>1, <2>1, <3>1, SMTT(60) DEF BasisFounded, PlaceFounded
  <2>2. CASE call[c].to = "running"
    <3>1. OnlyCall(c) /\ call'[c].pc = "run" /\ call'[c].basis = "proactive"
      BY <1>1, <2>2, PlaceChanges DEF AfterWrite, CallPc
    <3> QED
      BY <1>1, <2>2, <3>1 DEF BasisFounded, PlaceFounded
  <2>3. CASE call[c].to \in {"executed", "failed"}
    <3>1. OnlyCall(c) /\ call'[c].pc = "left" /\ call'[c].basis = "proactive"
      BY <1>1, <2>3, PlaceChanges DEF AfterWrite, CallPc
    <3> QED
      BY <1>1, <2>3, <3>1 DEF BasisFounded, PlaceFounded, ActionEnd
  <2> QED
    BY <1>1, <2>1, <2>2, <2>3
<1> QED
  BY <1>1, <1>2, CallActs DEF ActionState

(* A row is written or added. *)
RowValue == [state : {"pending", "granted", "denied"}, by : {"none", "user", "proactive", "full_access"}]

LEMMA InsertRowStep ==
  ASSUME ApprovalsInv, NEW c \in Call, InsertRow(c) PROVE ApprovalsInv'
<1>1. /\ UNCHANGED <<tool, action, meddler, profile, setter, changes, ran, granted>>
      /\ call \in [Call -> CallType] /\ rows \in Seq(RowValue) /\ Len(rows) < MaxRows
      /\ rows' = Append(rows, [state |-> "pending", by |-> "none"])
      /\ HasRow(c, Len(rows) + 1) /\ shown \subseteq DOMAIN rows
  BY DEF InsertRow, profileVars, ghosts, ApprovalsInv, ApprovalsTypeOK, RowValue
<1>2. /\ rows' \in Seq(RowValue) /\ Len(rows') = Len(rows) + 1 /\ DOMAIN rows' = 1..Len(rows) + 1
      /\ \A r \in DOMAIN rows : rows'[r] = rows[r]
      /\ rows'[Len(rows) + 1] = [state |-> "pending", by |-> "none"]
  <2>1. PICK v : v = [state |-> "pending", by |-> "none"]
    OBVIOUS
  <2>2. v \in RowValue
    BY <2>1 DEF RowValue
  <2>3. rows' = Append(rows, v)
    BY <1>1, <2>1
  <2>4. /\ rows' \in Seq(RowValue) /\ Len(rows') = Len(rows) + 1 /\ DOMAIN rows' = 1..Len(rows) + 1
        /\ \A r \in DOMAIN rows : rows'[r] = rows[r]
        /\ rows'[Len(rows) + 1] = v
    BY <1>1, <2>2, <2>3
  <2> QED
    BY <2>1, <2>4
<1>3. Len(rows) + 1 \in 0..MaxRows /\ Len(rows) + 1 \in DOMAIN rows' /\ DOMAIN rows \subseteq DOMAIN rows'
  BY <1>1, <1>2, ApprovalsAssumption
<1>4. OnlyCall(c) /\ call'[c].pc = (IF call[c].basis = "none" THEN "asked" ELSE "decide")
      /\ call'[c].basis = call[c].basis /\ call'[c].row = Len(rows) + 1
  <2>1. PICK r \in 0..MaxRows : r = Len(rows) + 1
    BY <1>3
  <2>2. HasRow(c, r)
    BY <1>1, <2>1, SMTT(60)
  <2>3. OnlyCall(c) /\ call'[c].pc = (IF call[c].basis = "none" THEN "asked" ELSE "decide")
        /\ call'[c].basis = call[c].basis /\ call'[c].row = r
    BY <1>1, <2>2, PlaceAndRowChange, ZenonT(60) DEF HasRow, CallPc
  <2> QED
    BY <2>1, <2>3
<1>5. shown' \subseteq DOMAIN rows'
  BY <1>1, <1>3 DEF HasRow
<1>6. ApprovalsTypeOK'
  BY <1>1, <1>2, <1>3, <1>4, <1>5, ApprovalsAssumption DEF ApprovalsInv, ApprovalsTypeOK, OnlyCall, RowValue
<1>7. Stands
  BY <1>1, <1>3 DEF Stands
<1>8. ASSUME NEW d \in Call, d # c PROVE CallFounded(d)'
  BY <1>1, <1>4, <1>7, <1>8, CallStays DEF ApprovalsInv, OnlyCall
<1>9. CallFounded(c)'
  BY <1>1, <1>3, <1>4 DEF ApprovalsInv, CallFounded, BasisFounded, PlaceFounded
<1>10. ASSUME NEW r \in DOMAIN rows' PROVE RowFounded(r)'
  <2>1. CASE r = Len(rows) + 1
    BY <1>2, <2>1 DEF RowFounded
  <2>2. CASE r # Len(rows) + 1
    <3>1. r \in DOMAIN rows
      BY <1>1, <1>2, <2>2
    <3> QED
      BY <1>1, <1>2, <3>1 DEF RowFounded, ApprovalsInv
  <2> QED
    BY <2>1, <2>2
<1> QED
  BY <1>6, <1>8, <1>9, <1>10 DEF ApprovalsInv

LEMMA RowIsWritten ==
  ASSUME ApprovalsInv, NEW r \in DOMAIN rows, NEW v \in RowValue, rows' = [rows EXCEPT ![r] = v],
         v.state = "granted" /\ v.by = "user" => granted', v.by # "none", granted => granted'
  PROVE  /\ rows' \in Seq(RowValue) /\ Len(rows') = Len(rows) /\ DOMAIN rows' = DOMAIN rows
         /\ \A q \in DOMAIN rows' : RowFounded(q)'
<1>1. rows \in Seq(RowValue)
  BY DEF ApprovalsInv, ApprovalsTypeOK, RowValue
<1>2. rows' \in Seq(RowValue) /\ Len(rows') = Len(rows) /\ DOMAIN rows' = DOMAIN rows
  BY <1>1
<1>3. ASSUME NEW q \in DOMAIN rows' PROVE RowFounded(q)'
  <2>1. rows'[q] = IF q = r THEN v ELSE rows[q]
    BY <1>1, <1>2, <1>3
  <2> QED
    BY <1>2, <2>1 DEF RowFounded, ApprovalsInv
<1> QED
  BY <1>2, <1>3

LEMMA DecideStep ==
  ASSUME ApprovalsInv, NEW c \in Call, DecideByPermission(c) PROVE ApprovalsInv'
<1>1. /\ UNCHANGED <<tool, shown, action, meddler, profile, setter, changes, ran, granted>>
      /\ call \in [Call -> CallType] /\ call[c].pc = "decide" /\ call[c].basis \in CallBasis \ {"none"}
      /\ call[c].row \in DOMAIN rows
      /\ rows' = [rows EXCEPT ![call[c].row] = [state |-> "granted", by |-> call[c].basis]]
  BY DEF DecideByPermission, profileVars, ghosts, ApprovalsInv, ApprovalsTypeOK, CallFounded, PlaceFounded, CallType, CallBasis
<1>2. [state |-> "granted", by |-> call[c].basis] \in RowValue
  BY <1>1 DEF RowValue, CallBasis
<1>3. call[c].basis = "user" => granted
  BY DEF ApprovalsInv, CallFounded, BasisFounded
<1>4. /\ rows' \in Seq(RowValue) /\ Len(rows') = Len(rows) /\ DOMAIN rows' = DOMAIN rows
      /\ \A q \in DOMAIN rows' : RowFounded(q)'
  BY <1>1, <1>2, <1>3, RowIsWritten
<1>5. /\ OnlyCall(c) /\ call'[c].basis = call[c].basis
      /\ IF call[c].basis = "proactive" THEN call'[c].pc = "update" /\ call'[c].to = "running" ELSE call'[c].pc = "run"
  <2>1. CASE call[c].basis = "proactive"
    BY <1>1, <2>1, PlaceAndTargetChange, ZenonT(60) DEF DecideByPermission, Plan, CallPc, ActionState
  <2>2. CASE call[c].basis # "proactive"
    BY <1>1, <2>2, PlaceChanges DEF DecideByPermission, Step, CallPc
  <2> QED
    BY <2>1, <2>2
<1>6. ApprovalsTypeOK'
  BY <1>1, <1>4, <1>5 DEF ApprovalsInv, ApprovalsTypeOK, OnlyCall, RowValue
<1>7. Stands
  BY <1>1, <1>4 DEF Stands
<1>8. ASSUME NEW d \in Call, d # c PROVE CallFounded(d)'
  BY <1>1, <1>5, <1>7, <1>8, CallStays DEF ApprovalsInv, OnlyCall
<1>9. CallFounded(c)'
  BY <1>1, <1>5 DEF ApprovalsInv, CallFounded, BasisFounded, PlaceFounded
<1> QED
  BY <1>4, <1>6, <1>8, <1>9 DEF ApprovalsInv

(* The user decides a row that was shown. *)
LEMMA DecideByUserStep ==
  ASSUME ApprovalsInv, NEW r \in 1..MaxRows, NEW d \in {"granted", "denied"}, DecideByUser(r, d)
  PROVE  ApprovalsInv'
<1>1. /\ UNCHANGED <<tool, shown, action, meddler, call, profile, setter, changes, ran>>
      /\ rows' = [rows EXCEPT ![r] = [state |-> d, by |-> "user"]] /\ r \in DOMAIN rows
      /\ granted' = (granted \/ d = "granted")
  BY DEF DecideByUser, profileVars, ApprovalsInv, ApprovalsTypeOK
<1>2. [state |-> d, by |-> "user"] \in RowValue
  BY DEF RowValue
<1>3. /\ rows' \in Seq(RowValue) /\ Len(rows') = Len(rows) /\ DOMAIN rows' = DOMAIN rows
      /\ \A q \in DOMAIN rows' : RowFounded(q)'
  BY <1>1, <1>2, RowIsWritten
<1>4. ApprovalsTypeOK'
  BY <1>1, <1>3 DEF ApprovalsInv, ApprovalsTypeOK, RowValue
<1>5. Stands
  BY <1>1, <1>3 DEF Stands
<1>6. ASSUME NEW c \in Call PROVE CallFounded(c)'
  BY <1>1, <1>5, CallStays DEF ApprovalsInv
<1> QED
  BY <1>3, <1>4, <1>6 DEF ApprovalsInv

(* The user decides an action himself. *)
LEMMA MeddleStep ==
  ASSUME ApprovalsInv, NEW c \in Call, MeddleWrite(c) \/ \E to \in {"denied", "revoked"} : MeddleRead(c, to)
  PROVE  ApprovalsInv'
<1>1. UNCHANGED <<tool, rows, shown, call, profile, setter, changes, ran, granted>>
  BY DEF MeddleWrite, MeddleRead, profileVars, ghosts
<1>2. /\ action' \in [Call -> ActionState \cup {"none"}] /\ meddler' \in [Call -> {"none", "denied", "revoked"}]
      /\ \A d \in Call : d # c => action'[d] = action[d] /\ meddler'[d] = meddler[d]
  BY DEF MeddleWrite, MeddleRead, ApprovalsInv, ApprovalsTypeOK, ActionState
<1>3. ApprovalsTypeOK'
  BY <1>1, <1>2 DEF ApprovalsInv, ApprovalsTypeOK
<1>4. Stands
  BY <1>1 DEF Stands
<1>5. ASSUME NEW d \in Call, d # c PROVE CallFounded(d)'
  BY <1>1, <1>2, <1>4, <1>5, CallStays DEF ApprovalsInv
<1>6. CallFounded(c)'
  <2>1. CASE action' = action /\ action[c] # "none"
    BY <1>1, <2>1 DEF ApprovalsInv, CallFounded, BasisFounded, PlaceFounded
  <2>2. CASE MeddleWrite(c)
    <3>1. action[c] # "none" /\ action'[c] \in {"denied", "revoked"}
      BY <2>2 DEF MeddleWrite, ApprovalsInv, ApprovalsTypeOK, CallFounded
    <3> QED
      BY <1>1, <3>1 DEF ApprovalsInv, CallFounded, BasisFounded, PlaceFounded, ActionEnd
  <2> QED
    BY <2>1, <2>2 DEF MeddleRead
<1>7. \A r \in DOMAIN rows' : RowFounded(r)'
  BY <1>1 DEF ApprovalsInv, RowFounded
<1> QED
  BY <1>3, <1>5, <1>6, <1>7 DEF ApprovalsInv

(* The user changes the profile or the tool, or its lease runs out: none   *)
(* of it makes a tool privileged that was not.                             *)
LEMMA SettingsStep ==
  ASSUME ApprovalsInv, SetWrite \/ (\E to \in Desired : SetRead(to)) \/ ChangeGrant \/ ChangeLease \/ LeaseTimePasses
                       \/ SetEnabled
  PROVE  ApprovalsInv'
<1>1. UNCHANGED <<rows, shown, action, meddler, call, ran, granted>>
  BY DEF SetWrite, SetRead, ChangeGrant, ChangeLease, LeaseTimePasses, SetEnabled, ghosts
<1>2. profile' \in [desired : Desired, status : {"active", "revoked"}, grants : BOOLEAN,
                    lease : {"active", "overdue", "expired", "ended"}, fit : BOOLEAN]
  <2>1. CASE SetWrite
    BY <2>1 DEF SetWrite, Changes, ApprovalsInv, ApprovalsTypeOK
  <2>2. CASE \E to \in Desired : SetRead(to)
    BY <2>2 DEF SetRead, Changes, ApprovalsInv, ApprovalsTypeOK
  <2>3. CASE ChangeGrant
    BY <2>3 DEF ChangeGrant, Changes, ApprovalsInv, ApprovalsTypeOK
  <2>4. CASE ChangeLease
    BY <2>4, ZenonT(60) DEF ChangeLease, Changes, ApprovalsInv, ApprovalsTypeOK
  <2>5. CASE LeaseTimePasses
    BY <2>5 DEF LeaseTimePasses, Changes, ApprovalsInv, ApprovalsTypeOK
  <2>6. CASE SetEnabled
    BY <2>6 DEF SetEnabled, Changes, ApprovalsInv, ApprovalsTypeOK
  <2> QED
    BY <2>1, <2>2, <2>3, <2>4, <2>5, <2>6
<1>3. setter' \in [to : Desired \cup {"none"}, status : {"active", "revoked"}]
  <2>1. CASE SetWrite
    BY <2>1 DEF SetWrite, Changes, ApprovalsInv, ApprovalsTypeOK
  <2>2. CASE \E to \in Desired : SetRead(to)
    BY <2>2 DEF SetRead, Changes, ApprovalsInv, ApprovalsTypeOK
  <2>3. CASE ChangeGrant
    BY <2>3 DEF ChangeGrant, Changes, ApprovalsInv, ApprovalsTypeOK
  <2>4. CASE ChangeLease
    BY <2>4 DEF ChangeLease, Changes, ApprovalsInv, ApprovalsTypeOK
  <2>5. CASE LeaseTimePasses
    BY <2>5 DEF LeaseTimePasses, Changes, ApprovalsInv, ApprovalsTypeOK
  <2>6. CASE SetEnabled
    BY <2>6 DEF SetEnabled, Changes, ApprovalsInv, ApprovalsTypeOK
  <2> QED
    BY <2>1, <2>2, <2>3, <2>4, <2>5, <2>6
<1>4. changes' \in 0..MaxChanges
  <2>1. changes' = changes \/ Changes
    BY DEF SetWrite, SetRead, ChangeGrant, ChangeLease, LeaseTimePasses, SetEnabled
  <2>2. changes \in 0..MaxChanges
    BY DEF ApprovalsInv, ApprovalsTypeOK
  <2> QED
    BY <2>1, <2>2, ApprovalsAssumption DEF Changes
<1>5. tool' \in [enabled : BOOLEAN, privileged : BOOLEAN] /\ tool'.privileged = tool.privileged
  <2>1. CASE SetEnabled
    <3>1. tool \in [enabled : BOOLEAN, privileged : BOOLEAN]
      BY DEF ApprovalsInv, ApprovalsTypeOK
    <3>2. PICK b \in BOOLEAN : tool' = [tool EXCEPT !.enabled = b]
      BY <2>1, <3>1 DEF SetEnabled
    <3> QED
      BY <3>1, <3>2
  <2>2. CASE tool' = tool
    BY <2>2 DEF ApprovalsInv, ApprovalsTypeOK
  <2> QED
    BY <2>1, <2>2 DEF SetWrite, SetRead, ChangeGrant, ChangeLease, LeaseTimePasses
<1>6. ApprovalsTypeOK'
  BY <1>1, <1>2, <1>3, <1>4, <1>5 DEF ApprovalsInv, ApprovalsTypeOK
<1>7. Stands
  BY <1>1, <1>5 DEF Stands
<1>8. ASSUME NEW c \in Call PROVE CallFounded(c)'
  BY <1>1, <1>7, CallStays DEF ApprovalsInv
<1>9. \A r \in DOMAIN rows' : RowFounded(r)'
  BY <1>1 DEF ApprovalsInv, RowFounded
<1> QED
  BY <1>6, <1>8, <1>9, SMTT(60) DEF ApprovalsInv

LEMMA ApprovalsStep == ApprovalsInv /\ [ApprovalsNext]_approvalVars => ApprovalsInv'
<1> SUFFICES ASSUME ApprovalsInv, [ApprovalsNext]_approvalVars PROVE ApprovalsInv'
  OBVIOUS
<1>1. ASSUME NEW c \in Call, CallStep(c) PROVE ApprovalsInv'
  BY <1>1, FindStep, ProfileStep, CreateActionStep, ReadActionStep, WriteActionStep, RecordStep, InsertRowStep,
     DecideStep, RunStep DEF CallStep
<1>2. CASE UserStep
  BY <1>2, DecideByUserStep, MeddleStep, SettingsStep DEF UserStep
<1>3. CASE UNCHANGED approvalVars
  BY <1>3 DEF approvalVars, ApprovalsInv, ApprovalsTypeOK, CallFounded, BasisFounded, PlaceFounded, RowFounded
<1> QED
  BY <1>1, <1>2, <1>3 DEF ApprovalsNext

(* No permission leaks and no action is left open (agent-executor.ts): for *)
(* any number of calls and Turns that share the rows, whatever the user    *)
(* decides, grants, revokes and switches off meanwhile.                    *)
THEOREM EffectsAreAuthorized == ApprovalsSpec => []ApprovalsInvariant
BY ApprovalsInitInv, ApprovalsStep, ApprovalsInvImplies, PTL DEF ApprovalsSpec

-----------------------------------------------------------------------------
(* The desktop.  That a stop holds rests on the window: it has one command *)
(* under way at a time, so between the state a stop wrote and its answer   *)
(* nothing enables the profile again, and after the answer only a command  *)
(* the user gives can.                                                     *)
OneCommand == \A c, d \in HostCall : Commanding(c) /\ Commanding(d) => c = d

StopIsCarried ==
  \A c \in HostCall : hostCall[c].want \in Stop =>
    \/ hostCall[c].at = "queued"
    \/ hostCall[c].at \in {"mkdir", "rename", "status", "probe"} /\ control.desired \in Stop

StoppedIsQuiet ==
  user.stop = "here" =>
    up /\ control.desired # "enabled" /\ \A c \in HostCall : hostCall[c].want \notin Enable

DownIsEmpty == ~up => \A c \in HostCall : hostCall[c].at = "none"

DesktopInv == DesktopTypeOK /\ OneCommand /\ StopIsCarried /\ StoppedIsQuiet /\ DownIsEmpty

LEMMA DesktopInvImplies == DesktopInv => DesktopInvariant
BY DEF DesktopInv, DesktopInvariant, StopHolds, StoppedIsQuiet, Collects

LEMMA DesktopInitInv == DesktopInit => DesktopInv
<1> SUFFICES ASSUME DesktopInit PROVE DesktopInv
  OBVIOUS
<1>1. /\ up \in BOOLEAN /\ control \in ControlState /\ saved \in ControlState
      /\ hostCall \in [HostCall -> HostCallType] /\ commands \in 0..MaxCommands
  BY DesktopAssumption DEF DesktopInit, ControlState, EmptyState, HostCallType, NoCall, ToolMode
<1>2. user \in [mode : ToolMode, ask : BOOLEAN, stop : {"no", "here", "before"}]
  BY DEF DesktopInit, ToolMode
<1>3. \A c \in HostCall : hostCall[c].want = "status" /\ hostCall[c].at = "none"
  BY DEF DesktopInit, NoCall
<1> QED
  BY <1>1, <1>2, <1>3 DEF DesktopInit, DesktopInv, DesktopTypeOK, OneCommand, StopIsCarried, StoppedIsQuiet, DownIsEmpty,
     Commanding, Stop, Enable

(* One call goes on, or begins, or ends. *)
CallBecomes(c, want, at) ==
  /\ hostCall' \in [HostCall -> HostCallType]
  /\ \A d \in HostCall : d # c => hostCall'[d] = hostCall[d]
  /\ hostCall'[c].want = want /\ hostCall'[c].at = at

LEMMA Enters ==
  ASSUME DesktopTypeOK, NEW c \in HostCall, NEW mode \in ToolMode,
         NEW at \in {"ready", "queued", "status"},
         NEW want \in {"status", "again", "poll", "capability"} \cup Enable \cup Stop, Enter(c, want, mode, at)
  PROVE  CallBecomes(c, want, at) /\ hostCall[c].at = "none"
<1>1. [NoCall EXCEPT !.at = at, !.want = want, !.mode = mode] \in HostCallType
  BY DEF NoCall, HostCallType, ControlState, EmptyState, ToolMode
<1>2. PICK q \in HostCallType :
        q = [NoCall EXCEPT !.at = at, !.want = want, !.mode = mode] /\ q.want = want /\ q.at = at
  BY <1>1 DEF NoCall
<1>3. hostCall' = [hostCall EXCEPT ![c] = q]
  BY <1>2 DEF Enter
<1> QED
  BY <1>2, <1>3 DEF CallBecomes, DesktopTypeOK, Enter

LEMMA Goes ==
  ASSUME DesktopTypeOK, NEW c \in HostCall, NEW at \in {"queued", "status", "mkdir", "probe"}, Goto(c, at)
  PROVE  CallBecomes(c, hostCall[c].want, at)
BY DEF Goto, CallBecomes, DesktopTypeOK, HostCallType

LEMMA CallEnds ==
  ASSUME DesktopTypeOK, NEW c \in HostCall, Done(c) PROVE CallBecomes(c, "status", "none")
<1>1. NoCall \in HostCallType
  BY DEF NoCall, HostCallType, ControlState, EmptyState, ToolMode
<1> QED
  BY <1>1 DEF Done, CallBecomes, DesktopTypeOK, NoCall

(* What such a step keeps of the rest.  The call commands only what it     *)
(* commanded before, the desired state is left or is a stop's own, and     *)
(* the user was told of no stop meanwhile.                                 *)
LEMMA CallStepKeeps ==
  ASSUME DesktopInv, NEW c \in HostCall, NEW want, NEW at, CallBecomes(c, want, at),
         up' = up, saved' \in ControlState, control' \in ControlState, commands' \in 0..MaxCommands,
         user' \in [mode : ToolMode, ask : BOOLEAN, stop : {"no", "here", "before"}],
         want = hostCall[c].want \/ want \in {"status", "again", "poll"},
         want \in Stop => at = "queued" \/ (at \in {"mkdir", "rename", "status", "probe"} /\ control'.desired \in Stop),
         control'.desired = control.desired \/ (Commanding(c) /\ control'.desired \in Stop)
           \/ (Commanding(c) /\ hostCall[c].want \in Enable),
         user'.stop = "here" => user.stop = "here" \/ (Commanding(c) /\ up /\ control'.desired # "enabled"
                                                       /\ want \notin Enable),
         hostCall[c].at # "none"
  PROVE  DesktopInv'
<1>1. DesktopTypeOK'
  BY DEF DesktopInv, DesktopTypeOK, CallBecomes
<1>2. OneCommand'
  BY DEF DesktopInv, OneCommand, Commanding, CallBecomes, Stop, Enable
<1>3. StopIsCarried'
  BY DEF DesktopInv, StopIsCarried, OneCommand, Commanding, CallBecomes, Stop
<1>4. StoppedIsQuiet'
  BY DEF DesktopInv, StoppedIsQuiet, OneCommand, Commanding, CallBecomes, Stop, Enable
<1>5. DownIsEmpty'
  BY DEF DesktopInv, DownIsEmpty
<1> QED
  BY <1>1, <1>2, <1>3, <1>4, <1>5 DEF DesktopInv

(* A call that begins and gives no command. *)
LEMMA AskStepKeeps ==
  ASSUME DesktopInv, NEW c \in HostCall, NEW want \in {"status", "poll"}, NEW at, CallBecomes(c, want, at),
         up, UNCHANGED <<up, saved, control>>, commands' \in 0..MaxCommands,
         user' \in [mode : ToolMode, ask : BOOLEAN, stop : {"no", "here", "before"}],
         user'.stop = user.stop
  PROVE  DesktopInv'
<1>1. DesktopTypeOK'
  BY DEF DesktopInv, DesktopTypeOK, CallBecomes
<1>2. OneCommand' /\ StopIsCarried' /\ StoppedIsQuiet' /\ DownIsEmpty'
  BY DEF DesktopInv, OneCommand, StopIsCarried, StoppedIsQuiet, DownIsEmpty, Commanding, CallBecomes, Stop, Enable
<1> QED
  BY <1>1, <1>2 DEF DesktopInv

LEMMA AskStep ==
  ASSUME DesktopInv, NEW c \in HostCall, (\E mode \in ToolMode : ChangeMode(c, mode)) \/ Heartbeat(c) \/ Poll(c)
  PROVE  DesktopInv'
<1>1. CASE Heartbeat(c) \/ Poll(c)
  <2>1. \E want \in {"status", "poll"}, at \in {"ready", "status"} : Enter(c, want, "full_access", at)
    BY <1>1 DEF Heartbeat, Poll
  <2>2. \E want \in {"status", "poll"}, at \in {"ready", "status"} : CallBecomes(c, want, at)
    BY <2>1, Enters DEF DesktopInv, ToolMode
  <2> QED
    BY <1>1, <2>2, AskStepKeeps DEF Heartbeat, Poll, Collects, DesktopInv, DesktopTypeOK
<1>2. ASSUME NEW mode \in ToolMode, ChangeMode(c, mode) PROVE DesktopInv'
  <2>1. CallBecomes(c, "status", "ready")
    BY <1>2, Enters DEF ChangeMode, DesktopInv
  <2>2. user' \in [mode : ToolMode, ask : BOOLEAN, stop : {"no", "here", "before"}] /\ user'.stop = user.stop
    BY <1>2 DEF ChangeMode, DesktopInv, DesktopTypeOK
  <2>3. commands' \in 0..MaxCommands
    <3>1. commands' = commands + 1 /\ commands < MaxCommands /\ commands \in 0..MaxCommands
      BY <1>2 DEF ChangeMode, DesktopInv, DesktopTypeOK
    <3> QED
      BY <3>1, DesktopAssumption
  <2> QED
    BY <1>2, <2>1, <2>2, <2>3, AskStepKeeps DEF ChangeMode
<1> QED
  BY <1>1, <1>2

LEMMA CommandStep ==
  ASSUME DesktopInv, NEW c \in HostCall, NEW want \in {"capability"} \cup Enable \cup Stop, Command(c, want)
  PROVE  DesktopInv'
<1>1. PICK at \in {"ready", "queued"} : at = IF want = "authorize" THEN "ready" ELSE "queued"
  OBVIOUS
<1>2. user.mode \in ToolMode /\ Enter(c, want, user.mode, at)
  BY <1>1 DEF Command, DesktopInv, DesktopTypeOK
<1>3. CallBecomes(c, want, at)
  BY <1>2, Enters DEF DesktopInv
<1>4. /\ up /\ UNCHANGED <<up, control, saved>> /\ \A d \in HostCall : ~Commanding(d)
      /\ commands' \in 0..MaxCommands
  BY DesktopAssumption DEF Command, DesktopInv, DesktopTypeOK
<1>5. /\ user' \in [mode : ToolMode, ask : BOOLEAN, stop : {"no", "here", "before"}]
      /\ user'.stop = IF want \in Enable THEN "no" ELSE user.stop
  BY DEF Command, DesktopInv, DesktopTypeOK
<1>6. DesktopTypeOK'
  BY <1>3, <1>4, <1>5 DEF DesktopInv, DesktopTypeOK, CallBecomes
<1>7. OneCommand' /\ DownIsEmpty'
  BY <1>3, <1>4 DEF OneCommand, DownIsEmpty, Commanding, CallBecomes
<1>8. StopIsCarried'
  BY <1>1, <1>3, <1>4 DEF DesktopInv, StopIsCarried, CallBecomes, Stop
<1>9. StoppedIsQuiet'
  BY <1>3, <1>4, <1>5 DEF DesktopInv, StoppedIsQuiet, CallBecomes
<1> QED
  BY <1>6, <1>7, <1>8, <1>9 DEF DesktopInv

LEMMA LocalReadyStep ==
  ASSUME DesktopInv, NEW c \in HostCall, LocalReady(c) PROVE DesktopInv'
<1>1. hostCall[c].at = "ready" /\ UNCHANGED <<up, control, saved, user, commands>> /\ hostCall[c].want \notin Stop
  BY DEF LocalReady, DesktopInv, StopIsCarried
<1>2. CASE Done(c)
  BY <1>1, <1>2, CallEnds, CallStepKeeps DEF DesktopInv, DesktopTypeOK, Stop
<1>3. CASE Goto(c, "queued")
  BY <1>1, <1>3, Goes, CallStepKeeps DEF DesktopInv, DesktopTypeOK
<1>4. CASE Goto(c, "status")
  BY <1>1, <1>4, Goes, CallStepKeeps DEF DesktopInv, DesktopTypeOK
<1> QED
  BY <1>2, <1>3, <1>4 DEF LocalReady

LEMMA MutateStep ==
  ASSUME DesktopInv, NEW c \in HostCall, Mutate(c) PROVE DesktopInv'
<1>1. hostCall[c].at = "queued" /\ UNCHANGED <<up, saved, user, commands>>
  BY DEF Mutate
<1>2. CASE Done(c) /\ UNCHANGED control
  BY <1>1, <1>2, CallEnds, CallStepKeeps DEF DesktopInv, DesktopTypeOK, Stop
<1>3. CASE ~(Done(c) /\ UNCHANGED control)
  <2>1. CallBecomes(c, hostCall[c].want, "mkdir")
    <3>1. hostCall' = [hostCall EXCEPT ![c] = [@ EXCEPT !.at = "mkdir", !.own = TRUE]]
      BY <1>3 DEF Mutate
    <3> QED
      BY <3>1, ZenonT(60) DEF CallBecomes, DesktopInv, DesktopTypeOK, HostCallType
  <2>2. PICK full \in BOOLEAN, authorized \in BOOLEAN, lease \in BOOLEAN, desired \in {"none", "enabled"} \cup Stop :
          /\ control' = [control EXCEPT !.full = full, !.authorized = authorized, !.desired = desired, !.lease = lease]
          /\ desired = CASE hostCall[c].want \in Enable -> "enabled" [] hostCall[c].want \in Stop -> hostCall[c].want
                         [] OTHER -> control.desired
    <3>1. control.desired \in {"none", "enabled"} \cup Stop
      BY DEF DesktopInv, DesktopTypeOK, ControlState
    <3> DEFINE want == hostCall[c].want
    <3> DEFINE goal == CASE want \in Enable -> "enabled" [] want \in Stop -> want [] OTHER -> control.desired
    <3>2. goal \in {"none", "enabled"} \cup Stop
      BY <3>1 DEF Enable, Stop
    <3>3. control' = [control EXCEPT !.full = (control.full \/ want = "authorize"),
                                     !.authorized = (control.authorized \/ want = "authorize"),
                                     !.desired = goal,
                                     !.lease = (control.lease /\ want \notin {"revoked", "capability"})]
      BY <1>3 DEF Mutate
    <3>4. /\ (control.full \/ want = "authorize") \in BOOLEAN
          /\ (control.authorized \/ want = "authorize") \in BOOLEAN
          /\ (control.lease /\ want \notin {"revoked", "capability"}) \in BOOLEAN
      OBVIOUS
    <3> HIDE DEF want, goal
    <3>5. PICK full \in BOOLEAN : full = (control.full \/ want = "authorize")
      BY <3>4
    <3>6. PICK authorized \in BOOLEAN : authorized = (control.authorized \/ want = "authorize")
      BY <3>4
    <3>7. PICK lease \in BOOLEAN : lease = (control.lease /\ want \notin {"revoked", "capability"})
      BY <3>4
    <3>8. control' = [control EXCEPT !.full = full, !.authorized = authorized, !.desired = goal, !.lease = lease]
      BY <3>3, <3>5, <3>6, <3>7
    <3> QED
      BY <3>2, <3>8 DEF want, goal
  <2>3. control' \in ControlState /\ control'.desired = desired
    BY <2>2, ZenonT(60) DEF DesktopInv, DesktopTypeOK, ControlState
  <2>4. \/ desired = control.desired /\ hostCall[c].want \notin Stop
        \/ Commanding(c) /\ desired \in Stop
        \/ Commanding(c) /\ hostCall[c].want \in Enable /\ hostCall[c].want \notin Stop
    BY <2>2 DEF Commanding, Enable, Stop
  <2> QED
    BY <1>1, <2>1, <2>3, <2>4, CallStepKeeps DEF DesktopInv, DesktopTypeOK
<1> QED
  BY <1>2, <1>3

LEMMA StatusStep ==
  ASSUME DesktopInv, NEW c \in HostCall, Status(c) PROVE DesktopInv'
<1>1. /\ hostCall[c].at = "status" /\ UNCHANGED <<up, saved, user, commands>>
      /\ hostCall[c].want \in Stop => control.desired \in Stop
  BY DEF Status, DesktopInv, StopIsCarried
<1>2. control' \in ControlState /\ control'.desired = control.desired
  <2>1. PICK full \in BOOLEAN, lease \in BOOLEAN :
          control' = control \/ control' = [control EXCEPT !.full = full, !.lease = lease]
    <3> DEFINE own == hostCall[c].mode = "full_access"
    <3>1. control' = control \/ control' = [control EXCEPT !.full = own, !.lease = control.lease /\ own]
      BY DEF Status
    <3>2. own \in BOOLEAN /\ (control.lease /\ own) \in BOOLEAN
      OBVIOUS
    <3> HIDE DEF own
    <3>3. PICK lease \in BOOLEAN : lease = (control.lease /\ own)
      BY <3>2
    <3> QED
      BY <3>1, <3>2, <3>3
  <2>2. control \in ControlState
    BY DEF DesktopInv, DesktopTypeOK
  <2> QED
    BY <2>1, <2>2 DEF ControlState
<1>3. Goto(c, "probe") \/ Goto(c, "mkdir")
  BY DEF Status
<1>4. CASE Goto(c, "probe")
  BY <1>1, <1>2, <1>4, Goes, CallStepKeeps DEF DesktopInv, DesktopTypeOK
<1>5. CASE Goto(c, "mkdir")
  BY <1>1, <1>2, <1>5, Goes, CallStepKeeps DEF DesktopInv, DesktopTypeOK
<1> QED
  BY <1>3, <1>4, <1>5

LEMMA SaveStep ==
  ASSUME DesktopInv, NEW c \in HostCall, Copy(c) \/ Rename(c) PROVE DesktopInv'
<1>1. /\ hostCall[c].at \in {"mkdir", "rename"} /\ UNCHANGED <<up, control, user, commands>>
      /\ hostCall[c].want \in Stop => control.desired \in Stop
      /\ hostCall \in [HostCall -> HostCallType] /\ control \in ControlState
  BY DEF Copy, Rename, DesktopInv, DesktopTypeOK, StopIsCarried
<1>2. CASE Copy(c)
  <2>1. CallBecomes(c, hostCall[c].want, "rename") /\ saved' = saved
    BY <1>1, <1>2, ZenonT(60) DEF Copy, CallBecomes, HostCallType
  <2> QED
    BY <1>1, <2>1, CallStepKeeps DEF DesktopInv, DesktopTypeOK
<1>3. CASE Rename(c)
  <2>1. PICK at \in {"status", "probe"} : at = IF hostCall[c].own THEN "status" ELSE "probe"
    OBVIOUS
  <2>2. hostCall' = [hostCall EXCEPT ![c] = [@ EXCEPT !.at = at, !.own = FALSE, !.copy = EmptyState]]
    BY <1>3, <2>1 DEF Rename
  <2>3. EmptyState \in ControlState
    BY DEF EmptyState, ControlState
  <2>4. CallBecomes(c, hostCall[c].want, at)
    BY <1>1, <2>2, <2>3, ZenonT(60) DEF CallBecomes, HostCallType
  <2>5. saved' \in ControlState
    BY <1>1, <1>3 DEF Rename, HostCallType
  <2> QED
    BY <1>1, <2>4, <2>5, CallStepKeeps DEF DesktopInv, DesktopTypeOK
<1> QED
  BY <1>2, <1>3

LEMMA RefreshStep ==
  ASSUME DesktopInv, NEW c \in HostCall, Refresh(c) PROVE DesktopInv'
<1>1. /\ hostCall[c].at = "probe" /\ UNCHANGED <<up, saved, commands>> /\ up
      /\ hostCall[c].want \in Stop => control.desired \in Stop
      /\ hostCall \in [HostCall -> HostCallType] /\ control \in ControlState
  BY DEF Refresh, DesktopInv, DesktopTypeOK, StopIsCarried, DownIsEmpty
<1>2. control' \in ControlState /\ control'.desired = control.desired
  <2>1. PICK lease \in BOOLEAN : control' = [control EXCEPT !.lease = lease]
    BY DEF Refresh
  <2> QED
    BY <1>1, <2>1 DEF ControlState
<1>3. user \in [mode : ToolMode, ask : BOOLEAN, stop : {"no", "here", "before"}]
  BY DEF DesktopInv, DesktopTypeOK
<1>4. CASE Commanding(c)
  <2>1. PICK q : q = [NoCall EXCEPT !.at = "ready", !.mode = hostCall[c].mode]
    OBVIOUS
  <2>2. q \in HostCallType /\ q.want = "status" /\ q.at = "ready"
    BY <1>1, <2>1 DEF NoCall, HostCallType, ControlState, EmptyState
  <2>3. hostCall' = [hostCall EXCEPT ![c] = q]
    BY <1>4, <2>1 DEF Refresh
  <2>4. CallBecomes(c, "status", "ready")
    BY <1>1, <2>2, <2>3 DEF CallBecomes
  <2>5. /\ user' \in [mode : ToolMode, ask : BOOLEAN, stop : {"no", "here", "before"}]
        /\ user'.stop = IF hostCall[c].want \in Stop THEN "here" ELSE user.stop
    BY <1>3, <1>4 DEF Refresh
  <2> QED
    BY <1>1, <1>2, <1>4, <2>4, <2>5, CallStepKeeps DEF DesktopInv, DesktopTypeOK, Stop, Enable
<1>5. CASE ~Commanding(c) /\ Done(c)
  <2>1. user' = [user EXCEPT !.ask = user.ask \/ (hostCall[c].mode = "ask" /\ user.mode = "ask")] \/ user' = user
    BY <1>5 DEF Refresh
  <2>2. PICK b \in BOOLEAN : user' = [user EXCEPT !.ask = b] \/ user' = user
    BY <2>1
  <2>3. user' \in [mode : ToolMode, ask : BOOLEAN, stop : {"no", "here", "before"}] /\ user'.stop = user.stop
    BY <1>3, <2>2
  <2> QED
    BY <1>1, <1>2, <1>5, <2>3, CallEnds, CallStepKeeps DEF DesktopInv, DesktopTypeOK, Stop
<1>6. CASE ~Commanding(c) /\ ~Done(c)
  <2>1. hostCall' = [hostCall EXCEPT ![c] = [@ EXCEPT !.want = "again", !.at = "status"]] /\ user' = user
    BY <1>6 DEF Refresh
  <2>2. CallBecomes(c, "again", "status")
    BY <1>1, <2>1, ZenonT(60) DEF CallBecomes, HostCallType
  <2> QED
    BY <1>1, <1>2, <1>3, <2>1, <2>2, CallStepKeeps DEF DesktopInv, DesktopTypeOK, Stop
<1> QED
  BY <1>4, <1>5, <1>6

LEMMA ProcessStep ==
  ASSUME DesktopInv, LeaseEnds \/ Killed \/ Restart PROVE DesktopInv'
<1>1. CASE LeaseEnds
  <2>1. control' \in ControlState /\ control'.desired = control.desired
    BY <1>1 DEF LeaseEnds, DesktopInv, DesktopTypeOK, ControlState
  <2>2. UNCHANGED <<up, saved, hostCall, user, commands>>
    BY <1>1 DEF LeaseEnds
  <2>3. DesktopTypeOK'
    BY <2>1, <2>2 DEF DesktopInv, DesktopTypeOK
  <2> QED
    BY <2>1, <2>2, <2>3 DEF DesktopInv, OneCommand, StopIsCarried, StoppedIsQuiet, DownIsEmpty, Commanding
<1>2. CASE Killed
  <2>1. up' = FALSE /\ control' \in ControlState /\ UNCHANGED <<saved, commands>>
    BY <1>2 DEF Killed, ControlState, EmptyState
  <2>2. NoCall \in HostCallType /\ NoCall.at = "none" /\ NoCall.want = "status"
    BY DEF NoCall, HostCallType, ControlState, EmptyState, ToolMode
  <2>3. /\ hostCall' \in [HostCall -> HostCallType]
        /\ \A c \in HostCall : hostCall'[c].at = "none" /\ hostCall'[c].want = "status"
    BY <1>2, <2>2 DEF Killed
  <2>4. /\ user' \in [mode : ToolMode, ask : BOOLEAN, stop : {"no", "here", "before"}]
        /\ user'.stop # "here"
    BY <1>2 DEF Killed, DesktopInv, DesktopTypeOK
  <2>5. DesktopTypeOK'
    BY <2>1, <2>3, <2>4 DEF DesktopInv, DesktopTypeOK
  <2> QED
    BY <2>1, <2>3, <2>4, <2>5 DEF DesktopInv, OneCommand, StopIsCarried, StoppedIsQuiet, DownIsEmpty, Commanding, Stop, Enable
<1>3. CASE Restart
  <2>1. up' = TRUE /\ control' = saved /\ UNCHANGED <<saved, hostCall, user, commands>> /\ ~up
    BY <1>3 DEF Restart
  <2>2. DesktopTypeOK' /\ user.stop # "here" /\ \A c \in HostCall : hostCall[c].want \notin Stop
    BY <2>1 DEF DesktopInv, DesktopTypeOK, StoppedIsQuiet, StopIsCarried, DownIsEmpty
  <2> QED
    BY <2>1, <2>2 DEF DesktopInv, OneCommand, StopIsCarried, StoppedIsQuiet, DownIsEmpty, Commanding
<1> QED
  BY <1>1, <1>2, <1>3

LEMMA DesktopStep == DesktopInv /\ [DesktopNext]_desktopVars => DesktopInv'
<1> SUFFICES ASSUME DesktopInv, [DesktopNext]_desktopVars PROVE DesktopInv'
  OBVIOUS
<1>1. CASE UNCHANGED desktopVars
  BY <1>1 DEF desktopVars, DesktopInv, DesktopTypeOK, OneCommand, StopIsCarried, StoppedIsQuiet, DownIsEmpty, Commanding
<1>2. CASE DesktopNext
  BY <1>2, AskStep, CommandStep, LocalReadyStep, MutateStep, StatusStep, SaveStep, RefreshStep, ProcessStep
  DEF DesktopNext
<1> QED
  BY <1>1, <1>2

(* Once the window showed a stop, this process does not observe until the  *)
(* user enables it again (proactive-host.ts): for any number of calls,     *)
(* timers and commands and however often it is killed.                     *)
THEOREM StopAlwaysHolds == DesktopSpec => []DesktopInvariant
BY DesktopInitInv, DesktopStep, DesktopInvImplies, PTL DEF DesktopSpec

-----------------------------------------------------------------------------
(* The skill.  The four parts rest on each other: versions have no gap     *)
(* because a promotion that is under way has everything below its number,  *)
(* a stage is served because only a rollback deactivates for good, a       *)
(* release is marked only after its text was read, and the file agrees     *)
(* with the row because a call that is alone carries its text from one to  *)
(* the other.                                                              *)
LEMMA NewestOfInterval == ASSUME NEW n \in Nat PROVE Newest(1..n) = n
<1>1. CASE n = 0
  BY <1>1 DEF Newest
<1>2. CASE n # 0
  <2>1. n \in 1..n /\ \A w \in 1..n : w <= n
    BY <1>2
  <2>2. \A v \in 1..n : (\A w \in 1..n : w <= v) => v = n
    BY <1>2
  <2>3. (CHOOSE v \in 1..n : \A w \in 1..n : w <= v) = n
    BY <2>1, <2>2
  <2> QED
    BY <2>1, <2>3 DEF Newest
<1> QED
  BY <1>1, <1>2

Dense == \A s \in Stage : \E n \in 0..MaxVersion : Versions(s) = 1..n

LEMMA DenseIsCounted ==
  ASSUME NEW s \in Stage, NEW n \in 0..MaxVersion, Versions(s) = 1..n
  PROVE  Versions(s) = 1..Cardinality(Versions(s)) /\ Newest(Versions(s)) = n
<1>1. n \in Nat
  BY SkillsAssumption
<1>2. Cardinality(1..n) = n
  BY <1>1, FS_Interval
<1> QED
  BY <1>1, <1>2, NewestOfInterval

(* What a call may rely on. *)
SkillCallFounded(k) ==
  /\ Own(k).pc = "end" => Own(k) = AtRest
  /\ Own(k).op \in {"evaluate", "promote"} /\ Own(k).pc \notin {"register", "mark", "end"} => Own(k).draft \in Draft
  /\ Own(k).op = "promote" /\ Own(k).pc \in {"look", "deactivate", "insert"} =>
       /\ Own(k).version \in Version
       /\ \A v \in Version : v < Own(k).version => v \in Versions(Own(k).stage)
  /\ Own(k).op = "rollback" => story.back /\ Own(k).version \in Version
  /\ Own(k).pc \in {"payload", "file", "find", "register", "mark"} /\ Own(k).op # "install" =>
       /\ Own(k).stage = "stable" /\ Own(k).version \in Version /\ Own(k).version \in Versions("stable")
       /\ Own(k).pc # "payload" => PayloadOf[release[<<"stable", Own(k).version>>].draft] = "text"
  /\ Own(k).pc = "mark" => Own(k).op # "install"

(* What the file and the row are while one call is at work alone. *)
TextIsCarried(k) ==
  /\ Own(k).pc \notin {"end", "file", "find", "register", "unregister"} => RowAndFileAgree
  /\ Own(k).pc = "find" => disk = Written(k)
  /\ Own(k).pc = "register" => disk = Own(k).draft /\ (Own(k).flag <=> listed.text # NoText)
  /\ Own(k).pc = "unregister" => disk = NoText \/ story.undeleted

FileFollows ==
  ~story.met /\ ~story.lost =>
    /\ \A j, k \in SkillCall : Own(j).pc # "end" /\ Own(k).pc # "end" => j = k
    /\ \A k \in SkillCall : TextIsCarried(k)
    /\ (\A k \in SkillCall : Own(k).pc = "end") => RowAndFileAgree

SkillsInv ==
  /\ SkillsTypeOK /\ Dense /\ StageIsServed /\ SyncedHadText /\ FileFollows
  /\ \A k \in SkillCall : SkillCallFounded(k)

LEMMA SkillsInvImplies == SkillsInv => SkillsInvariant
<1> SUFFICES ASSUME SkillsInv PROVE SkillsInvariant
  OBVIOUS
<1>1. VersionsAreDense
  BY DenseIsCounted DEF SkillsInv, Dense, VersionsAreDense
<1>2. RowMatchesFile
  BY DEF SkillsInv, FileFollows, RowMatchesFile, RowAndFileAgree, Quiet, AtRest, Own
<1> QED
  BY <1>1, <1>2 DEF SkillsInv, SkillsInvariant

LEMMA SkillsInitInv == SkillsInit => SkillsInv
<1> SUFFICES ASSUME SkillsInit PROVE SkillsInv
  OBVIOUS
<1>1. AtRest \in SkillCallType /\ AtRest.pc = "end" /\ AtRest.op = "idle"
  BY SkillsAssumption DEF AtRest, SkillCallType, SkillPc, Text, NoText, Stage
<1>2. SkillsTypeOK
  <2>1. skillCall \in [SkillCall -> SkillCallType]
    BY <1>1 DEF SkillsInit
  <2>2. release \in [Stage \X Version -> [draft : Draft \cup {NoText}, active : BOOLEAN, synced : BOOLEAN]]
    BY DEF SkillsInit, NoRelease
  <2>3. story \in [calls : 0..MaxSkillCalls, met : BOOLEAN, lost : BOOLEAN, back : BOOLEAN, undeleted : BOOLEAN]
    BY SkillsAssumption DEF SkillsInit
  <2> QED
    BY <2>1, <2>2, <2>3 DEF SkillsInit, SkillsTypeOK, Text
<1>3. \A s \in Stage : Versions(s) = {}
  BY DEF SkillsInit, Versions, NoRelease
<1>4. Dense
  <2>1. 0 \in 0..MaxVersion /\ 1..0 = {}
    BY SkillsAssumption
  <2> QED
    BY <1>3, <2>1 DEF Dense
<1>5. StageIsServed /\ SyncedHadText
  BY <1>3 DEF StageIsServed, SyncedHadText, SkillsInit, NoRelease
<1>6. \A k \in SkillCall : Own(k) = AtRest
  BY DEF SkillsInit, Own
<1>7. FileFollows
  BY <1>1, <1>6 DEF FileFollows, TextIsCarried, RowAndFileAgree, SkillsInit
<1>8. \A k \in SkillCall : SkillCallFounded(k)
  BY <1>1, <1>6 DEF SkillCallFounded
<1> QED
  BY <1>2, <1>4, <1>5, <1>7, <1>8 DEF SkillsInv

(* One call moves; releases keep their candidate. *)
OnlySkillCall(k) == skillCall' \in [SkillCall -> SkillCallType] /\ \A j \in SkillCall : j # k => skillCall'[j] = skillCall[j]

StoryGoesOn ==
  /\ story' \in [calls : 0..MaxSkillCalls, met : BOOLEAN, lost : BOOLEAN, back : BOOLEAN, undeleted : BOOLEAN]
  /\ story'.met = story.met /\ story'.back = story.back /\ (story.lost => story'.lost)

ReleasesStay ==
  /\ release' \in [Stage \X Version -> [draft : Draft \cup {NoText}, active : BOOLEAN, synced : BOOLEAN]]
  /\ \A s \in Stage, v \in Version : release[<<s, v>>].draft # NoText => release'[<<s, v>>].draft = release[<<s, v>>].draft

LEMMA SkillCallStays ==
  ASSUME ReleasesStay, story.back => story'.back, NEW j \in SkillCall, SkillCallFounded(j), skillCall'[j] = skillCall[j],
         skillCall[j] \in SkillCallType
  PROVE  SkillCallFounded(j)'
<1>1. \A s \in Stage : Versions(s) \subseteq Versions(s)'
  BY DEF ReleasesStay, Versions
<1>2. "stable" \in Stage /\ Own(j).stage \in Stage
  BY DEF Stage, SkillCallType, Own
<1>3. Own(j)' = Own(j)
  BY DEF Own
<1>4. \A v \in Version : v \in Versions("stable") => release'[<<"stable", v>>].draft = release[<<"stable", v>>].draft
  BY <1>2 DEF ReleasesStay, Versions
<1> QED
  BY <1>1, <1>2, <1>3, <1>4 DEF SkillCallFounded

TextGoesOn(k) ==
  ~story.met /\ ~story'.lost => TextIsCarried(k)' /\ (skillCall'[k].pc = "end" => RowAndFileAgree')

LEMMA FileFollowsOn ==
  ASSUME SkillsInv, NEW k \in SkillCall, Own(k).pc # "end", OnlySkillCall(k), StoryGoesOn, TextGoesOn(k)
  PROVE  FileFollows'
<1> SUFFICES ASSUME ~story'.met, ~story'.lost PROVE FileFollows'
  BY DEF FileFollows
<1>1. ~story.met /\ ~story.lost
  BY DEF StoryGoesOn
<1>2. \A j \in SkillCall : j # k => Own(j)'.pc = "end"
  BY <1>1 DEF SkillsInv, FileFollows, OnlySkillCall, Own
<1>3. \A j \in SkillCall : j # k => TextIsCarried(j)'
  BY <1>2 DEF TextIsCarried, RowAndFileAgree
<1>4. TextIsCarried(k)' /\ (Own(k)'.pc = "end" => RowAndFileAgree')
  BY <1>1 DEF TextGoesOn, Own
<1> QED
  BY <1>2, <1>3, <1>4 DEF FileFollows

(* A step that leaves the releases alone. *)
LEMMA PlainStep ==
  ASSUME SkillsInv, NEW k \in SkillCall, Own(k).pc # "end", OnlySkillCall(k), StoryGoesOn, TextGoesOn(k),
         release' = release, verdict' \in [Draft -> {"pending", "evaluated", "rejected", "promoted"}],
         disk' \in Text, listed' \in [text : Text, active : BOOLEAN],
         At1(k, "promote", "insert") => story'.lost, SkillCallFounded(k)'
  PROVE  SkillsInv'
<1>1. SkillsTypeOK'
  BY DEF SkillsInv, SkillsTypeOK, OnlySkillCall, StoryGoesOn
<1>2. \A s \in Stage : Versions(s)' = Versions(s) /\ ActiveIn(s)' = ActiveIn(s)
  BY DEF Versions, ActiveIn
<1>3. Dense' /\ SyncedHadText'
  BY <1>2 DEF SkillsInv, Dense, SyncedHadText
<1>4. StageIsServed'
  <2> SUFFICES ASSUME NEW s \in Stage, Versions(s) # {}, ~story.back, ~story'.lost
               PROVE  \/ ActiveIn(s) = {Newest(Versions(s))}
                      \/ \E j \in SkillCall : /\ skillCall'[j].op = "promote" /\ skillCall'[j].pc = "insert"
                                              /\ skillCall'[j].stage = s
    BY <1>2 DEF StageIsServed, StoryGoesOn
  <2>1. CASE ActiveIn(s) = {Newest(Versions(s))}
    BY <2>1
  <2>2. CASE ActiveIn(s) # {Newest(Versions(s))}
    <3>1. PICK j \in SkillCall : skillCall[j].op = "promote" /\ skillCall[j].pc = "insert" /\ skillCall[j].stage = s
      BY <2>2 DEF SkillsInv, StageIsServed, StoryGoesOn
    <3>2. j # k
      BY <3>1 DEF At1
    <3> QED
      BY <3>1, <3>2 DEF OnlySkillCall
  <2> QED
    BY <2>1, <2>2
<1>5. ReleasesStay
  BY DEF ReleasesStay, SkillsInv, SkillsTypeOK
<1>6. \A j \in SkillCall : SkillCallFounded(j)'
  BY <1>5, SkillCallStays DEF SkillsInv, SkillsTypeOK, OnlySkillCall, StoryGoesOn
<1> QED
  BY <1>1, <1>3, <1>4, <1>6, FileFollowsOn DEF SkillsInv

(* Where the call is next, and all else of it as it was. *)
Moved(k, pc) ==
  /\ OnlySkillCall(k) /\ Own(k)'.pc = pc
  /\ Own(k)'.op = Own(k).op /\ Own(k)'.draft = Own(k).draft /\ Own(k)'.stage = Own(k).stage
  /\ Own(k)'.version = Own(k).version /\ Own(k)'.flag = Own(k).flag

LEMMA SkillGoes ==
  ASSUME SkillsTypeOK, NEW k \in SkillCall, NEW pc \in SkillPc, Go(k, pc) PROVE Moved(k, pc)
BY SMTT(60) DEF Go, Moved, OnlySkillCall, Own, SkillsTypeOK, SkillCallType

LEMMA SkillReturns ==
  ASSUME SkillsTypeOK, NEW k \in SkillCall, Return(k)
  PROVE  OnlySkillCall(k) /\ Own(k)' = AtRest /\ skillCall'[k].pc = "end" /\ SkillCallFounded(k)'
<1>1. AtRest \in SkillCallType /\ AtRest.pc = "end" /\ AtRest.op = "idle"
  BY SkillsAssumption DEF AtRest, SkillCallType, SkillPc, Text, NoText, Stage
<1>2. OnlySkillCall(k) /\ skillCall'[k] = AtRest
  BY <1>1 DEF Return, OnlySkillCall, SkillsTypeOK
<1> QED
  BY <1>1, <1>2 DEF SkillCallFounded, Own

LEMMA StoryStays == ASSUME SkillsTypeOK, story' = story PROVE StoryGoesOn
BY DEF StoryGoesOn, SkillsTypeOK

(* An answer with an error. *)
LEMMA RefuseStep ==
  ASSUME SkillsInv, NEW k \in SkillCall, Own(k).pc # "end", Refuse(k), UNCHANGED <<verdict, release, disk, listed>>
  PROVE  SkillsInv'
<1>1. OnlySkillCall(k) /\ SkillCallFounded(k)'
  BY SkillReturns DEF Refuse, SkillsInv
<1>2. StoryGoesOn /\ story'.lost
  BY DEF Refuse, StoryGoesOn, SkillsInv, SkillsTypeOK
<1>3. TextGoesOn(k)
  BY <1>2 DEF TextGoesOn
<1> QED
  BY <1>1, <1>2, <1>3, PlainStep DEF SkillsInv, SkillsTypeOK

(* A call that ends where the row and the file agree. *)
LEMMA ReturnStep ==
  ASSUME SkillsInv, NEW k \in SkillCall, Own(k).pc \notin {"end", "file", "find", "register", "unregister", "insert"},
         Return(k), verdict' \in [Draft -> {"pending", "evaluated", "rejected", "promoted"}],
         UNCHANGED <<release, disk, listed, story>>
  PROVE  SkillsInv'
<1>1. OnlySkillCall(k) /\ SkillCallFounded(k)' /\ Own(k)' = AtRest /\ StoryGoesOn
  BY SkillReturns, StoryStays DEF SkillsInv
<1>2. TextGoesOn(k)
  BY <1>1 DEF TextGoesOn, TextIsCarried, RowAndFileAgree, AtRest, SkillsInv, FileFollows, StoryGoesOn
<1> QED
  BY <1>1, <1>2, PlainStep DEF SkillsInv, SkillsTypeOK, At1, Own

(* A call that goes on in its agreement. *)
LEMMA GoStep ==
  ASSUME SkillsInv, NEW k \in SkillCall, Own(k).pc \notin {"end", "file", "find", "register", "unregister", "insert"},
         NEW pc \in SkillPc \ {"end", "find", "register", "unregister"}, Moved(k, pc),
         UNCHANGED <<verdict, release, disk, listed, story>>, SkillCallFounded(k)'
  PROVE  SkillsInv'
<1>1. StoryGoesOn
  BY StoryStays DEF SkillsInv
<1>2. TextGoesOn(k)
  BY <1>1 DEF TextGoesOn, TextIsCarried, RowAndFileAgree, Moved, SkillsInv, FileFollows, StoryGoesOn, Own
<1> QED
  BY <1>1, <1>2, PlainStep DEF SkillsInv, SkillsTypeOK, At1, Own, Moved

LEMMA SkEvaluateStep ==
  ASSUME SkillsInv, NEW k \in SkillCall, Evaluate(k) PROVE SkillsInv'
<1>1. CASE At1(k, "evaluate", "read")
  <2>1. CASE Go(k, "write")
    <3>1. Moved(k, "write") /\ UNCHANGED <<verdict, release, disk, listed, story>>
      BY <1>1, <2>1, SkillGoes DEF SkillsInv, SkillPc, Evaluate, At1, Go
    <3>2. SkillCallFounded(k)'
      BY <1>1, <3>1 DEF SkillsInv, SkillCallFounded, Moved, At1, Own
    <3> QED
      BY <1>1, <3>1, <3>2, GoStep DEF At1, Own, SkillPc
  <2>2. CASE Return(k)
    BY <1>1, <2>2, ReturnStep DEF Evaluate, At1, Own, SkillsInv, SkillsTypeOK
  <2> QED
    BY <1>1, <2>1, <2>2 DEF Evaluate, At1
<1>2. CASE At1(k, "evaluate", "write")
  BY <1>2, ReturnStep DEF Evaluate, At1, Own, SkillsInv, SkillsTypeOK
<1> QED
  BY <1>1, <1>2 DEF Evaluate

LEMMA SkPromoteReadsStep ==
  ASSUME SkillsInv, NEW k \in SkillCall, PromoteReads(k) PROVE SkillsInv'
<1>1. CASE Go(k, "list")
  <2>1. Moved(k, "list") /\ UNCHANGED <<verdict, release, disk, listed, story>> /\ At1(k, "promote", "read")
    BY <1>1, SkillGoes DEF SkillsInv, SkillPc, PromoteReads
  <2>2. SkillCallFounded(k)'
    BY <2>1 DEF SkillsInv, SkillCallFounded, Moved, At1, Own
  <2> QED
    BY <2>1, <2>2, GoStep DEF At1, Own, SkillPc
<1>2. CASE Return(k)
  BY <1>2, ReturnStep DEF PromoteReads, At1, Own, SkillsInv, SkillsTypeOK
<1> QED
  BY <1>1, <1>2 DEF PromoteReads

LEMMA SkNextVersionStep ==
  ASSUME SkillsInv, NEW k \in SkillCall, NextVersion(k) PROVE SkillsInv'
<1>1. /\ At1(k, "promote", "list") /\ UNCHANGED <<verdict, release, disk, listed, story>>
      /\ skillCall[k] \in SkillCallType /\ Own(k).stage \in Stage
  BY DEF NextVersion, SkillsInv, SkillsTypeOK, Own, SkillCallType
<1>2. PICK n \in 0..MaxVersion : Versions(Own(k).stage) = 1..n /\ Newest(Versions(Own(k).stage)) = n
  BY <1>1, DenseIsCounted DEF SkillsInv, Dense
<1>3. n + 1 \in Version /\ n + 1 \in 0..MaxVersion + 1
  BY <1>2, SkillsAssumption DEF NextVersion, Version
<1>4. PICK v \in Version : v = n + 1 /\ v \in 0..MaxVersion + 1
  BY <1>3
<1>5. skillCall' = [skillCall EXCEPT ![k] = [@ EXCEPT !.pc = "look", !.version = v]]
  BY <1>2, <1>4 DEF NextVersion
<1>6. /\ OnlySkillCall(k) /\ Own(k)'.pc = "look" /\ Own(k)'.version = v
      /\ Own(k)'.op = "promote" /\ Own(k)'.draft = Own(k).draft /\ Own(k)'.stage = Own(k).stage
  BY <1>1, <1>4, <1>5 DEF OnlySkillCall, Own, SkillsInv, SkillsTypeOK, SkillCallType, SkillPc, At1
<1>7. \A w \in Version : w < v => w \in Versions(Own(k).stage)
  BY <1>2, <1>4, SkillsAssumption DEF Version
<1>8. SkillCallFounded(k)'
  <2>1. Versions(Own(k).stage)' = Versions(Own(k).stage)
    BY <1>1, <1>6 DEF Versions
  <2> QED
    BY <1>1, <1>4, <1>6, <1>7, <2>1 DEF SkillsInv, SkillCallFounded, At1, Own
<1>9. StoryGoesOn /\ TextGoesOn(k)
  BY <1>1, <1>6, StoryStays DEF TextGoesOn, TextIsCarried, RowAndFileAgree, SkillsInv, FileFollows, StoryGoesOn, Own, At1
<1> QED
  BY <1>1, <1>6, <1>8, <1>9, PlainStep DEF SkillsInv, SkillsTypeOK, At1, Own

LEMMA SkLookStep ==
  ASSUME SkillsInv, NEW k \in SkillCall, LookForRelease(k) PROVE SkillsInv'
<1>1. At1(k, "promote", "look") /\ UNCHANGED <<verdict, release, disk, listed, story>> /\ Own(k).stage \in Stage
  BY DEF LookForRelease, SkillsInv, SkillsTypeOK, Own, SkillCallType
<1>2. CASE Go(k, "deactivate")
  <2>1. Moved(k, "deactivate")
    BY <1>2, SkillGoes DEF SkillsInv, SkillPc
  <2>2. Versions(Own(k).stage)' = Versions(Own(k).stage)
    BY <1>1, <2>1 DEF Versions, Moved
  <2>3. SkillCallFounded(k)'
    BY <1>1, <2>1, <2>2 DEF SkillsInv, SkillCallFounded, Moved, At1, Own
  <2> QED
    BY <1>1, <2>1, <2>3, GoStep DEF At1, Own, SkillPc
<1>3. CASE release[<<Own(k).stage, Own(k).version>>].draft # NoText /\ Go(k, AfterRelease(k))
  <2>1. PICK pc \in {"payload", "promoted"} : pc = AfterRelease(k)
    BY DEF AfterRelease
  <2>2. Moved(k, pc)
    BY <1>3, <2>1, SkillGoes, SMTT(60) DEF SkillsInv, SkillPc
  <2>3. pc = "payload" => Own(k).stage = "stable" /\ Own(k).version \in Versions("stable")
    BY <1>1, <1>3, <2>1 DEF AfterRelease, Versions, SkillsInv, SkillCallFounded, At1, Own
  <2>4. Versions("stable")' = Versions("stable")
    BY <1>1 DEF Versions
  <2>5. SkillCallFounded(k)'
    BY <1>1, <2>2, <2>3, <2>4 DEF SkillsInv, SkillCallFounded, Moved, At1, Own
  <2> QED
    BY <1>1, <2>2, <2>5, GoStep DEF At1, Own, SkillPc
<1> QED
  BY <1>2, <1>3 DEF LookForRelease

LEMMA SkMarkPromotedStep ==
  ASSUME SkillsInv, NEW k \in SkillCall, MarkPromoted(k) PROVE SkillsInv'
BY ReturnStep DEF MarkPromoted, At1, Own, SkillsInv, SkillsTypeOK

LEMMA SkReadPayloadStep ==
  ASSUME SkillsInv, NEW k \in SkillCall, ReadPayload(k) PROVE SkillsInv'
<1>1. Own(k).pc = "payload" /\ UNCHANGED <<verdict, release, disk, listed>>
  BY DEF ReadPayload
<1>2. CASE Refuse(k)
  BY <1>1, <1>2, RefuseStep
<1>3. CASE PayloadOf[Synced(k)] = "text" /\ Go(k, "file") /\ UNCHANGED story
  <2>1. Moved(k, "file")
    BY <1>3, SkillGoes DEF SkillsInv, SkillPc
  <2>2. Versions("stable")' = Versions("stable")
    BY <1>1 DEF Versions
  <2>3. SkillCallFounded(k)'
    BY <1>1, <1>3, <2>1, <2>2 DEF SkillsInv, SkillCallFounded, Moved, Own, Synced
  <2> QED
    BY <1>1, <1>3, <2>1, <2>3, GoStep DEF Own, SkillPc
<1> QED
  BY <1>2, <1>3 DEF ReadPayload

(* What is written is a text. *)
LEMMA WrittenIsText ==
  ASSUME SkillsInv, NEW k \in SkillCall, Own(k).pc \in {"file", "find"} PROVE Written(k) \in Text
<1>1. CASE Own(k).op = "install"
  BY <1>1 DEF Written, Text
<1>2. CASE Own(k).op # "install"
  <2>1. Own(k).stage \in Stage /\ Own(k).version \in Version
    BY <1>2 DEF SkillsInv, SkillCallFounded, Stage
  <2> QED
    BY <1>2, <2>1 DEF Written, Synced, Text, SkillsInv, SkillsTypeOK
<1> QED
  BY <1>1, <1>2

LEMMA DeletedOrNot ==
  ASSUME SkillsTypeOK, NEW u \in BOOLEAN, story' = [story EXCEPT !.undeleted = u]
  PROVE  StoryGoesOn /\ story'.undeleted = u /\ story'.lost = story.lost
BY DEF StoryGoesOn, SkillsTypeOK

LEMMA SkWriteFileStep ==
  ASSUME SkillsInv, NEW k \in SkillCall, WriteFile(k) PROVE SkillsInv'
<1>1. /\ Own(k).pc = "file" /\ UNCHANGED <<verdict, release, listed>> /\ disk' = Written(k)
      /\ story' = [story EXCEPT !.undeleted = FALSE]
  BY DEF WriteFile
<1>2. Moved(k, "find")
  BY SkillGoes DEF SkillsInv, SkillPc, WriteFile
<1>3. Versions("stable")' = Versions("stable") /\ Written(k)' = Written(k)
  BY <1>1, <1>2 DEF Versions, Written, Synced, Moved
<1>4. SkillCallFounded(k)'
  BY <1>1, <1>2, <1>3 DEF SkillsInv, SkillCallFounded, Moved, Own
<1>5. StoryGoesOn
  BY <1>1, DeletedOrNot DEF SkillsInv
<1>6. TextGoesOn(k)
  BY <1>1, <1>2, <1>3 DEF TextGoesOn, TextIsCarried, RowAndFileAgree, SkillsInv, Moved, Own
<1> QED
  BY <1>1, <1>2, <1>4, <1>5, <1>6, WrittenIsText, PlainStep DEF SkillsInv, SkillsTypeOK, At1, Moved, Own

LEMMA SkFindRowStep ==
  ASSUME SkillsInv, NEW k \in SkillCall, FindRow(k) PROVE SkillsInv'
<1>1. Own(k).pc = "find" /\ UNCHANGED <<verdict, release, disk, listed>> /\ disk \in Text /\ skillCall[k] \in SkillCallType
  BY DEF FindRow, SkillsInv, SkillsTypeOK
<1>2. CASE Refuse(k)
  BY <1>1, <1>2, RefuseStep
<1>3. CASE ~Refuse(k)
  <2>1. PICK draft \in Text, flag \in BOOLEAN :
          /\ skillCall' = [skillCall EXCEPT ![k] = [@ EXCEPT !.pc = "register", !.flag = flag, !.draft = draft]]
          /\ flag <=> listed.text # NoText
          /\ draft = IF Own(k).op = "install" THEN disk ELSE Synced(k)
    <3> DEFINE goal == IF Own(k).op = "install" THEN disk ELSE Synced(k)
    <3>1. goal \in Text
      BY <1>1, WrittenIsText DEF Written
    <3>2. PICK flag \in BOOLEAN : flag = (listed.text # NoText)
      OBVIOUS
    <3>3. skillCall' = [skillCall EXCEPT ![k] = [@ EXCEPT !.pc = "register", !.flag = (listed.text # NoText), !.draft = goal]]
      BY <1>3 DEF FindRow
    <3> HIDE DEF goal
    <3>4. skillCall' = [skillCall EXCEPT ![k] = [@ EXCEPT !.pc = "register", !.flag = flag, !.draft = goal]]
      BY <3>2, <3>3
    <3> QED
      BY <3>1, <3>2, <3>4 DEF goal
  <2>2. /\ OnlySkillCall(k) /\ Own(k)'.pc = "register" /\ Own(k)'.draft = draft /\ Own(k)'.flag = flag
        /\ Own(k)'.op = Own(k).op /\ Own(k)'.stage = Own(k).stage /\ Own(k)'.version = Own(k).version
    BY <1>1, <2>1 DEF OnlySkillCall, Own, SkillsInv, SkillsTypeOK, SkillCallType, SkillPc
  <2>3. story' = story
    BY <1>3 DEF FindRow
  <2>4. Versions("stable")' = Versions("stable")
    BY <1>1 DEF Versions
  <2>5. SkillCallFounded(k)'
    BY <1>1, <2>2, <2>3, <2>4 DEF SkillsInv, SkillCallFounded
  <2>6. StoryGoesOn
    BY <2>3, StoryStays DEF SkillsInv
  <2>7. TextGoesOn(k)
    <3> SUFFICES ASSUME ~story.met, ~story'.lost PROVE TextIsCarried(k)' /\ skillCall'[k].pc # "end"
      BY DEF TextGoesOn
    <3>1. disk = Written(k)
      BY <1>1, <2>3 DEF SkillsInv, FileFollows, TextIsCarried, RowAndFileAgree
    <3>2. disk = draft
      BY <2>1, <3>1 DEF Written
    <3> QED
      BY <1>1, <2>1, <2>2, <3>2 DEF TextIsCarried, RowAndFileAgree, Own
  <2> QED
    BY <1>1, <2>2, <2>5, <2>6, <2>7, PlainStep DEF SkillsInv, SkillsTypeOK, At1, Own
<1> QED
  BY <1>2, <1>3

LEMMA SkRegisterStep ==
  ASSUME SkillsInv, NEW k \in SkillCall, Register(k) PROVE SkillsInv'
<1>1. /\ Own(k).pc = "register" /\ UNCHANGED <<verdict, release, disk>>
      /\ skillCall[k] \in SkillCallType /\ Own(k).draft \in Text /\ Own(k).flag \in BOOLEAN
      /\ listed \in [text : Text, active : BOOLEAN]
  BY DEF Register, SkillsInv, SkillsTypeOK, Own, SkillCallType
<1>2. CASE ~Own(k).flag /\ listed.text # NoText
  BY <1>1, <1>2, RefuseStep DEF Register
<1>3. CASE ~(~Own(k).flag /\ listed.text # NoText)
  <2>1. /\ listed' = IF Own(k).flag /\ listed.text = NoText THEN listed
                     ELSE [text |-> Own(k).draft, active |-> Own(k).flag => listed.active]
        /\ IF Own(k).op = "install" THEN Return(k) ELSE Go(k, "mark")
        /\ UNCHANGED story
    BY <1>3 DEF Register
  <2>2. listed' \in [text : Text, active : BOOLEAN]
    <3>1. (Own(k).flag => listed.active) \in BOOLEAN
      OBVIOUS
    <3> QED
      BY <1>1, <2>1, <3>1
  <2>3. StoryGoesOn
    BY <2>1, StoryStays DEF SkillsInv
  <2>4. ~story.met /\ ~story.lost => listed'.text = disk
    <3> SUFFICES ASSUME ~story.met, ~story.lost PROVE listed'.text = disk
      OBVIOUS
    <3>1. disk = Own(k).draft /\ (Own(k).flag <=> listed.text # NoText)
      BY <1>1 DEF SkillsInv, FileFollows, TextIsCarried, RowAndFileAgree
    <3> QED
      BY <2>1, <3>1
  <2>5. CASE Own(k).op = "install"
    <3>1. OnlySkillCall(k) /\ SkillCallFounded(k)' /\ Own(k)' = AtRest
      BY <2>1, <2>5, SkillReturns DEF SkillsInv
    <3>2. TextGoesOn(k)
      BY <1>1, <2>1, <2>4, <3>1 DEF TextGoesOn, TextIsCarried, RowAndFileAgree, AtRest
    <3> QED
      BY <1>1, <2>2, <2>3, <3>1, <3>2, PlainStep DEF SkillsInv, SkillsTypeOK, At1, Own
  <2>6. CASE Own(k).op # "install"
    <3>1. Moved(k, "mark")
      BY <2>1, <2>6, SkillGoes DEF SkillsInv, SkillPc
    <3>2. Versions("stable")' = Versions("stable")
      BY <1>1 DEF Versions
    <3>3. SkillCallFounded(k)'
      BY <1>1, <2>1, <2>6, <3>1, <3>2 DEF SkillsInv, SkillCallFounded, Moved
    <3>4. TextGoesOn(k)
      BY <1>1, <2>1, <2>4, <3>1 DEF TextGoesOn, TextIsCarried, RowAndFileAgree, Moved, Own
    <3> QED
      BY <1>1, <2>2, <2>3, <3>1, <3>3, <3>4, PlainStep DEF SkillsInv, SkillsTypeOK, At1, Own, Moved
  <2> QED
    BY <2>5, <2>6
<1> QED
  BY <1>2, <1>3

(* The calls that remove. *)
LEMMA SkRemoveStep ==
  ASSUME SkillsInv, NEW k \in SkillCall, RemoveDirectory(k) PROVE SkillsInv'
<1>1. Own(k).pc = "remove" /\ UNCHANGED <<verdict, release, listed>>
  BY DEF RemoveDirectory
<1>2. CASE Refuse(k) /\ UNCHANGED disk
  BY <1>1, <1>2, RefuseStep
<1>3. ASSUME NEW pc \in {"file", "unregister"}, Go(k, pc), NEW u \in BOOLEAN, story' = [story EXCEPT !.undeleted = u],
             \/ disk' = NoText /\ (pc = "file" <=> Own(k).op = "install")
             \/ disk' = disk /\ u /\ pc = "unregister" /\ Own(k).op = "delete"
      PROVE  SkillsInv'
  <2>1. Moved(k, pc)
    BY <1>3, SkillGoes DEF SkillsInv, SkillPc
  <2>2. SkillCallFounded(k)'
    <3>1. Versions("stable")' = Versions("stable")
      BY <1>1 DEF Versions
    <3>2. story'.back = story.back
      BY <1>3, DeletedOrNot DEF SkillsInv, StoryGoesOn
    <3> QED
      BY <1>1, <1>3, <2>1, <3>1, <3>2 DEF SkillsInv, SkillCallFounded, Moved
  <2>3. StoryGoesOn /\ story'.undeleted = u
    BY <1>3, DeletedOrNot DEF SkillsInv
  <2>4. TextGoesOn(k)
    BY <1>1, <1>3, <2>1, <2>3 DEF TextGoesOn, TextIsCarried, Moved, Own
  <2>5. disk' \in Text
    BY <1>3 DEF SkillsInv, SkillsTypeOK, Text
  <2> QED
    BY <1>1, <2>1, <2>2, <2>3, <2>4, <2>5, PlainStep DEF SkillsInv, SkillsTypeOK, At1, Own, Moved
<1>4. CASE disk' = NoText /\ story' = [story EXCEPT !.undeleted = FALSE]
           /\ Go(k, IF Own(k).op = "install" THEN "file" ELSE "unregister")
  <2>1. CASE Own(k).op = "install"
    BY <1>3, <1>4, <2>1
  <2>2. CASE Own(k).op # "install"
    BY <1>3, <1>4, <2>2
  <2> QED
    BY <2>1, <2>2
<1>5. CASE /\ Own(k).op = "delete" /\ disk' = disk
           /\ story' = [story EXCEPT !.undeleted = TRUE] /\ Go(k, "unregister")
  BY <1>3, <1>5
<1> QED
  BY <1>2, <1>4, <1>5 DEF RemoveDirectory

LEMMA SkDeleteStep ==
  ASSUME SkillsInv, NEW k \in SkillCall, DeleteReads(k) \/ Unregister(k) PROVE SkillsInv'
<1>1. CASE DeleteReads(k) /\ Return(k)
  BY <1>1, ReturnStep DEF DeleteReads, At1, Own, SkillsInv, SkillsTypeOK
<1>2. CASE DeleteReads(k) /\ Go(k, "remove")
  <2>1. Moved(k, "remove") /\ At1(k, "delete", "read") /\ UNCHANGED <<verdict, release, disk, listed, story>>
    BY <1>2, SkillGoes DEF SkillsInv, SkillPc, DeleteReads
  <2>2. SkillCallFounded(k)'
    BY <2>1 DEF SkillsInv, SkillCallFounded, Moved, At1, Own
  <2> QED
    BY <2>1, <2>2, GoStep DEF At1, Own, SkillPc
<1>3. CASE Unregister(k)
  <2>1. /\ At1(k, "delete", "unregister") /\ UNCHANGED <<verdict, release, disk, story>>
        /\ listed' = [text |-> NoText, active |-> FALSE]
        /\ OnlySkillCall(k) /\ Own(k)' = AtRest /\ SkillCallFounded(k)'
    BY <1>3, SkillReturns DEF Unregister, SkillsInv
  <2>2. StoryGoesOn /\ TextGoesOn(k)
    BY <2>1, StoryStays DEF TextGoesOn, TextIsCarried, RowAndFileAgree, SkillsInv, FileFollows, At1, Own, AtRest, StoryGoesOn
  <2> QED
    BY <2>1, <2>2, PlainStep DEF SkillsInv, SkillsTypeOK, At1, Own, Text
<1> QED
  BY <1>1, <1>2, <1>3 DEF DeleteReads

LEMMA SkInstallStep ==
  ASSUME SkillsInv, NEW k \in SkillCall, InstallReads(k) PROVE SkillsInv'
<1>1. CASE Return(k)
  BY <1>1, ReturnStep DEF InstallReads, At1, Own, SkillsInv, SkillsTypeOK
<1>2. CASE Go(k, "file") \/ Go(k, "remove")
  <2>1. At1(k, "install", "read") /\ UNCHANGED <<verdict, release, disk, listed, story>>
    BY DEF InstallReads
  <2>2. PICK pc \in {"file", "remove"} : Moved(k, pc)
    BY <1>2, SkillGoes DEF SkillsInv, SkillPc
  <2>3. SkillCallFounded(k)'
    BY <2>1, <2>2 DEF SkillsInv, SkillCallFounded, Moved, At1, Own
  <2> QED
    BY <2>1, <2>2, <2>3, GoStep DEF At1, Own, SkillPc
<1> QED
  BY <1>1, <1>2 DEF InstallReads

(* A step that writes a release: the file, the row and the candidates are  *)
(* left alone.                                                             *)
LEMMA ReleaseStep ==
  ASSUME SkillsInv, NEW k \in SkillCall, OnlySkillCall(k), StoryGoesOn, UNCHANGED <<verdict, disk, listed>>,
         Own(k).pc \notin {"end", "file", "find", "register", "unregister"},
         Own(k)'.pc \notin {"find", "register", "unregister"}, story'.undeleted = story.undeleted,
         ReleasesStay, Dense', StageIsServed', SyncedHadText', SkillCallFounded(k)'
  PROVE  SkillsInv'
<1>1. SkillsTypeOK'
  BY DEF SkillsInv, SkillsTypeOK, OnlySkillCall, StoryGoesOn, ReleasesStay
<1>2. \A j \in SkillCall : SkillCallFounded(j)'
  BY SkillCallStays DEF SkillsInv, SkillsTypeOK, OnlySkillCall, StoryGoesOn
<1>3. TextGoesOn(k)
  BY DEF TextGoesOn, TextIsCarried, RowAndFileAgree, SkillsInv, FileFollows, StoryGoesOn
<1> QED
  BY <1>1, <1>2, <1>3, FileFollowsOn DEF SkillsInv

(* Which releases there are, and of which candidate, is the same. *)
LEMMA SameReleases ==
  ASSUME SkillsInv, \A s \in Stage, v \in Version : release'[<<s, v>>].draft = release[<<s, v>>].draft
  PROVE  Dense' /\ \A s \in Stage : Versions(s)' = Versions(s)
<1>1. \A s \in Stage : Versions(s)' = Versions(s)
  BY DEF Versions
<1> QED
  BY <1>1 DEF SkillsInv, Dense

LEMMA SkDeactivateStep ==
  ASSUME SkillsInv, NEW k \in SkillCall, Deactivate(k) PROVE SkillsInv'
<1>1. /\ At1(k, "promote", "deactivate") /\ UNCHANGED <<verdict, disk, listed, story>>
      /\ release \in [Stage \X Version -> [draft : Draft \cup {NoText}, active : BOOLEAN, synced : BOOLEAN]]
      /\ skillCall[k] \in SkillCallType /\ Own(k).stage \in Stage
  BY DEF Deactivate, SkillsInv, SkillsTypeOK, SkillCallType, Own
<1>2. Moved(k, "insert")
  BY SkillGoes DEF Deactivate, SkillsInv, SkillPc
<1>3. \A r \in [draft : Draft \cup {NoText}, active : BOOLEAN, synced : BOOLEAN] :
        /\ [r EXCEPT !.active = FALSE] \in [draft : Draft \cup {NoText}, active : BOOLEAN, synced : BOOLEAN]
        /\ [r EXCEPT !.active = FALSE].draft = r.draft /\ [r EXCEPT !.active = FALSE].synced = r.synced
  OBVIOUS
<1>4. \A s \in Stage, v \in Version :
        release'[<<s, v>>] = IF s = Own(k).stage THEN [release[<<s, v>>] EXCEPT !.active = FALSE] ELSE release[<<s, v>>]
  BY <1>1 DEF Deactivate
<1>5. release' \in [Stage \X Version -> [draft : Draft \cup {NoText}, active : BOOLEAN, synced : BOOLEAN]]
  <2>1. DOMAIN release = Stage \X Version
    BY <1>1
  <2>2. \A r \in Stage \X Version : [release[r] EXCEPT !.active = FALSE]
                                      \in [draft : Draft \cup {NoText}, active : BOOLEAN, synced : BOOLEAN]
    BY <1>1, <1>3
  <2> QED
    BY <1>1, <2>1, <2>2 DEF Deactivate
<1>6. \A s \in Stage, v \in Version : release'[<<s, v>>].draft = release[<<s, v>>].draft
                                      /\ release'[<<s, v>>].synced = release[<<s, v>>].synced
  <2> SUFFICES ASSUME NEW s \in Stage, NEW v \in Version
               PROVE  release'[<<s, v>>].draft = release[<<s, v>>].draft /\ release'[<<s, v>>].synced = release[<<s, v>>].synced
    OBVIOUS
  <2>1. PICK r \in [draft : Draft \cup {NoText}, active : BOOLEAN, synced : BOOLEAN] : r = release[<<s, v>>]
    BY <1>1
  <2>2. release'[<<s, v>>] = [r EXCEPT !.active = FALSE] \/ release'[<<s, v>>] = r
    BY <1>4, <2>1
  <2> QED
    BY <1>3, <2>1, <2>2
<1>7. Dense' /\ \A s \in Stage : Versions(s)' = Versions(s)
  BY <1>6, SameReleases
<1>8. ReleasesStay /\ SyncedHadText'
  BY <1>5, <1>6 DEF ReleasesStay, SyncedHadText, SkillsInv
<1>9. StoryGoesOn
  BY <1>1, StoryStays DEF SkillsInv
<1>10. StageIsServed'
  <2> SUFFICES ASSUME NEW s \in Stage, Versions(s) # {}, ~story.back, ~story.lost
               PROVE  \/ ActiveIn(s)' = {Newest(Versions(s))}
                      \/ \E j \in SkillCall : /\ skillCall'[j].op = "promote" /\ skillCall'[j].pc = "insert"
                                              /\ skillCall'[j].stage = s
    BY <1>1, <1>7 DEF StageIsServed
  <2>1. CASE s = Own(k).stage
    BY <1>1, <1>2, <2>1 DEF Moved, At1, Own
  <2>2. CASE s # Own(k).stage
    <3>1. ActiveIn(s)' = ActiveIn(s)
      BY <1>4, <2>2 DEF ActiveIn
    <3>2. \A j \in SkillCall : skillCall[j].pc = "insert" => skillCall'[j] = skillCall[j]
      BY <1>1, <1>2 DEF Moved, OnlySkillCall, At1
    <3> QED
      BY <3>1, <3>2 DEF SkillsInv, StageIsServed
  <2> QED
    BY <2>1, <2>2
<1>11. SkillCallFounded(k)'
  <2>1. Versions(Own(k).stage) \subseteq Versions(Own(k).stage)'
    BY <1>2, <1>6, <1>1 DEF Versions, Moved
  <2> QED
    BY <1>1, <1>2, <2>1 DEF SkillsInv, SkillCallFounded, Moved, At1, Own
<1> QED
  BY <1>1, <1>2, <1>7, <1>8, <1>9, <1>10, <1>11, ReleaseStep DEF Moved, At1, Own

LEMMA SkInsertStep ==
  ASSUME SkillsInv, NEW k \in SkillCall, InsertRelease(k) PROVE SkillsInv'
<1>1. /\ At1(k, "promote", "insert") /\ UNCHANGED <<verdict, disk, listed>>
      /\ release \in [Stage \X Version -> [draft : Draft \cup {NoText}, active : BOOLEAN, synced : BOOLEAN]]
      /\ skillCall[k] \in SkillCallType /\ Own(k).stage \in Stage /\ Own(k).version \in Version /\ Own(k).draft \in Draft
      /\ Own(k).op = "promote" /\ Own(k).pc = "insert"
      /\ \A v \in Version : v < Own(k).version => v \in Versions(Own(k).stage)
  BY DEF InsertRelease, SkillsInv, SkillsTypeOK, SkillCallType, Own, At1, SkillCallFounded
<1>2. CASE Refuse(k) /\ UNCHANGED release
  BY <1>1, <1>2, RefuseStep
<1>3. CASE ~(Refuse(k) /\ UNCHANGED release)
  <2>0. PICK S \in Stage, V \in Version, Row \in [draft : Draft \cup {NoText}, active : BOOLEAN, synced : BOOLEAN] :
          S = Own(k).stage /\ V = Own(k).version /\ Row = [draft |-> Own(k).draft, active |-> TRUE, synced |-> FALSE]
    BY <1>1
  <2>1. /\ release[<<S, V>>].draft = NoText /\ ActiveIn(S) = {}
        /\ release' = [release EXCEPT ![<<S, V>>] = Row]
        /\ Go(k, AfterRelease(k)) /\ story' = story
    BY <1>3, <2>0 DEF InsertRelease
  <2>2. Row \in [draft : Draft \cup {NoText}, active : BOOLEAN, synced : BOOLEAN]
        /\ Row.draft \in Draft /\ Row.draft # NoText /\ Row.active = TRUE /\ Row.synced = FALSE
    BY <1>1, <2>0, SkillsAssumption DEF NoText
  <2>3. /\ release' \in [Stage \X Version -> [draft : Draft \cup {NoText}, active : BOOLEAN, synced : BOOLEAN]]
        /\ release'[<<S, V>>] = Row
        /\ \A s \in Stage, v \in Version : s # S \/ v # V => release'[<<s, v>>] = release[<<s, v>>]
    BY <1>1, <2>1, <2>2
  <2>4. S = Own(k).stage /\ V = Own(k).version
    BY <2>0
  <2>5. Versions(S)' = Versions(S) \cup {V} /\ V \notin Versions(S)
    BY <2>1, <2>2, <2>3, <2>4 DEF Versions
  <2>6. \A s \in Stage : s # S => Versions(s)' = Versions(s) /\ ActiveIn(s)' = ActiveIn(s)
    BY <2>3 DEF Versions, ActiveIn
  <2>7. PICK n \in 0..MaxVersion : Versions(S) = 1..n
    BY <2>4 DEF SkillsInv, Dense
  <2>8. V = n + 1
    <3>1. n \in Nat /\ V \in Nat /\ V >= 1 /\ V <= MaxVersion /\ MaxVersion \in Nat
      BY <2>4, SkillsAssumption DEF Version
    <3>2. ~(V \in 1..n)
      BY <2>5, <2>7
    <3>3. \A v \in Version : v < V => v \in 1..n
      BY <1>1, <2>4, <2>7
    <3>4. n + 1 < V => n + 1 \in Version
      BY <3>1 DEF Version
    <3>5. ~(n + 1 < V)
      <4> SUFFICES ASSUME n + 1 < V PROVE FALSE
        OBVIOUS
      <4>1. n + 1 \in 1..n
        BY <3>3, <3>4
      <4> QED
        BY <3>1, <4>1
    <3> QED
      BY <3>1, <3>2, <3>5
  <2>9. Versions(S)' = 1..(n + 1) /\ n + 1 \in 0..MaxVersion
    <3>1. V <= MaxVersion /\ n \in Nat /\ MaxVersion \in Nat
      BY <2>4, SkillsAssumption DEF Version
    <3>2. (1..n) \cup {n + 1} = 1..(n + 1)
      BY <3>1
    <3> QED
      BY <2>5, <2>7, <2>8, <3>1, <3>2
  <2>10. Dense'
    <3> SUFFICES ASSUME NEW s \in Stage PROVE \E m \in 0..MaxVersion : Versions(s)' = 1..m
      BY DEF Dense
    <3>1. CASE s = S
      BY <2>9, <3>1
    <3>2. CASE s # S
      BY <2>6, <3>2 DEF SkillsInv, Dense
    <3> QED
      BY <3>1, <3>2
  <2>11. ReleasesStay
    BY <2>1, <2>3, <2>4 DEF ReleasesStay
  <2>12. SyncedHadText'
    <3> SUFFICES ASSUME NEW v \in Version, NEW s \in Stage, release'[<<s, v>>].synced
                 PROVE  s = "stable" /\ PayloadOf[release'[<<s, v>>].draft] = "text"
      BY DEF SyncedHadText
    <3>1. s # S \/ v # V
      BY <2>2, <2>3
    <3> QED
      BY <2>3, <3>1 DEF SkillsInv, SyncedHadText
  <2>13. PICK pc \in {"payload", "promoted"} : pc = AfterRelease(k)
    BY DEF AfterRelease
  <2>14. Moved(k, pc)
    BY <2>1, <2>13, SkillGoes DEF SkillsInv, SkillPc
  <2>15. ActiveIn(S)' = {V}
    BY <2>1, <2>2, <2>3, <2>4 DEF ActiveIn
  <2>16. StageIsServed'
    <3> SUFFICES ASSUME NEW s \in Stage, Versions(s)' # {}, ~story.back, ~story.lost
                 PROVE  \/ ActiveIn(s)' = {Newest(Versions(s)')}
                        \/ \E j \in SkillCall : /\ skillCall'[j].op = "promote" /\ skillCall'[j].pc = "insert"
                                                /\ skillCall'[j].stage = s
      BY <2>1 DEF StageIsServed, Newest
    <3>1. CASE s = S
      <4>1. n + 1 \in Nat
        BY <2>7, SkillsAssumption
      <4>2. Newest(1..(n + 1)) = n + 1
        BY <4>1, NewestOfInterval
      <4> QED
        BY <2>8, <2>9, <2>15, <3>1, <4>2
    <3>2. CASE s # S
      <4>1. ActiveIn(s)' = ActiveIn(s) /\ Versions(s)' = Versions(s)
        BY <2>6, <3>2
      <4>2. \A j \in SkillCall : skillCall[j].stage = s => j # k
        BY <2>4, <3>2 DEF Own
      <4>3. \A j \in SkillCall : skillCall[j].stage = s => skillCall'[j] = skillCall[j]
        BY <2>14, <4>2 DEF Moved, OnlySkillCall
      <4> QED
        BY <4>1, <4>3 DEF SkillsInv, StageIsServed
    <3> QED
      BY <3>1, <3>2
  <2>17. SkillCallFounded(k)'
    <3>1. V \in Versions(S)'
      BY <2>5
    <3>3. V \in Versions(Own(k).stage)' /\ Own(k)'.stage = S
      BY <2>4, <2>14, <3>1 DEF Moved, Versions
    <3>2. pc = "payload" => S = "stable"
      BY <2>4, <2>13 DEF AfterRelease
    <3> QED
      BY <1>1, <2>4, <2>14, <3>1, <3>2, <3>3 DEF SkillCallFounded, Moved
  <2>18. StoryGoesOn
    BY <2>1, StoryStays DEF SkillsInv
  <2> QED
    BY <1>1, <2>1, <2>10, <2>11, <2>12, <2>14, <2>16, <2>17, <2>18, ReleaseStep DEF Moved
<1> QED
  BY <1>2, <1>3

LEMMA SkMarkSyncedStep ==
  ASSUME SkillsInv, NEW k \in SkillCall, MarkSynced(k) PROVE SkillsInv'
<1>1. /\ Own(k).pc = "mark" /\ UNCHANGED <<verdict, disk, listed, story>>
      /\ release \in [Stage \X Version -> [draft : Draft \cup {NoText}, active : BOOLEAN, synced : BOOLEAN]]
      /\ Own(k).stage = "stable" /\ Own(k).version \in Version /\ "stable" \in Stage
      /\ PayloadOf[release[<<"stable", Own(k).version>>].draft] = "text"
      /\ OnlySkillCall(k) /\ Own(k)' = AtRest /\ SkillCallFounded(k)'
  BY SkillReturns DEF MarkSynced, SkillsInv, SkillsTypeOK, SkillCallFounded, Stage
<1>2. release' = [release EXCEPT ![<<"stable", Own(k).version>>].synced = TRUE]
  BY <1>1 DEF MarkSynced
<1>3. /\ release' \in [Stage \X Version -> [draft : Draft \cup {NoText}, active : BOOLEAN, synced : BOOLEAN]]
      /\ \A s \in Stage, v \in Version :
           /\ release'[<<s, v>>].draft = release[<<s, v>>].draft
           /\ release'[<<s, v>>].active = release[<<s, v>>].active
           /\ s # "stable" \/ v # Own(k).version => release'[<<s, v>>] = release[<<s, v>>]
  BY <1>1, <1>2, ZenonT(60)
<1>4. Dense' /\ \A s \in Stage : Versions(s)' = Versions(s) /\ ActiveIn(s)' = ActiveIn(s)
  BY <1>3, SameReleases DEF ActiveIn
<1>5. ReleasesStay
  BY <1>3 DEF ReleasesStay
<1>6. SyncedHadText'
  <2> SUFFICES ASSUME NEW v \in Version, NEW s \in Stage, release'[<<s, v>>].synced
               PROVE  s = "stable" /\ PayloadOf[release'[<<s, v>>].draft] = "text"
    BY DEF SyncedHadText
  <2>1. CASE s = "stable" /\ v = Own(k).version
    BY <1>1, <1>3, <2>1
  <2>2. CASE ~(s = "stable" /\ v = Own(k).version)
    BY <1>3, <2>2 DEF SkillsInv, SyncedHadText
  <2> QED
    BY <2>1, <2>2
<1>7. \A j \in SkillCall : skillCall[j].pc = "insert" => skillCall'[j] = skillCall[j]
  BY <1>1 DEF OnlySkillCall, Own
<1>8. StageIsServed'
  BY <1>1, <1>4, <1>7 DEF SkillsInv, StageIsServed
<1>9. StoryGoesOn
  BY <1>1, StoryStays DEF SkillsInv
<1> QED
  BY <1>1, <1>4, <1>5, <1>6, <1>8, <1>9, ReleaseStep, SMTT(60) DEF AtRest

(* After a rollback no stage is promised to be served. *)
LEMMA SkRollbackStep ==
  ASSUME SkillsInv, NEW k \in SkillCall, Rollback(k) \/ Restore(k) PROVE SkillsInv'
<1>1. /\ Own(k).op = "rollback" /\ Own(k).pc \in {"read", "restore"} /\ UNCHANGED <<verdict, disk, listed>>
      /\ release \in [Stage \X Version -> [draft : Draft \cup {NoText}, active : BOOLEAN, synced : BOOLEAN]]
      /\ skillCall[k] \in SkillCallType /\ Own(k).stage \in Stage /\ Own(k).version \in Version /\ story.back
  BY DEF Rollback, Restore, SkillsInv, SkillsTypeOK, SkillCallType, Own, At1, SkillCallFounded
<1>2. CASE Refuse(k) /\ UNCHANGED release
  BY <1>1, <1>2, RefuseStep
<1>3. ASSUME NEW v \in Version,
             \/ release' = release
             \/ release' = [release EXCEPT ![<<Own(k).stage, v>>].active = TRUE]
             \/ release' = [release EXCEPT ![<<Own(k).stage, v>>].active = FALSE],
             story' = story, OnlySkillCall(k), SkillCallFounded(k)', Own(k)'.pc \in {"restore", "end"}
      PROVE  SkillsInv'
  <2>1. /\ release' \in [Stage \X Version -> [draft : Draft \cup {NoText}, active : BOOLEAN, synced : BOOLEAN]]
        /\ \A s \in Stage, w \in Version :
             /\ release'[<<s, w>>].draft = release[<<s, w>>].draft
             /\ release'[<<s, w>>].synced = release[<<s, w>>].synced
    <3>1. CASE release' = [release EXCEPT ![<<Own(k).stage, v>>].active = TRUE]
      BY <1>1, <3>1, ZenonT(60)
    <3>2. CASE release' = [release EXCEPT ![<<Own(k).stage, v>>].active = FALSE]
      BY <1>1, <3>2, ZenonT(60)
    <3>3. CASE release' = release
      BY <1>1, <3>3
    <3> QED
      BY <1>3, <3>1, <3>2, <3>3
  <2>2. Dense' /\ SyncedHadText' /\ ReleasesStay
    BY <2>1, SameReleases DEF ReleasesStay, SyncedHadText, SkillsInv
  <2>3. StageIsServed' /\ StoryGoesOn
    BY <1>1, <1>3, StoryStays DEF StageIsServed, SkillsInv
  <2> QED
    BY <1>1, <1>3, <2>2, <2>3, ReleaseStep
<1>4. CASE Rollback(k)
  <2>1. Moved(k, "restore")
    BY <1>4, SkillGoes DEF Rollback, SkillsInv, SkillPc
  <2>2. story' = story /\ release' = [release EXCEPT ![<<Own(k).stage, Own(k).version>>].active = FALSE]
    BY <1>4 DEF Rollback
  <2>3. SkillCallFounded(k)'
    BY <1>1, <2>1, <2>2 DEF SkillCallFounded, Moved
  <2> QED
    BY <1>1, <1>3, <2>1, <2>2, <2>3 DEF Moved
<1>5. CASE Restore(k) /\ ~(Refuse(k) /\ UNCHANGED release)
  <2> DEFINE S == Own(k).stage
             Lower == {v \in Versions(S) : v < Own(k).version}
  <2>1. /\ release' = IF Newest(Lower) = 0 THEN release ELSE [release EXCEPT ![<<S, Newest(Lower)>>].active = TRUE]
        /\ Return(k) /\ story' = story
    BY <1>5 DEF Restore
  <2>2. OnlySkillCall(k) /\ SkillCallFounded(k)' /\ Own(k)'.pc = "end"
    BY <2>1, SkillReturns DEF SkillsInv, Own
  <2>3. Newest(Lower) \in {0} \cup Version
    <3>1. PICK n \in 0..MaxVersion : Versions(S) = 1..n
      BY <1>1 DEF SkillsInv, Dense
    <3>2. n \in Nat /\ Own(k).version \in Nat /\ Own(k).version >= 1 /\ MaxVersion \in Nat
      BY <1>1, <3>1, SkillsAssumption DEF Version
    <3>3. PICK m \in 0..MaxVersion : m = IF n < Own(k).version THEN n ELSE Own(k).version - 1
      BY <3>1, <3>2
    <3>4. Lower = 1..m
      BY <3>1, <3>2, <3>3
    <3>5. m \in Nat
      BY <3>2, <3>3
    <3> HIDE DEF Lower
    <3>6. Newest(Lower) = m
      BY <3>4, <3>5, NewestOfInterval
    <3> QED
      BY <3>2, <3>3, <3>6 DEF Version
  <2> HIDE DEF Lower
  <2>4. CASE Newest(Lower) = 0
    BY <1>1, <1>3, <2>1, <2>2, <2>4
  <2>5. CASE Newest(Lower) # 0
    BY <1>1, <1>3, <2>1, <2>2, <2>3, <2>5
  <2> QED
    BY <2>4, <2>5
<1> QED
  BY <1>2, <1>4, <1>5

LEMMA SkBeginStep ==
  ASSUME SkillsInv, NEW k \in SkillCall, BeginCall(k) PROVE SkillsInv'
<1>1. PICK op \in {"evaluate", "promote", "rollback", "sync", "delete", "install"}, pc \in {"read", "payload"},
           draft \in Text, stage \in Stage, version \in 0..MaxVersion, flag \in BOOLEAN :
        /\ Begin(k, op, pc, draft, stage, version, flag)
        /\ op \in {"evaluate", "promote"} => draft \in Draft
        /\ op = "rollback" => version \in Version
        /\ pc = "payload" => stage = "stable" /\ version \in Version /\ version \in Versions("stable")
  <2> USE DEF Version
  <2>1. 0 \in 0..MaxVersion /\ Version \subseteq 0..MaxVersion /\ "canary" \in Stage /\ "stable" \in Stage
        /\ NoText \in Text /\ Upload \in Text /\ Draft \subseteq Text
    BY SkillsAssumption DEF Stage, Text
  <2>2. CASE \E d \in Draft, passed \in BOOLEAN : Begin(k, "evaluate", "read", d, "canary", 0, passed)
    BY <2>1, <2>2
  <2>3. CASE \E d \in Draft, s \in Stage, sync \in BOOLEAN : Begin(k, "promote", "read", d, s, 0, sync)
    BY <2>1, <2>3
  <2>4. CASE \E s \in Stage, v \in Version : Has(s, v) /\ Begin(k, "rollback", "read", NoText, s, v, FALSE)
    BY <2>1, <2>4
  <2>5. CASE \E v \in Version : Has("stable", v)
                                /\ Begin(k, "sync", "payload", release[<<"stable", v>>].draft, "stable", v, TRUE)
    <3>1. PICK v \in Version : Has("stable", v)
                                /\ Begin(k, "sync", "payload", release[<<"stable", v>>].draft, "stable", v, TRUE)
      BY <2>5
    <3>2. release[<<"stable", v>>].draft \in Text /\ v \in Versions("stable")
      BY <2>1, <3>1 DEF SkillsInv, SkillsTypeOK, Text, Has, Versions
    <3> QED
      BY <2>1, <3>1, <3>2
  <2>6. CASE Begin(k, "delete", "read", NoText, "canary", 0, FALSE)
    BY <2>1, <2>6
  <2>7. CASE \E overwrite \in BOOLEAN : Begin(k, "install", "read", Upload, "canary", 0, overwrite)
    BY <2>1, <2>7
  <2> QED
    BY <2>2, <2>3, <2>4, <2>5, <2>6, <2>7 DEF BeginCall
<1>2. PICK q : q = [op |-> op, pc |-> pc, draft |-> draft, stage |-> stage, version |-> version, flag |-> flag]
  OBVIOUS
<1>3. version \in 0..MaxVersion + 1
  BY SkillsAssumption
<1>4. /\ q \in SkillCallType /\ q.op = op /\ q.pc = pc /\ q.draft = draft /\ q.stage = stage /\ q.version = version
  BY <1>2, <1>3 DEF SkillCallType, SkillPc
<1>5. /\ skillCall[k] = AtRest /\ story.calls < MaxSkillCalls /\ skillCall' = [skillCall EXCEPT ![k] = q]
      /\ UNCHANGED <<verdict, release, disk, listed>>
      /\ story' = [story EXCEPT !.calls = story.calls + 1, !.back = story.back \/ op = "rollback",
                                !.met = story.met \/ \E j \in SkillCall : skillCall[j] # AtRest]
  BY <1>1, <1>2 DEF Begin
<1>6. /\ story' \in [calls : 0..MaxSkillCalls, met : BOOLEAN, lost : BOOLEAN, back : BOOLEAN, undeleted : BOOLEAN]
      /\ story'.lost = story.lost /\ story'.undeleted = story.undeleted
      /\ story'.back <=> story.back \/ op = "rollback"
      /\ story'.met <=> story.met \/ \E j \in SkillCall : skillCall[j] # AtRest
  <2>1. story \in [calls : 0..MaxSkillCalls, met : BOOLEAN, lost : BOOLEAN, back : BOOLEAN, undeleted : BOOLEAN]
    BY DEF SkillsInv, SkillsTypeOK
  <2>2. story.calls + 1 \in 0..MaxSkillCalls
    BY <1>5, <2>1, SkillsAssumption
  <2>3. PICK back \in BOOLEAN : back = (story.back \/ op = "rollback")
    OBVIOUS
  <2>4. PICK met \in BOOLEAN : met = (story.met \/ \E j \in SkillCall : skillCall[j] # AtRest)
    OBVIOUS
  <2>5. PICK n \in 0..MaxSkillCalls : n = story.calls + 1
    BY <2>2
  <2>6. story' = [story EXCEPT !.calls = n, !.back = back, !.met = met]
    BY <1>5, <2>3, <2>4, <2>5
  <2> QED
    BY <2>1, <2>3, <2>4, <2>6
<1>7. OnlySkillCall(k) /\ Own(k)' = q
  BY <1>4, <1>5 DEF OnlySkillCall, Own, SkillsInv, SkillsTypeOK
<1>8. SkillsTypeOK'
  BY <1>5, <1>6, <1>7 DEF SkillsInv, SkillsTypeOK, OnlySkillCall
<1>9. Dense' /\ SyncedHadText' /\ \A s \in Stage : Versions(s)' = Versions(s) /\ ActiveIn(s)' = ActiveIn(s)
  BY <1>5 DEF SkillsInv, Dense, SyncedHadText, Versions, ActiveIn
<1>10. StageIsServed'
  <2>1. \A j \in SkillCall : skillCall[j].pc = "insert" => skillCall'[j] = skillCall[j]
    BY <1>5, <1>7 DEF OnlySkillCall, AtRest
  <2> QED
    BY <1>6, <1>9, <2>1 DEF SkillsInv, StageIsServed
<1>11. SkillCallFounded(k)'
  <2>1. Versions("stable")' = Versions("stable")
    BY <1>5 DEF Versions
  <2> QED
    BY <1>1, <1>4, <1>6, <1>7, <2>1 DEF SkillCallFounded
<1>12. \A j \in SkillCall : j # k => SkillCallFounded(j)'
  BY <1>5, <1>6, <1>7, SkillCallStays DEF OnlySkillCall, ReleasesStay, SkillsInv, SkillsTypeOK
<1>13. FileFollows'
  <2> SUFFICES ASSUME ~story'.met, ~story'.lost PROVE FileFollows'
    BY DEF FileFollows
  <2>1. ~story.met /\ ~story.lost /\ \A j \in SkillCall : skillCall[j] = AtRest
    BY <1>6
  <2>2. RowAndFileAgree /\ RowAndFileAgree'
    BY <1>5, <1>6, <2>1 DEF SkillsInv, FileFollows, RowAndFileAgree, AtRest, Own
  <2>3. \A j \in SkillCall : j # k => Own(j)'.pc = "end"
    BY <1>7, <2>1 DEF OnlySkillCall, AtRest, Own
  <2>4. \A j \in SkillCall : TextIsCarried(j)'
    BY <1>4, <1>5, <1>7, <2>2, <2>3 DEF TextIsCarried
  <2> QED
    BY <1>5, <2>2, <2>3, <2>4 DEF FileFollows
<1> QED
  BY <1>8, <1>9, <1>10, <1>11, <1>12, <1>13 DEF SkillsInv

LEMMA SkOutsideStep ==
  ASSUME SkillsInv, SetActive \/ ApiDies PROVE SkillsInv'
<1>1. CASE SetActive
  <2>1. listed' \in [text : Text, active : BOOLEAN] /\ listed'.text = listed.text
    <3>1. listed \in [text : Text, active : BOOLEAN]
      BY DEF SkillsInv, SkillsTypeOK
    <3>2. PICK b \in BOOLEAN : listed' = [listed EXCEPT !.active = b]
      BY <1>1, <3>1 DEF SetActive
    <3> QED
      BY <3>1, <3>2
  <2>2. UNCHANGED <<verdict, release, disk, skillCall, story>>
    BY <1>1 DEF SetActive
  <2>3. SkillsTypeOK'
    BY <2>1, <2>2 DEF SkillsInv, SkillsTypeOK
  <2>4. Dense' /\ StageIsServed' /\ SyncedHadText'
    BY <2>2, SMTT(60) DEF SkillsInv, Dense, StageIsServed, SyncedHadText, Versions, ActiveIn
  <2>5. FileFollows'
    BY <2>1, <2>2 DEF SkillsInv, FileFollows, TextIsCarried, RowAndFileAgree, Written, Synced, Own
  <2>6. \A k \in SkillCall : SkillCallFounded(k)'
    BY <2>2, SMTT(60) DEF SkillsInv, SkillCallFounded, Own, Versions
  <2> QED
    BY <2>3, <2>4, <2>5, <2>6 DEF SkillsInv
<1>2. CASE ApiDies
  <2>1. AtRest \in SkillCallType /\ AtRest.pc = "end" /\ AtRest.op = "idle"
    BY SkillsAssumption DEF AtRest, SkillCallType, SkillPc, Text, NoText, Stage
  <2>2. /\ skillCall' \in [SkillCall -> SkillCallType] /\ \A k \in SkillCall : skillCall'[k] = AtRest
        /\ UNCHANGED <<verdict, release, disk, listed>>
    BY <1>2, <2>1 DEF ApiDies
  <2>3. story' \in [calls : 0..MaxSkillCalls, met : BOOLEAN, lost : BOOLEAN, back : BOOLEAN, undeleted : BOOLEAN] /\ story'.lost
    BY <1>2 DEF ApiDies, SkillsInv, SkillsTypeOK
  <2>4. SkillsTypeOK'
    BY <2>2, <2>3 DEF SkillsInv, SkillsTypeOK
  <2>5. Dense' /\ StageIsServed' /\ SyncedHadText' /\ FileFollows'
    BY <2>2, <2>3 DEF SkillsInv, Dense, StageIsServed, SyncedHadText, Versions, FileFollows
  <2>6. \A k \in SkillCall : SkillCallFounded(k)'
    BY <2>1, <2>2 DEF SkillCallFounded, Own
  <2> QED
    BY <2>4, <2>5, <2>6 DEF SkillsInv
<1> QED
  BY <1>1, <1>2

LEMMA SkillsStep == SkillsInv /\ [SkillsNext]_skillVars => SkillsInv'
<1> SUFFICES ASSUME SkillsInv, [SkillsNext]_skillVars PROVE SkillsInv'
  OBVIOUS
<1>1. ASSUME NEW k \in SkillCall, SkillStep(k) PROVE SkillsInv'
  BY <1>1, SkEvaluateStep, SkPromoteReadsStep, SkNextVersionStep, SkLookStep, SkDeactivateStep, SkInsertStep,
     SkMarkPromotedStep, SkReadPayloadStep, SkWriteFileStep, SkFindRowStep, SkRegisterStep, SkMarkSyncedStep,
     SkRollbackStep, SkRemoveStep, SkDeleteStep, SkInstallStep DEF SkillStep
<1>2. ASSUME NEW k \in SkillCall, BeginCall(k) PROVE SkillsInv'
  BY <1>2, SkBeginStep
<1>3. CASE SetActive \/ ApiDies
  BY <1>3, SkOutsideStep
<1>4. CASE UNCHANGED skillVars
  <2>1. UNCHANGED <<verdict, release, disk, listed, skillCall, story>>
    BY <1>4 DEF skillVars
  <2>2. SkillsTypeOK'
    BY <2>1 DEF SkillsInv, SkillsTypeOK
  <2>3. Dense' /\ StageIsServed' /\ SyncedHadText'
    BY <2>1 DEF SkillsInv, Dense, StageIsServed, SyncedHadText, Versions, ActiveIn
  <2>4. FileFollows'
    BY <2>1 DEF SkillsInv, FileFollows, TextIsCarried, RowAndFileAgree, Written, Synced, Own
  <2>5. \A k \in SkillCall : SkillCallFounded(k)'
    BY <2>1, SMTT(60) DEF SkillsInv, SkillCallFounded, Own, Versions
  <2> QED
    BY <2>2, <2>3, <2>4, <2>5 DEF SkillsInv
<1> QED
  BY <1>1, <1>2, <1>3, <1>4 DEF SkillsNext

(* One skill (lifecycle.ts, skill-manager.ts): its versions have no gap,   *)
(* its stages are served, what is marked as synced had a text, and alone   *)
(* calls leave row and file agreeing; for any candidates, payloads, calls  *)
(* and versions.                                                           *)
THEOREM SkillsAreInOrder == SkillsSpec => []SkillsInvariant
BY SkillsInitInv, SkillsStep, SkillsInvImplies, PTL DEF SkillsSpec

\* What a sequence holds.
LEMMA ElementsOf == ASSUME NEW T, NEW s \in Seq(T), NEW i \in DOMAIN s PROVE s[i] \in T
OBVIOUS

-----------------------------------------------------------------------------
(* Answers and reviews. What was told of a completion stays true because a *)
(* completed row is never written again, and the request that was told     *)
(* does nothing more; one item is active because the index refuses a       *)
(* second and a completion puts one in the place of another.               *)
LEMMA FirstOfNumbers == ASSUME NEW S \in SUBSET Nat, S # {} PROVE Min(S) \in S /\ \A m \in S : Min(S) <= m
<1>1. PICK n \in S : \A m \in S : ~ (<<m, n>> \in OpToRel(<, Nat))
  BY NatLessThanWellFounded, WFMin, Zenon
<1>2. \A m \in S : ~ (m < n)
  BY <1>1 DEF OpToRel
<1>3. \E x \in S : \A y \in S : x <= y
  BY <1>2
<1> QED
  BY <1>3, Zenon DEF Min

ReviewRow == [status : {"none", "active", "completed"}, days : {0, 1, 2, 4, 8, 15},
              correct : Judgement \cup {"none"}, next : 0..MaxReviews]

ReviewsInv(items) ==
  /\ items \in [Review -> ReviewRow]
  /\ \A v, w \in Review : items[v].status = "active" /\ items[w].status = "active" => v = w
  /\ (\E v \in Review : items[v].status = "completed") => \E v \in Review : items[v].status = "active"

\* What a request has read can still be counted up, and what it is told is on record.
Counts(practice) == practice \in Practice /\ practice.streak <= practice.right
RequestInv(q, t, items) ==
  /\ q.at \in {"write", "schedule", "insert"} => q.judgement \in Judgement
  /\ Counts(q.seen)
  /\ q.at \in {"write", "schedule", "insert", "complete"} => CanCount(q.seen)
  /\ q.at \in {"complete", "replay"} => q.judgement \in Judgement /\ q.review \in Review
  /\ q.at = "complete" => items[q.review].status # "none"
  /\ q.at = "known" => q.judgement \in Judgement /\ (q.review # 0 => q.review \in Review /\ items[q.review].status # "none")
  /\ q.at = "replay" => items[q.review].status = "completed"
  /\ t.next # 0 =>
       /\ q.at = "done" /\ q.review \in Review
       /\ items[q.review].status = "completed" /\ items[q.review].correct = q.judgement /\ items[q.review].next = t.next

LearningInv ==
  /\ LearningTypeOK /\ Counts(known)
  /\ ReviewsInv(reviews)
  /\ \A r \in Request : RequestInv(request[r], reply[r], reviews)

LEMMA LearningInitInv == LearningInit => LearningInv
<1> SUFFICES ASSUME LearningInit PROVE LearningInv
  OBVIOUS
<1> USE LearningAssumption
<1>1. Blank \in Practice /\ Counts(Blank)
  BY DEF Blank, Practice, Counts
<1>2. NoReview \in ReviewRow
  BY DEF NoReview, ReviewRow
<1>3. LearningTypeOK
  BY <1>1, <1>2 DEF LearningInit, LearningTypeOK, NoReview, Idle, NoReply, Review
<1>4. ReviewsInv(reviews)
  <2>1. NoReview.status = "none"
    BY DEF NoReview
  <2> QED
    BY <1>2, <2>1 DEF LearningInit, ReviewsInv
<1>5. \A r \in Request : RequestInv(request[r], reply[r], reviews)
  BY <1>1 DEF LearningInit, RequestInv, Idle, NoReply
<1> QED
  BY <1>1, <1>3, <1>4, <1>5 DEF LearningInit, LearningInv

LEMMA AfterIsCounted ==
  ASSUME NEW practice, Counts(practice), CanCount(practice), NEW j \in Judgement
  PROVE  Counts(After(practice, j)) /\ Days(j, After(practice, j).streak) \in {1, 2, 4, 8, 15}
<1> USE LearningAssumption
<1>1. Counts(After(practice, j))
  <2>1. /\ practice \in Practice /\ practice.right + 1 \in 0..MaxAnswers /\ practice.wrong + 1 \in 0..MaxAnswers
        /\ practice.streak + 1 \in 0..MaxAnswers /\ practice.streak <= practice.right /\ 0 \in 0..MaxAnswers
        /\ practice.streak \in 0..MaxAnswers /\ practice.right \in 0..MaxAnswers
    BY DEF Counts, Practice, CanCount
  <2>2. CASE j = "correct"
    <3>1. PICK x : x = [practice EXCEPT !.right = practice.right + 1, !.streak = practice.streak + 1]
      OBVIOUS
    <3>2. x \in Practice /\ x.streak = practice.streak + 1 /\ x.right = practice.right + 1
      BY <2>1, <3>1 DEF Practice
    <3>3. x.streak <= x.right
      BY <2>1, <3>2
    <3> QED
      BY <2>2, <3>1, <3>2, <3>3 DEF After, Counts
  <2>3. CASE j # "correct"
    <3>1. PICK x : x = [practice EXCEPT !.wrong = practice.wrong + 1, !.streak = 0]
      OBVIOUS
    <3>2. x \in Practice /\ x.streak = 0 /\ x.right = practice.right
      BY <2>1, <3>1 DEF Practice
    <3>3. x.streak <= x.right
      BY <2>1, <3>2
    <3> QED
      BY <2>3, <3>1, <3>2, <3>3 DEF After, Counts
  <2> QED
    BY <2>2, <2>3
<1>2. PICK k \in Nat : k = After(practice, j).streak
  BY <1>1 DEF Counts, Practice
<1>3. Days(j, k) \in {1, 2, 4, 8, 15}
  <2>1. CASE j = "incorrect" \/ k = 0 \/ k > 3
    <3>1. j = "incorrect" \/ k = 0 \/ ~(k <= 3)
      BY <2>1
    <3> QED
      BY <3>1 DEF Days
  <2>2. CASE j # "incorrect" /\ k \in 1..3
    <3>1. k = 1 \/ k = 2 \/ k = 3
      BY <2>2
    <3> QED
      BY <2>2, <3>1 DEF Days
  <2> QED
    BY <2>1, <2>2
<1> QED
  BY <1>1, <1>2, <1>3

\* Rows are only added, moved or completed, and what is completed stays.
GoesOn(items, new) ==
  \A v \in Review :
    /\ items[v].status # "none" => new[v].status # "none"
    /\ items[v].status = "completed" =>
         new[v].status = "completed" /\ new[v].correct = items[v].correct /\ new[v].next = items[v].next

LEMMA RecordStays ==
  ASSUME NEW q, NEW t, NEW items, NEW new, RequestInv(q, t, items), GoesOn(items, new)
  PROVE  RequestInv(q, t, new)
<1> USE LearningAssumption
<1>1. q.at = "known" /\ q.review # 0 => new[q.review].status # "none"
  BY DEF RequestInv, GoesOn
<1> QED
  BY <1>1 DEF RequestInv, GoesOn

RequestType == [at : {"idle", "known", "write", "schedule", "insert", "complete", "replay", "done"},
                key : Key \cup {"none"}, review : 0..MaxReviews, judgement : Judgement \cup {"none"}, seen : Practice]
ReplyType == [code : {0, 200, 201, 404, 409, 500}, next : 0..MaxReviews]

\* A step of one request.
LEMMA RequestMoves ==
  ASSUME LearningInv, NEW r \in Request,
         NEW q, request' = [request EXCEPT ![r] = q], NEW t, reply' = [reply EXCEPT ![r] = t],
         q \in RequestType, t \in ReplyType, answers' \in [Key -> Judgement \cup {"none"}],
         Counts(known'), ReviewsInv(reviews'), GoesOn(reviews, reviews'),
         RequestInv(q, t, reviews')
  PROVE  LearningInv'
<1>1. ASSUME NEW x \in Request PROVE RequestInv(request'[x], reply'[x], reviews')
  <2>1. CASE x = r
    <3>1. request'[x] = q /\ reply'[x] = t
      BY <2>1 DEF LearningInv, LearningTypeOK
    <3> QED
      BY <3>1
  <2>2. CASE x # r
    <3>1. request'[x] = request[x] /\ reply'[x] = reply[x] /\ RequestInv(request[x], reply[x], reviews)
      BY <2>2 DEF LearningInv, LearningTypeOK
    <3> QED
      BY <3>1, RecordStays
  <2> QED
    BY <2>1, <2>2
<1>2. LearningTypeOK'
  BY DEF LearningInv, LearningTypeOK, RequestType, ReplyType, ReviewsInv, ReviewRow, Counts
<1> QED
  BY <1>1, <1>2 DEF LearningInv

LEMMA SameRecords == LearningInv => GoesOn(reviews, reviews) /\ ReviewsInv(reviews) /\ Counts(known)
BY DEF LearningInv, GoesOn

LEMMA RequestFacts ==
  ASSUME LearningInv, NEW r \in Request
  PROVE  /\ request[r] \in RequestType /\ reply[r] \in ReplyType /\ RequestInv(request[r], reply[r], reviews)
         /\ answers \in [Key -> Judgement \cup {"none"}]
         /\ reply = [reply EXCEPT ![r] = reply[r]]
BY DEF LearningInv, LearningTypeOK, RequestType, ReplyType

LEMMA AttemptStep ==
  ASSUME LearningInv, NEW r \in Request, NEW k \in Key, NEW j \in Judgement, Attempt(r, k, j)
  PROVE  LearningInv'
<1> USE LearningAssumption
<1>0. Blank \in Practice /\ Counts(Blank) /\ Idle \in RequestType /\ Idle.seen = Blank /\ Idle.review = 0
  BY DEF Blank, Practice, Counts, Idle, RequestType
<1>1. UNCHANGED <<known, reviews>> /\ answers' \in [Key -> Judgement \cup {"none"}]
  BY RequestFacts DEF Attempt
<1>2. reply[r].next = 0 /\ request[r].at = "idle"
  BY RequestFacts DEF Attempt, RequestInv
<1>3. CASE answers[k] # "none"
  <2>1. PICK q : q = [Idle EXCEPT !.at = "done", !.key = k]
    OBVIOUS
  <2>2. PICK t : t = [code |-> 200, next |-> 0]
    OBVIOUS
  <2>3. request' = [request EXCEPT ![r] = q] /\ reply' = [reply EXCEPT ![r] = t]
    BY <1>3, <2>1, <2>2, Zenon DEF Attempt
  <2>4. q \in RequestType /\ q.at = "done" /\ q.seen = Blank
    BY <1>0, <2>1 DEF RequestType
  <2>5. t \in ReplyType /\ t.next = 0
    BY <2>2 DEF ReplyType
  <2>6. RequestInv(q, t, reviews)
    BY <1>0, <2>4, <2>5 DEF RequestInv
  <2> QED
    BY <1>1, <2>3, <2>4, <2>5, <2>6, SameRecords, RequestMoves
<1>4. CASE answers[k] = "none"
  <2>1. PICK q : q = [Idle EXCEPT !.at = "known", !.key = k, !.judgement = j]
    OBVIOUS
  <2>3. request' = [request EXCEPT ![r] = q] /\ reply' = reply
    BY <1>4, <2>1, Zenon DEF Attempt
  <2>4. q \in RequestType /\ q.at = "known" /\ q.seen = Blank /\ q.review = 0 /\ q.judgement = j
    BY <1>0, <2>1 DEF RequestType
  <2>6. RequestInv(q, reply[r], reviews)
    BY <1>0, <1>2, <2>4 DEF RequestInv
  <2>7. PICK t : t = reply[r]
    OBVIOUS
  <2> QED
    BY <1>1, <2>3, <2>4, <2>6, <2>7, SameRecords, RequestMoves, RequestFacts
<1> QED
  BY <1>3, <1>4

LEMMA ReadKnownStep == ASSUME LearningInv, NEW r \in Request, ReadKnown(r) PROVE LearningInv'
<1>1. /\ UNCHANGED <<answers, known, reviews, reply>> /\ request[r].at = "known" /\ CanCount(known)
      /\ request[r] \in RequestType /\ RequestInv(request[r], reply[r], reviews) /\ Counts(known)
  BY RequestFacts, SameRecords DEF ReadKnown
<1>2. PICK x \in {"write", "complete"} : x = IF request[r].review = 0 THEN "write" ELSE "complete"
  OBVIOUS
<1>3. PICK q : q = [request[r] EXCEPT !.seen = known, !.at = x]
  OBVIOUS
<1>4. request' = [request EXCEPT ![r] = q]
  BY <1>2, <1>3 DEF ReadKnown, LearningInv, LearningTypeOK
<1>5. /\ q \in RequestType /\ q.seen = known /\ q.at = x /\ q.review = request[r].review
      /\ q.judgement = request[r].judgement
  BY <1>1, <1>3 DEF RequestType, Counts
<1>6. RequestInv(q, reply[r], reviews)
  BY <1>1, <1>2, <1>5 DEF RequestInv
<1>7. PICK t : t = reply[r]
  OBVIOUS
<1> QED
  BY <1>1, <1>4, <1>5, <1>6, <1>7, SameRecords, RequestMoves, RequestFacts

LEMMA WriteKnownStep == ASSUME LearningInv, NEW r \in Request, WriteKnown(r) PROVE LearningInv'
<1>1. /\ UNCHANGED <<answers, reviews, reply>> /\ request[r].at = "write"
      /\ request[r] \in RequestType /\ RequestInv(request[r], reply[r], reviews)
  BY RequestFacts DEF WriteKnown
<1>2. Counts(known')
  BY <1>1, AfterIsCounted DEF WriteKnown, RequestInv
<1>3. PICK q : q = [request[r] EXCEPT !.at = "schedule"]
  OBVIOUS
<1>4. request' = [request EXCEPT ![r] = q]
  BY <1>3 DEF WriteKnown, AnswerGoes, LearningInv, LearningTypeOK
<1>5. /\ q \in RequestType /\ q.seen = request[r].seen /\ q.at = "schedule"
      /\ q.judgement = request[r].judgement
  BY <1>1, <1>3 DEF RequestType
<1>6. RequestInv(q, reply[r], reviews)
  BY <1>1, <1>5 DEF RequestInv
<1>7. PICK t : t = reply[r]
  OBVIOUS
<1> QED
  BY <1>1, <1>2, <1>4, <1>5, <1>6, <1>7, SameRecords, RequestMoves, RequestFacts

\* What a request has left when it was answered.
LEMMA AnswerIsTold ==
  ASSUME LearningInv, NEW r \in Request, NEW code \in {0, 200, 201, 404, 409, 500}, NEW n \in 0..MaxReviews,
         Answered(r, code, n), NEW new,
         n # 0 => /\ request[r].review \in Review /\ new[request[r].review].status = "completed"
                  /\ new[request[r].review].correct = request[r].judgement /\ new[request[r].review].next = n
  PROVE  \E q \in RequestType, t \in ReplyType :
           /\ request' = [request EXCEPT ![r] = q] /\ reply' = [reply EXCEPT ![r] = t]
           /\ RequestInv(q, t, new)
<1> USE LearningAssumption
<1>0. Blank \in Practice /\ Counts(Blank) /\ Idle \in RequestType /\ Idle.seen = Blank
  BY DEF Blank, Practice, Counts, Idle, RequestType
<1>1. PICK q : q = [Idle EXCEPT !.at = "done", !.review = request[r].review, !.judgement = request[r].judgement]
  OBVIOUS
<1>2. PICK t : t = [code |-> code, next |-> n]
  BY ZenonT(60)
<1>3. request' = [request EXCEPT ![r] = q] /\ reply' = [reply EXCEPT ![r] = t]
  BY <1>1, <1>2, Zenon DEF Answered
<1>4. request[r].review \in 0..MaxReviews /\ request[r].judgement \in Judgement \cup {"none"}
  BY RequestFacts DEF RequestType
<1>5. /\ q \in RequestType /\ q.at = "done" /\ q.seen = Blank /\ q.review = request[r].review
      /\ q.judgement = request[r].judgement
  BY <1>0, <1>1, <1>4, ZenonT(60) DEF RequestType
<1>6. t \in ReplyType /\ t.next = n
  BY <1>2 DEF ReplyType
<1>7. RequestInv(q, t, new)
  BY <1>0, <1>5, <1>6 DEF RequestInv
<1> QED
  BY <1>3, <1>5, <1>6, <1>7, ZenonT(60)

LEMMA AskCompleteStep ==
  ASSUME LearningInv, NEW r \in Request, NEW v \in Review, NEW j \in Judgement, AskComplete(r, v, j)
  PROVE  LearningInv'
<1> USE LearningAssumption
<1>0. Blank \in Practice /\ Counts(Blank) /\ Idle \in RequestType /\ Idle.seen = Blank
  BY DEF Blank, Practice, Counts, Idle, RequestType
<1>1. /\ UNCHANGED <<answers, known, reviews, reply>> /\ request[r].at = "idle" /\ reviews[v].status # "none"
      /\ RequestInv(request[r], reply[r], reviews)
  BY RequestFacts DEF AskComplete
<1>2. PICK x \in {"replay", "known"} : x = IF reviews[v].status = "completed" THEN "replay" ELSE "known"
  OBVIOUS
<1>3. PICK q : q = [Idle EXCEPT !.review = v, !.judgement = j, !.at = x]
  OBVIOUS
<1>4. request' = [request EXCEPT ![r] = q]
  BY <1>2, <1>3 DEF AskComplete
<1>5. q \in RequestType /\ q.seen = Blank /\ q.at = x /\ q.review = v /\ q.judgement = j
  <2>1. v \in 0..MaxReviews
    BY DEF Review
  <2> QED
    BY <1>0, <1>3, <2>1 DEF RequestType
<1>6. RequestInv(q, reply[r], reviews)
  BY <1>0, <1>1, <1>2, <1>5 DEF RequestInv
<1>7. PICK t : t = reply[r]
  OBVIOUS
<1> QED
  BY <1>1, <1>4, <1>5, <1>6, <1>7, SameRecords, RequestMoves, RequestFacts

LEMMA ReplayCompletedStep == ASSUME LearningInv, NEW r \in Request, ReplayCompleted(r) PROVE LearningInv'
<1> USE LearningAssumption
<1>1. /\ UNCHANGED <<answers, known, reviews>> /\ request[r].at = "replay"
      /\ RequestInv(request[r], reply[r], reviews)
      /\ \/ Answered(r, 409, 0)
         \/ /\ reviews[request[r].review].correct = request[r].judgement
            /\ Answered(r, 200, reviews[request[r].review].next)
  BY RequestFacts DEF ReplayCompleted, Replay
<1>2. request[r].review \in Review /\ reviews[request[r].review].status = "completed"
  BY <1>1 DEF RequestInv
<1>3. PICK n \in 0..MaxReviews : n = reviews[request[r].review].next
  BY <1>2 DEF LearningInv, LearningTypeOK
<1>4. \E q \in RequestType, t \in ReplyType :
        /\ request' = [request EXCEPT ![r] = q] /\ reply' = [reply EXCEPT ![r] = t]
        /\ RequestInv(q, t, reviews)
  <2>1. CASE Answered(r, 409, 0)
    BY <2>1, AnswerIsTold, SMTT(60)
  <2>2. CASE reviews[request[r].review].correct = request[r].judgement /\ Answered(r, 200, n)
    BY <1>2, <1>3, <2>2, AnswerIsTold
  <2> QED
    BY <1>1, <1>3, <2>1, <2>2
<1> QED
  BY <1>1, <1>4, SameRecords, RequestMoves, RequestFacts

\* Rows of which none but the active ones change, and those in nothing but their days.
LEMMA DaysMove ==
  ASSUME LearningInv, NEW d \in {1, 2, 4, 8, 15},
         NEW new, new = [v \in Review |-> IF v \in Active THEN [reviews[v] EXCEPT !.days = d] ELSE reviews[v]]
  PROVE  ReviewsInv(new) /\ GoesOn(reviews, new)
<1>1. ASSUME NEW v \in Review
      PROVE  /\ new[v] \in ReviewRow /\ new[v].status = reviews[v].status
             /\ new[v].correct = reviews[v].correct /\ new[v].next = reviews[v].next
  <2>1. reviews[v] \in ReviewRow
    BY DEF LearningInv, ReviewsInv
  <2>2. CASE v \in Active
    <3>1. new[v] = [reviews[v] EXCEPT !.days = d]
      BY <2>2
    <3> QED
      BY <2>1, <3>1 DEF ReviewRow
  <2>3. CASE v \notin Active
    BY <2>1, <2>3
  <2> QED
    BY <2>2, <2>3
<1>2. new \in [Review -> ReviewRow]
  BY <1>1
<1> QED
  BY <1>1, <1>2 DEF LearningInv, ReviewsInv, GoesOn

LEMMA DaysFit ==
  ASSUME LearningInv, NEW r \in Request, request[r].at \in {"schedule", "insert", "complete"}
  PROVE  DaysOf(r) \in {1, 2, 4, 8, 15}
BY RequestFacts, AfterIsCounted DEF RequestInv, DaysOf

LEMMA ScheduleStep == ASSUME LearningInv, NEW r \in Request, Schedule(r) PROVE LearningInv'
<1> USE LearningAssumption
<1>1. /\ UNCHANGED <<answers, known>> /\ request[r].at = "schedule"
      /\ request[r] \in RequestType /\ RequestInv(request[r], reply[r], reviews)
  BY RequestFacts DEF Schedule
<1>2. CASE Active # {}
  <2>1. Answered(r, 201, 0)
    BY <1>2 DEF Schedule
  <2>2. ReviewsInv(reviews') /\ GoesOn(reviews, reviews')
    BY <1>1, <1>2, DaysFit, DaysMove DEF Schedule
  <2>3. \E q \in RequestType, t \in ReplyType :
          /\ request' = [request EXCEPT ![r] = q] /\ reply' = [reply EXCEPT ![r] = t]
          /\ RequestInv(q, t, reviews')
    <3>1. PICK new : new = reviews'
      OBVIOUS
    <3>2. \E q \in RequestType, t \in ReplyType :
            /\ request' = [request EXCEPT ![r] = q] /\ reply' = [reply EXCEPT ![r] = t]
            /\ RequestInv(q, t, new)
      BY <2>1, AnswerIsTold
    <3> QED
      BY <3>1, <3>2
  <2> QED
    BY <1>1, <2>2, <2>3, SameRecords, RequestMoves, RequestFacts
<1>3. CASE Active = {}
  <2>1. PICK q : q = [request[r] EXCEPT !.at = "insert"]
    OBVIOUS
  <2>2. request' = [request EXCEPT ![r] = q] /\ UNCHANGED <<reviews, reply>>
    BY <1>3, <2>1 DEF Schedule, AnswerGoes, LearningInv, LearningTypeOK
  <2>3. /\ q \in RequestType /\ q.seen = request[r].seen /\ q.at = "insert"
        /\ q.judgement = request[r].judgement
    BY <1>1, <2>1 DEF RequestType
  <2>4. RequestInv(q, reply[r], reviews)
    BY <1>1, <2>3 DEF RequestInv
  <2>5. PICK t : t = reply[r]
    OBVIOUS
  <2> QED
    BY <1>1, <2>2, <2>3, <2>4, <2>5, SameRecords, RequestMoves, RequestFacts
<1> QED
  BY <1>2, <1>3

LEMMA FreshIsUnused == ASSUME LearningInv, Unused # {} PROVE Fresh \in Review /\ reviews[Fresh].status = "none"
<1>1. Unused \in SUBSET Nat
  BY LearningAssumption DEF Unused, Review
<1>2. Fresh \in Unused
  BY <1>1, FirstOfNumbers DEF Fresh
<1> QED
  BY <1>2 DEF Unused

LEMMA InsertReviewStep == ASSUME LearningInv, NEW r \in Request, InsertReview(r) PROVE LearningInv'
<1> USE LearningAssumption
<1>1. /\ UNCHANGED <<answers, known>> /\ request[r].at = "insert"
      /\ RequestInv(request[r], reply[r], reviews) /\ ReviewsInv(reviews)
  BY RequestFacts, SameRecords DEF InsertReview
<1>2. PICK code \in {201, 500} : Answered(r, code, 0)
  BY DEF InsertReview
<1>3. ReviewsInv(reviews') /\ GoesOn(reviews, reviews')
  <2>1. CASE Active = {}
    <3>1. PICK n \in Review : n = Fresh /\ reviews[n].status = "none"
      BY <2>1, FreshIsUnused DEF InsertReview
    <3>2. PICK x : x = Inserted(DaysOf(r))
      OBVIOUS
    <3>3. x \in ReviewRow /\ x.status = "active"
      <4>1. PICK d \in {1, 2, 4, 8, 15} : d = DaysOf(r)
        BY <1>1, DaysFit
      <4>2. NoReview \in ReviewRow
        BY DEF NoReview, ReviewRow
      <4>3. x = [NoReview EXCEPT !.status = "active", !.days = d]
        BY <3>2, <4>1 DEF Inserted
      <4> QED
        BY <4>2, <4>3, ZenonT(60) DEF ReviewRow
    <3>4. reviews' = [reviews EXCEPT ![n] = x]
      BY <2>1, <3>1, <3>2 DEF InsertReview
    <3>5. \A v \in Review : reviews[v].status # "active"
      BY <2>1 DEF Active
    <3>6. /\ reviews' \in [Review -> ReviewRow] /\ reviews'[n] = x
          /\ \A v \in Review : v # n => reviews'[v] = reviews[v]
      BY <1>1, <3>3, <3>4 DEF ReviewsInv
    <3> QED
      BY <1>1, <3>1, <3>3, <3>5, <3>6 DEF ReviewsInv, GoesOn
  <2>2. CASE Active # {}
    BY <1>1, <2>2, SameRecords DEF InsertReview
  <2> QED
    BY <2>1, <2>2
<1>4. PICK new : new = reviews'
  OBVIOUS
<1>5. \E q \in RequestType, t \in ReplyType :
        /\ request' = [request EXCEPT ![r] = q] /\ reply' = [reply EXCEPT ![r] = t]
        /\ RequestInv(q, t, new)
  BY <1>2, AnswerIsTold
<1> QED
  BY <1>1, <1>3, <1>4, <1>5, SameRecords, RequestMoves, RequestFacts, ZenonT(60)

LEMMA CompleteStep == ASSUME LearningInv, NEW r \in Request, Complete(r) PROVE LearningInv'
<1> USE LearningAssumption
<1>1. /\ UNCHANGED answers /\ request[r].at = "complete"
      /\ request[r] \in RequestType /\ RequestInv(request[r], reply[r], reviews)
      /\ ReviewsInv(reviews) /\ Counts(known)
  BY RequestFacts, SameRecords DEF Complete
<1>2. PICK v \in Review : v = request[r].review
  BY <1>1 DEF RequestInv
<1>3. CASE reviews[v].status = "active"
  <2>1. PICK n \in Review : n = Fresh /\ reviews[n].status = "none"
    BY <1>2, <1>3, FreshIsUnused DEF Complete
  <2>2. PICK j \in Judgement : j = request[r].judgement
    BY <1>1 DEF RequestInv
  <2>3. Counts(known')
    BY <1>1, <1>2, <1>3, AfterIsCounted DEF Complete, RequestInv
  <2>4. PICK x : x = Inserted(DaysOf(r))
    OBVIOUS
  <2>5. x \in ReviewRow /\ x.status = "active"
    <3>1. PICK d \in {1, 2, 4, 8, 15} : d = DaysOf(r)
      BY <1>1, DaysFit
    <3>2. NoReview \in ReviewRow
      BY DEF NoReview, ReviewRow
    <3>3. x = [NoReview EXCEPT !.status = "active", !.days = d]
      BY <2>4, <3>1 DEF Inserted
    <3> QED
      BY <3>2, <3>3 DEF ReviewRow
  <2>6. PICK y : y = [reviews[v] EXCEPT !.status = "completed", !.correct = j, !.next = n]
    OBVIOUS
  <2>7. y \in ReviewRow /\ y.status = "completed" /\ y.correct = j /\ y.next = n
    <3>1. reviews[v] \in ReviewRow /\ n \in 0..MaxReviews
      BY <1>1 DEF ReviewsInv, Review
    <3> QED
      BY <2>6, <3>1 DEF ReviewRow
  <2>8. reviews' = [reviews EXCEPT ![v] = y, ![n] = x]
    BY <1>2, <1>3, <2>1, <2>2, <2>4, <2>6, Zenon DEF Complete
  <2>9. n # v
    BY <1>3, <2>1
  <2>10. /\ reviews' \in [Review -> ReviewRow] /\ reviews'[v] = y /\ reviews'[n] = x
         /\ \A w \in Review : w # v /\ w # n => reviews'[w] = reviews[w]
    BY <1>1, <2>5, <2>7, <2>8, <2>9 DEF ReviewsInv
  <2>11. \A w \in Review : w # v => reviews[w].status # "active"
    BY <1>1, <1>3 DEF ReviewsInv
  <2>12. ReviewsInv(reviews')
    BY <2>5, <2>7, <2>10, <2>11 DEF ReviewsInv
  <2>13. GoesOn(reviews, reviews')
    BY <1>3, <2>1, <2>5, <2>7, <2>10 DEF GoesOn
  <2>14. Answered(r, 200, n)
    BY <1>2, <1>3, <2>1 DEF Complete
  <2>15. PICK new : new = reviews'
    OBVIOUS
  <2>16. \E q \in RequestType, t \in ReplyType :
           /\ request' = [request EXCEPT ![r] = q] /\ reply' = [reply EXCEPT ![r] = t]
           /\ RequestInv(q, t, new)
    <3>1. n \in 0..MaxReviews
      BY DEF Review
    <3>2. /\ request[r].review \in Review /\ new[request[r].review].status = "completed"
          /\ new[request[r].review].correct = request[r].judgement /\ new[request[r].review].next = n
      BY <1>2, <2>2, <2>7, <2>10, <2>15
    <3> QED
      BY <2>14, <3>1, <3>2, AnswerIsTold
  <2> QED
    BY <1>1, <2>3, <2>12, <2>13, <2>15, <2>16, RequestMoves, RequestFacts
<1>4. CASE reviews[v].status # "active"
  <2>1. UNCHANGED <<known, reviews, reply>> /\ AnswerGoes(r, "replay")
    BY <1>2, <1>4 DEF Complete
  <2>2. PICK q : q = [request[r] EXCEPT !.at = "replay"]
    OBVIOUS
  <2>3. request' = [request EXCEPT ![r] = q]
    BY <2>1, <2>2 DEF AnswerGoes, LearningInv, LearningTypeOK
  <2>4. /\ q \in RequestType /\ q.seen = request[r].seen /\ q.at = "replay" /\ q.review = v
        /\ q.judgement = request[r].judgement
    BY <1>1, <1>2, <2>2 DEF RequestType
  <2>5. reviews[v].status = "completed"
    <3>1. reviews[v].status \in {"none", "active", "completed"} /\ reviews[v].status # "none"
      BY <1>1, <1>2 DEF ReviewsInv, ReviewRow, RequestInv
    <3> QED
      BY <1>4, <3>1
  <2>6. RequestInv(q, reply[r], reviews)
    BY <1>1, <2>4, <2>5 DEF RequestInv
  <2>7. PICK t : t = reply[r]
    OBVIOUS
  <2> QED
    BY <1>1, <2>1, <2>3, <2>4, <2>6, <2>7, SameRecords, RequestMoves, RequestFacts
<1> QED
  BY <1>3, <1>4

LEMMA ApiCrashStep == ASSUME LearningInv, ApiCrash PROVE LearningInv'
<1> USE LearningAssumption
<1>0. Blank \in Practice /\ Counts(Blank) /\ Idle \in RequestType /\ Idle.seen = Blank
  BY DEF Blank, Practice, Counts, Idle, RequestType
<1>1. UNCHANGED <<answers, known, reviews, reply>>
  BY DEF ApiCrash
<1>2. PICK q : q = [Idle EXCEPT !.at = "done"]
  OBVIOUS
<1>3. q \in RequestType /\ q.at = "done" /\ q.seen = Blank
  BY <1>0, <1>2 DEF RequestType
<1>4. request' = [r \in Request |-> IF request[r].at \in {"idle", "done"} THEN request[r] ELSE q]
  BY <1>2 DEF ApiCrash
<1>5. ASSUME NEW r \in Request PROVE request'[r] \in RequestType /\ RequestInv(request'[r], reply[r], reviews)
  <2>1. CASE request[r].at \in {"idle", "done"}
    <3>1. request'[r] = request[r]
      BY <1>4, <2>1
    <3> QED
      BY <3>1, RequestFacts
  <2>2. CASE request[r].at \notin {"idle", "done"}
    <3>1. request'[r] = q
      BY <1>4, <2>2
    <3>2. reply[r].next = 0
      BY <2>2, RequestFacts DEF RequestInv
    <3> QED
      BY <1>0, <1>3, <3>1, <3>2 DEF RequestInv
  <2> QED
    BY <2>1, <2>2
<1>6. request' \in [Request -> RequestType]
  BY <1>4, <1>5
<1>7. LearningTypeOK'
  BY <1>1, <1>6 DEF LearningInv, LearningTypeOK, RequestType
<1> QED
  BY <1>1, <1>5, <1>7 DEF LearningInv

LEMMA LearningStep == LearningInv /\ [LearningNext]_learningVars => LearningInv'
<1> SUFFICES ASSUME LearningInv, [LearningNext]_learningVars PROVE LearningInv'
  OBVIOUS
<1>1. CASE UNCHANGED learningVars
  BY <1>1 DEF learningVars, LearningInv, LearningTypeOK
<1> QED
  BY <1>1, AttemptStep, AskCompleteStep, ReadKnownStep, WriteKnownStep, ScheduleStep, InsertReviewStep,
     CompleteStep, ReplayCompletedStep, ApiCrashStep DEF LearningNext

LEMMA LearningHolds == LearningInv => LearningInvariant
<1> SUFFICES ASSUME LearningInv PROVE LearningInvariant
  OBVIOUS
<1>1. CompletedOnce
  BY DEF LearningInv, RequestInv, CompletedOnce
<1>2. Cardinality(Active) <= 1
  <2>1. CASE Active = {}
    BY <2>1, FS_EmptySet
  <2>2. CASE Active # {}
    <3>1. PICK v : v \in Active
      BY <2>2
    <3>2. Active = {v}
      BY <3>1 DEF Active, LearningInv, ReviewsInv
    <3>3. Cardinality(Active) = 1
      BY <3>2, FS_Singleton, Zenon
    <3> QED
      BY <3>3
  <2> QED
    BY <2>1, <2>2
<1>3. ReviewsGoOn
  BY <1>2 DEF ReviewsGoOn, LearningInv, ReviewsInv, Active
<1> QED
  BY <1>1, <1>3 DEF LearningInvariant, LearningInv

-----------------------------------------------------------------------------
(* A plan: what is stored is what the pass over the chain computes from    *)
(* what is ticked, and so the statuses read as they should.                *)
PlanInv == PlanTypeOK /\ milestone = Chain(ticked)

LEMMA PlanInitInv == PlanInit => PlanInv
<1> SUFFICES ASSUME PlanInit PROVE PlanInv
  OBVIOUS
<1>1. PlanTypeOK
  BY DEF PlanInit, PlanTypeOK
<1>2. ASSUME NEW i \in Place
      PROVE  milestone[i] = IF \E j \in 1..(i-1) : ~AllDone(ticked, j) THEN "locked"
                            ELSE IF AllDone(ticked, i) THEN "completed" ELSE "active"
  <2>1. \A j : ~AllDone(ticked, j)
    BY DEF PlanInit, AllDone
  <2>2. i = 1 \/ 1 \in 1..(i-1)
    BY PlanAssumption DEF Place
  <2> QED
    BY <2>1, <2>2 DEF PlanInit
<1>3. milestone = [i \in Place |-> IF \E j \in 1..(i-1) : ~AllDone(ticked, j) THEN "locked"
                                   ELSE IF AllDone(ticked, i) THEN "completed" ELSE "active"]
  BY <1>1, <1>2 DEF PlanTypeOK
<1> QED
  BY <1>1, <1>3 DEF PlanInv, Chain

LEMMA PlanStep == PlanInv /\ [PlanNext]_planVars => PlanInv'
<1> SUFFICES ASSUME PlanInv, [PlanNext]_planVars PROVE PlanInv'
  OBVIOUS
<1>1. ASSUME NEW t \in Task, NEW done \in BOOLEAN, SetTaskStatus(t, done) PROVE PlanInv'
  <2>1. ticked' \subseteq Task /\ milestone' = Chain(ticked') /\ plan' = plan
    BY <1>1 DEF SetTaskStatus, PlanInv, PlanTypeOK
  <2>2. Chain(ticked') \in [Place -> {"active", "locked", "completed"}]
    BY DEF Chain
  <2> QED
    BY <2>1, <2>2 DEF PlanInv, PlanTypeOK
<1>2. CASE Archive \/ UNCHANGED planVars
  BY <1>2, ZenonT(60) DEF Archive, planVars, PlanInv, PlanTypeOK, Chain, AllDone
<1> QED
  BY <1>1, <1>2 DEF PlanNext

LEMMA PlanHolds == PlanInv => PlanInvariant
<1> SUFFICES ASSUME PlanInv PROVE PlanInvariant
  OBVIOUS
<1>1. \A i \in Place : milestone[i] = IF \E j \in 1..(i-1) : ~AllDone(ticked, j) THEN "locked"
                                      ELSE IF AllDone(ticked, i) THEN "completed" ELSE "active"
  BY DEF PlanInv, Chain
<1>2. \A i \in Place : 1..(i-1) \subseteq Place /\ \A j \in 1..(i-1) : 1..(j-1) \subseteq 1..(i-1)
  BY PlanAssumption DEF Place
<1>3. \A i \in Place : milestone[i] = "completed" => AllDone(ticked, i)
  BY <1>1
<1>4. ASSUME NEW i \in Place, milestone[i] # "locked", NEW j \in 1..(i-1) PROVE milestone[j] = "completed"
  <2>1. j \in Place /\ 1..(j-1) \subseteq 1..(i-1) /\ \A k \in 1..(i-1) : AllDone(ticked, k)
    BY <1>1, <1>2, <1>4
  <2> QED
    BY <1>1, <2>1
<1>5. ASSUME NEW i \in Place, milestone[i] = "locked" PROVE \E j \in 1..(i-1) : milestone[j] = "active"
  <2> DEFINE undone == {j \in 1..(i-1) : ~AllDone(ticked, j)}
  <2>1. undone \in SUBSET Nat /\ undone # {}
    BY <1>1, <1>5, PlanAssumption DEF Place
  <2>2. PICK j \in undone : \A k \in undone : j <= k
    BY <2>1, FirstOfNumbers, Zenon
  <2>3. j \in 1..(i-1) /\ j \in Place /\ ~AllDone(ticked, j) /\ \A k \in 1..(j-1) : AllDone(ticked, k)
    BY <1>2, <2>2, PlanAssumption DEF Place
  <2> QED
    BY <1>1, <2>3
<1> QED
  BY <1>3, <1>4, <1>5 DEF PlanInvariant, ChainHolds, PlanInv

-----------------------------------------------------------------------------
(* The speech model.  Who was given a recognizer got the right one unless  *)
(* somebody asked while one was replaced: until then the load under way is *)
(* the only one, and without one the recognizer is that of the key.        *)
ProviderType == [path : Dir, key : Dir \cup {NoDir}, recognizer : Dir \cup {NoDir}, loading : 0..MaxLoads,
                 target : Dir \cup {NoDir}, file : {"model", "tokens"}]
VoiceCallType == [op : {"idle", "transcribe", "save", "download"},
                  pc : {"end", "config", "recognize", "load", "chain", "decode", "save"},
                  dir : Dir \cup {NoDir}, load : 0..MaxLoads, with : Dir \cup {NoDir}]

LoadingInv(p, ls, mixed) ==
  /\ p.loading # 0 => p.loading \in DOMAIN ls /\ ls[p.loading] = [of |-> p.key, open |-> TRUE]
  /\ ~mixed => /\ \A l \in DOMAIN ls : ls[l].open => l = p.loading
               /\ p.loading = 0 /\ p.recognizer # NoDir => p.recognizer = p.key

VoiceCallInv(q, ls, mixed) ==
  /\ q.load # 0 => q.pc = "load" /\ q.load \in DOMAIN ls /\ ls[q.load] = [of |-> q.dir, open |-> TRUE]
  /\ q.pc \in {"recognize", "load", "chain", "decode"} => q.op = "transcribe"
  /\ q.pc \in {"chain", "decode"} /\ ~mixed => q.with = q.dir
  /\ q.op = "download" => q.dir \in Dir

Decoding == {c \in VoiceCall : voiceCall[c].pc = "decode"}

VoiceModelInv ==
  /\ VoiceModelTypeOK
  /\ LoadingInv(provider, loads, voicePast.mixed)
  /\ \A c \in VoiceCall : VoiceCallInv(voiceCall[c], loads, voicePast.mixed)
  /\ IsInjective(decodes) /\ ToSet(decodes) = Decoding

LEMMA VoiceModelInitInv == VoiceModelInit => VoiceModelInv
<1> SUFFICES ASSUME VoiceModelInit PROVE VoiceModelInv
  OBVIOUS
<1> USE VoiceModelAssumption
<1>1. VoiceModelTypeOK
  BY DEF VoiceModelInit, VoiceModelTypeOK, NoVoiceCall
<1>2. LoadingInv(provider, loads, voicePast.mixed)
  BY DEF VoiceModelInit, LoadingInv
<1>3. \A c \in VoiceCall : VoiceCallInv(voiceCall[c], loads, voicePast.mixed) /\ voiceCall[c].pc = "end"
  BY DEF VoiceModelInit, VoiceCallInv, NoVoiceCall
<1>4. IsInjective(decodes) /\ ToSet(decodes) = Decoding
  <2>1. decodes = <<>> /\ Decoding = {}
    BY <1>3 DEF VoiceModelInit, Decoding
  <2> QED
    BY <2>1 DEF IsInjective, ToSet
<1> QED
  BY <1>1, <1>2, <1>3, <1>4 DEF VoiceModelInv

\* Loads are only added here.
LoadsStay == Len(loads) <= Len(loads') /\ \A l \in DOMAIN loads : l \in DOMAIN loads' /\ loads'[l] = loads[l]

\* A step of one request.
LEMMA VoiceCallMoves ==
  ASSUME VoiceModelInv, NEW c \in VoiceCall, NEW q \in VoiceCallType, voiceCall' = [voiceCall EXCEPT ![c] = q],
         provider' \in ProviderType, onDisk' = onDisk, chosenDir' \in Dir \cup {NoDir},
         loads' \in Seq([of : Dir, open : BOOLEAN]), LoadsStay, decodes' \in Seq(VoiceCall),
         voicePast' \in [begun : 0..MaxVoiceCalls, mixed : BOOLEAN], voicePast.mixed => voicePast'.mixed,
         LoadingInv(provider', loads', voicePast'.mixed), VoiceCallInv(q, loads', voicePast'.mixed),
         IsInjective(decodes'),
         ToSet(decodes') = IF q.pc = "decode" THEN ToSet(decodes) \cup {c} ELSE ToSet(decodes) \ {c}
  PROVE  VoiceModelInv'
<1>1. /\ voiceCall \in [VoiceCall -> VoiceCallType] /\ voiceCall' \in [VoiceCall -> VoiceCallType]
      /\ voiceCall'[c] = q /\ \A d \in VoiceCall : d # c => voiceCall'[d] = voiceCall[d]
  BY DEF VoiceModelInv, VoiceModelTypeOK, VoiceCallType
<1>2. VoiceModelTypeOK'
  BY <1>1 DEF VoiceModelInv, VoiceModelTypeOK, VoiceCallType, ProviderType
<1>3. ASSUME NEW d \in VoiceCall, d # c PROVE VoiceCallInv(voiceCall'[d], loads', voicePast'.mixed)
  <2>1. voiceCall'[d] = voiceCall[d] /\ VoiceCallInv(voiceCall[d], loads, voicePast.mixed)
    BY <1>1, <1>3 DEF VoiceModelInv
  <2> QED
    BY <2>1 DEF VoiceCallInv, LoadsStay
<1>4. \A d \in VoiceCall : VoiceCallInv(voiceCall'[d], loads', voicePast'.mixed)
  BY <1>1, <1>3
<1>5. ToSet(decodes') = Decoding'
  <2>1. ToSet(decodes) = Decoding
    BY DEF VoiceModelInv
  <2>2. Decoding' = IF q.pc = "decode" THEN Decoding \cup {c} ELSE Decoding \ {c}
    BY <1>1 DEF Decoding
  <2> QED
    BY <2>1, <2>2
<1> QED
  BY <1>2, <1>4, <1>5 DEF VoiceModelInv

LEMMA VoiceModelFacts ==
  ASSUME VoiceModelInv
  PROVE  /\ voiceCall \in [VoiceCall -> VoiceCallType] /\ provider \in ProviderType
         /\ onDisk \in [Dir -> [model : BOOLEAN, tokens : BOOLEAN]] /\ chosenDir \in Dir \cup {NoDir}
         /\ loads \in Seq([of : Dir, open : BOOLEAN]) /\ decodes \in Seq(VoiceCall)
         /\ voicePast \in [begun : 0..MaxVoiceCalls, mixed : BOOLEAN]
         /\ LoadingInv(provider, loads, voicePast.mixed) /\ IsInjective(decodes)
         /\ \A c \in VoiceCall : VoiceCallInv(voiceCall[c], loads, voicePast.mixed)
         /\ \A c \in VoiceCall : voiceCall[c].pc = "decode" <=> c \in ToSet(decodes)
BY DEF VoiceModelInv, VoiceModelTypeOK, VoiceCallType, ProviderType, Decoding

\* The loads and the chain are left alone.
LEMMA VoiceRestStays ==
  ASSUME VoiceModelInv, UNCHANGED <<loads, decodes, onDisk>>, NEW c \in VoiceCall, voiceCall[c].pc # "decode"
  PROVE  /\ loads' \in Seq([of : Dir, open : BOOLEAN]) /\ LoadsStay /\ decodes' \in Seq(VoiceCall)
         /\ IsInjective(decodes') /\ ToSet(decodes') = ToSet(decodes) \ {c}
<1>1. c \notin ToSet(decodes)
  BY VoiceModelFacts
<1> QED
  BY <1>1, VoiceModelFacts DEF LoadsStay

LEMMA NoCallIsFine ==
  /\ NoVoiceCall \in VoiceCallType /\ NoVoiceCall.pc = "end" /\ NoVoiceCall.load = 0 /\ NoVoiceCall.op = "idle"
  /\ \A ls, mixed : VoiceCallInv(NoVoiceCall, ls, mixed)
<1>1. NoVoiceCall \in VoiceCallType /\ NoVoiceCall.pc = "end" /\ NoVoiceCall.load = 0 /\ NoVoiceCall.op = "idle"
  BY VoiceModelAssumption, SMTT(60) DEF NoVoiceCall, VoiceCallType
<1> QED
  BY <1>1 DEF VoiceCallInv

LEMMA BeginVoiceCallStep == ASSUME VoiceModelInv, NEW c \in VoiceCall, BeginVoiceCall(c) PROVE VoiceModelInv'
<1> USE VoiceModelAssumption
<1>1. /\ UNCHANGED <<onDisk, chosenDir, loads, decodes>> /\ voiceCall[c].pc # "decode"
      /\ voicePast.begun < MaxVoiceCalls /\ voicePast' = [voicePast EXCEPT !.begun = @ + 1]
  BY NoCallIsFine, Zenon DEF BeginVoiceCall
<1>2. voicePast' \in [begun : 0..MaxVoiceCalls, mixed : BOOLEAN] /\ voicePast'.mixed = voicePast.mixed
  BY <1>1, VoiceModelFacts, SMTT(60)
<1>3. PICK q : /\ voiceCall' = [voiceCall EXCEPT ![c] = q]
               /\ \/ q = [NoVoiceCall EXCEPT !.op = "transcribe", !.pc = "config"] /\ UNCHANGED provider
                  \/ \E d \in Dir : /\ q = [NoVoiceCall EXCEPT !.op = "save", !.pc = "save", !.dir = d]
                                    /\ provider' = [provider EXCEPT !.path = d]
                  \/ \E d \in Dir :
                       /\ q = [NoVoiceCall EXCEPT !.op = "download", !.pc = "config",
                                                  !.dir = IF provider.target # NoDir THEN provider.path ELSE d]
                       /\ provider' = IF provider.target # NoDir THEN provider
                                      ELSE [provider EXCEPT !.target = d, !.file = "model"]
  BY ZenonT(60) DEF BeginVoiceCall
<1>4. q \in VoiceCallType /\ q.pc \in {"config", "save"} /\ q.load = 0 /\ (q.op = "download" => q.dir \in Dir)
  <2>1. provider.path \in Dir
    BY VoiceModelFacts DEF ProviderType
  <2>2. CASE q = [NoVoiceCall EXCEPT !.op = "transcribe", !.pc = "config"]
    BY <2>2, NoCallIsFine DEF VoiceCallType
  <2>3. ASSUME NEW d \in Dir, q = [NoVoiceCall EXCEPT !.op = "save", !.pc = "save", !.dir = d]
        PROVE  q \in VoiceCallType /\ q.pc \in {"config", "save"} /\ q.load = 0 /\ (q.op = "download" => q.dir \in Dir)
    BY <2>3, NoCallIsFine DEF VoiceCallType
  <2>4. ASSUME NEW d \in Dir, q = [NoVoiceCall EXCEPT !.op = "download", !.pc = "config", !.dir = d]
        PROVE  q \in VoiceCallType /\ q.pc \in {"config", "save"} /\ q.load = 0 /\ (q.op = "download" => q.dir \in Dir)
    BY <2>4, NoCallIsFine DEF VoiceCallType
  <2> QED
    BY <1>3, <2>1, <2>2, <2>3, <2>4, Zenon
<1>5. /\ provider' \in ProviderType /\ provider'.key = provider.key /\ provider'.loading = provider.loading
      /\ provider'.recognizer = provider.recognizer
  <2>1. provider \in ProviderType
    BY VoiceModelFacts
  <2>2. \/ provider' = provider
        \/ \E d \in Dir : provider' = [provider EXCEPT !.path = d]
        \/ \E d \in Dir : provider' = [provider EXCEPT !.target = d, !.file = "model"]
    BY <1>3
  <2> QED
    BY <2>1, <2>2, ZenonT(60) DEF ProviderType
<1>6. LoadingInv(provider', loads', voicePast'.mixed)
  BY <1>1, <1>2, <1>5, VoiceModelFacts DEF LoadingInv
<1>7. VoiceCallInv(q, loads', voicePast'.mixed)
  BY <1>4 DEF VoiceCallInv
<1> QED
  BY <1>1, <1>2, <1>3, <1>4, <1>5, <1>6, <1>7, VoiceRestStays, VoiceCallMoves, VoiceModelFacts, ZenonT(60)

LEMMA ConfigReadStep == ASSUME VoiceModelInv, NEW c \in VoiceCall, ConfigRead(c) PROVE VoiceModelInv'
<1> USE VoiceModelAssumption
<1>1. /\ UNCHANGED <<onDisk, chosenDir, loads, decodes, voicePast>> /\ voiceCall[c].pc = "config"
      /\ voiceCall[c] \in VoiceCallType /\ VoiceCallInv(voiceCall[c], loads, voicePast.mixed)
  BY VoiceModelFacts DEF ConfigRead, In
<1>2. PICK q : /\ voiceCall' = [voiceCall EXCEPT ![c] = q]
               /\ \/ q = [voiceCall[c] EXCEPT !.pc = "save"]
                  \/ q = [voiceCall[c] EXCEPT !.pc = "recognize"] /\ voiceCall[c].op = "transcribe"
                  \/ q = NoVoiceCall
  BY VoiceModelFacts DEF ConfigRead, Leaves
<1>3. q \in VoiceCallType /\ VoiceCallInv(q, loads, voicePast.mixed) /\ q.pc # "decode"
  BY <1>1, <1>2, NoCallIsFine DEF VoiceCallType, VoiceCallInv
<1>4. PICK d \in Dir : provider' = [provider EXCEPT !.path = d]
  <2>1. provider.path \in Dir /\ chosenDir \in Dir \cup {NoDir}
    BY VoiceModelFacts DEF ProviderType
  <2>2. ConfiguredDir \in Dir
    BY <2>1 DEF ConfiguredDir
  <2>3. voiceCall[c].op = "download" => voiceCall[c].dir \in Dir
    BY <1>1 DEF VoiceCallInv
  <2> QED
    BY <2>2, <2>3 DEF ConfigRead
<1>5. /\ provider' \in ProviderType /\ provider'.key = provider.key /\ provider'.loading = provider.loading
      /\ provider'.recognizer = provider.recognizer
  BY <1>4, VoiceModelFacts DEF ProviderType
<1>6. LoadingInv(provider', loads', voicePast'.mixed)
  BY <1>1, <1>5, VoiceModelFacts DEF LoadingInv
<1>7. VoiceCallInv(q, loads', voicePast'.mixed)
  BY <1>1, <1>3
<1> QED
  BY <1>1, <1>2, <1>3, <1>5, <1>6, <1>7, VoiceRestStays, VoiceCallMoves, VoiceModelFacts

LEMMA SaveConfigStep == ASSUME VoiceModelInv, NEW c \in VoiceCall, SaveConfig(c) PROVE VoiceModelInv'
<1>1. /\ UNCHANGED <<provider, onDisk, loads, decodes, voicePast>> /\ voiceCall[c].pc = "save"
      /\ chosenDir' = voiceCall[c].dir /\ voiceCall[c] \in VoiceCallType
      /\ voiceCall' = [voiceCall EXCEPT ![c] = NoVoiceCall]
  BY VoiceModelFacts DEF SaveConfig, In, Leaves
<1>2. chosenDir' \in Dir \cup {NoDir}
  BY <1>1 DEF VoiceCallType
<1>3. LoadingInv(provider', loads', voicePast'.mixed) /\ VoiceCallInv(NoVoiceCall, loads', voicePast'.mixed)
  BY <1>1, VoiceModelFacts, NoCallIsFine
<1> QED
  BY <1>1, <1>2, <1>3, VoiceRestStays, VoiceCallMoves, VoiceModelFacts, NoCallIsFine

LEMMA GetRecognizerStep == ASSUME VoiceModelInv, NEW c \in VoiceCall, GetRecognizer(c) PROVE VoiceModelInv'
<1> USE VoiceModelAssumption
<1> DEFINE d == provider.path
<1>1. /\ UNCHANGED <<onDisk, chosenDir, decodes>> /\ voiceCall[c].pc = "recognize" /\ voiceCall[c].op = "transcribe"
      /\ voiceCall[c] \in VoiceCallType /\ VoiceCallInv(voiceCall[c], loads, voicePast.mixed)
      /\ provider \in ProviderType /\ d \in Dir /\ LoadingInv(provider, loads, voicePast.mixed)
      /\ voicePast \in [begun : 0..MaxVoiceCalls, mixed : BOOLEAN]
      /\ loads \in Seq([of : Dir, open : BOOLEAN])
  BY VoiceModelFacts DEF GetRecognizer, In, ProviderType
<1>2. decodes' \in Seq(VoiceCall) /\ IsInjective(decodes') /\ ToSet(decodes') = ToSet(decodes) \ {c}
  <2>1. c \notin ToSet(decodes)
    BY <1>1, VoiceModelFacts
  <2> QED
    BY <1>1, <2>1, VoiceModelFacts
<1>3. CASE Cached(d)
  <2>1. /\ UNCHANGED <<provider, loads>>
        /\ voicePast' = [voicePast EXCEPT !.mixed = @ \/ provider.loading # 0]
    BY <1>3 DEF GetRecognizer
  <2>2. PICK q : q = [voiceCall[c] EXCEPT !.pc = "chain", !.dir = d, !.with = provider.recognizer]
    OBVIOUS
  <2>3. voiceCall' = [voiceCall EXCEPT ![c] = q]
    BY <1>3, <2>2, VoiceModelFacts DEF GetRecognizer
  <2>4. provider.recognizer \in Dir \cup {NoDir} /\ provider.recognizer # NoDir /\ provider.key = d
    BY <1>1, <1>3 DEF Cached, ProviderType
  <2>5. /\ q \in VoiceCallType /\ q.pc = "chain" /\ q.dir = d /\ q.with = provider.recognizer
        /\ q.load = voiceCall[c].load /\ q.op = "transcribe"
    BY <1>1, <2>2, <2>4 DEF VoiceCallType
  <2>6. /\ voicePast' \in [begun : 0..MaxVoiceCalls, mixed : BOOLEAN]
        /\ ~voicePast'.mixed => ~voicePast.mixed /\ provider.loading = 0
    BY <1>1, <2>1
  <2>7. VoiceCallInv(q, loads', voicePast'.mixed)
    BY <1>1, <2>1, <2>4, <2>5, <2>6 DEF VoiceCallInv, LoadingInv
  <2>8. LoadingInv(provider', loads', voicePast'.mixed) /\ LoadsStay
    BY <1>1, <2>1, <2>6 DEF LoadingInv, LoadsStay
  <2>9. chosenDir' \in Dir \cup {NoDir} /\ (voicePast.mixed => voicePast'.mixed)
    BY <1>1, <2>6, VoiceModelFacts
  <2> QED
    BY <1>1, <1>2, <2>1, <2>3, <2>5, <2>6, <2>7, <2>8, <2>9, VoiceCallMoves
<1>4. CASE ~Cached(d) /\ provider.loading # 0 /\ provider.key = d
  <2>1. UNCHANGED <<provider, loads, voicePast>>
    BY <1>4 DEF GetRecognizer
  <2>2. PICK q : q = [voiceCall[c] EXCEPT !.pc = "load", !.dir = d, !.load = provider.loading]
    OBVIOUS
  <2>3. voiceCall' = [voiceCall EXCEPT ![c] = q]
    BY <1>4, <2>2, VoiceModelFacts DEF GetRecognizer
  <2>4. provider.loading \in 0..MaxLoads
    BY <1>1 DEF ProviderType
  <2>5. /\ q \in VoiceCallType /\ q.pc = "load" /\ q.dir = d /\ q.load = provider.loading /\ q.op = "transcribe"
    BY <1>1, <2>2, <2>4 DEF VoiceCallType
  <2>6. VoiceCallInv(q, loads', voicePast'.mixed)
    BY <1>1, <1>4, <2>1, <2>5 DEF VoiceCallInv, LoadingInv
  <2>7. LoadingInv(provider', loads', voicePast'.mixed) /\ LoadsStay /\ chosenDir' \in Dir \cup {NoDir}
    BY <1>1, <2>1, VoiceModelFacts DEF LoadsStay
  <2> QED
    BY <1>1, <1>2, <2>1, <2>3, <2>5, <2>6, <2>7, VoiceCallMoves
<1>5. CASE ~Cached(d) /\ ~(provider.loading # 0 /\ provider.key = d)
  <2>1. /\ Len(loads) < MaxLoads
        /\ loads' = Append(loads, [of |-> d, open |-> TRUE])
        /\ provider' = [provider EXCEPT !.key = d, !.loading = Len(loads) + 1]
        /\ voicePast' = [voicePast EXCEPT !.mixed = @ \/ \E l \in DOMAIN loads : loads[l].open]
    BY <1>5 DEF GetRecognizer
  <2>2. PICK k \in Nat : k = Len(loads)
    BY <1>1
  <2>3. PICK q : q = [voiceCall[c] EXCEPT !.pc = "load", !.dir = d, !.load = k + 1]
    OBVIOUS
  <2>4. voiceCall' = [voiceCall EXCEPT ![c] = q]
    BY <1>5, <2>2, <2>3, VoiceModelFacts DEF GetRecognizer
  <2>5. k + 1 \in 0..MaxLoads /\ k + 1 # 0
    BY <2>1, <2>2
  <2>6. /\ q \in VoiceCallType /\ q.pc = "load" /\ q.dir = d /\ q.load = k + 1 /\ q.op = "transcribe"
    BY <1>1, <2>3, <2>5 DEF VoiceCallType
  <2>7. /\ loads' \in Seq([of : Dir, open : BOOLEAN]) /\ Len(loads') = k + 1 /\ DOMAIN loads' = 1..(k + 1)
        /\ loads'[k + 1] = [of |-> d, open |-> TRUE] /\ \A l \in 1..k : loads'[l] = loads[l]
        /\ DOMAIN loads = 1..k
    BY <1>1, <2>1, <2>2
  <2>8. LoadsStay
    BY <2>2, <2>7 DEF LoadsStay
  <2>9. /\ provider' \in ProviderType /\ provider'.key = d /\ provider'.loading = k + 1
    BY <1>1, <2>1, <2>2, <2>5 DEF ProviderType
  <2>10. /\ voicePast' \in [begun : 0..MaxVoiceCalls, mixed : BOOLEAN]
         /\ ~voicePast'.mixed => ~voicePast.mixed /\ \A l \in DOMAIN loads : ~loads[l].open
    <3>1. PICK b \in BOOLEAN : b = \E l \in DOMAIN loads : loads[l].open
      OBVIOUS
    <3>2. voicePast' = [voicePast EXCEPT !.mixed = @ \/ b]
      BY <2>1, <3>1
    <3>3. voicePast' \in [begun : 0..MaxVoiceCalls, mixed : BOOLEAN] /\ (~voicePast'.mixed => ~voicePast.mixed /\ ~b)
      BY <1>1, <3>2
    <3> QED
      BY <3>1, <3>3
  <2>11. LoadingInv(provider', loads', voicePast'.mixed)
    BY <2>5, <2>7, <2>9, <2>10 DEF LoadingInv
  <2>12. VoiceCallInv(q, loads', voicePast'.mixed)
    BY <2>6, <2>7, <2>5 DEF VoiceCallInv
  <2>13. chosenDir' \in Dir \cup {NoDir} /\ (voicePast.mixed => voicePast'.mixed)
    BY <1>1, <2>10, VoiceModelFacts
  <2> QED
    BY <1>1, <1>2, <2>4, <2>6, <2>7, <2>8, <2>9, <2>10, <2>11, <2>12, <2>13, VoiceCallMoves
<1> QED
  BY <1>3, <1>4, <1>5

LEMMA LoadEndsStep == ASSUME VoiceModelInv, NEW l \in 1..MaxLoads, NEW ok \in BOOLEAN, LoadEnds(l, ok) PROVE VoiceModelInv'
<1> USE VoiceModelAssumption
<1>1. /\ UNCHANGED <<onDisk, chosenDir, decodes>> /\ l \in DOMAIN loads /\ loads[l].open
      /\ loads \in Seq([of : Dir, open : BOOLEAN]) /\ provider \in ProviderType
      /\ voicePast \in [begun : 0..MaxVoiceCalls, mixed : BOOLEAN]
      /\ LoadingInv(provider, loads, voicePast.mixed)
  BY VoiceModelFacts DEF LoadEnds
<1>2. PICK d \in Dir : loads[l] = [of |-> d, open |-> TRUE] /\ loads[l].of = d
  <2>2. loads[l] \in [of : Dir, open : BOOLEAN]
    BY <1>1, ElementsOf, Zenon
  <2>3. loads[l].open = TRUE
    BY <1>1, <2>2
  <2>4. PICK y : y = loads[l]
    OBVIOUS
  <2>5. y \in [of : Dir, open : BOOLEAN] /\ y.open = TRUE
    BY <2>2, <2>3, <2>4
  <2>6. y = [of |-> y.of, open |-> TRUE] /\ y.of \in Dir
    BY <2>5
  <2> QED
    BY <2>4, <2>6
<1>3. /\ loads' \in Seq([of : Dir, open : BOOLEAN]) /\ DOMAIN loads' = DOMAIN loads /\ ~loads'[l].open
      /\ \A m \in DOMAIN loads : m # l => loads'[m] = loads[m]
  <2>0. PICK y : y = [loads[l] EXCEPT !.open = FALSE]
    OBVIOUS
  <2>1. loads' = [loads EXCEPT ![l] = [of |-> d, open |-> FALSE]]
    <3>1. loads' = [loads EXCEPT ![l] = y]
      BY <1>1, <2>0 DEF LoadEnds
    <3>2. y = [of |-> d, open |-> FALSE]
      BY <1>2, <2>0
    <3> QED
      BY <3>1, <3>2
  <2>2. [of |-> d, open |-> FALSE] \in [of : Dir, open : BOOLEAN]
    OBVIOUS
  <2>3. PICK x : x = [of |-> d, open |-> FALSE]
    OBVIOUS
  <2>4. x \in [of : Dir, open : BOOLEAN] /\ loads' = [loads EXCEPT ![l] = x] /\ ~x.open
    BY <2>1, <2>2, <2>3
  <2> QED
    BY <1>1, <2>4
<1>4. /\ provider' \in ProviderType /\ provider'.loading = 0 /\ provider'.key = provider.key
      /\ ok => provider'.recognizer = d
  <2>1. PICK x \in Dir \cup {NoDir} : x = IF ok THEN d ELSE provider.recognizer
    BY <1>1 DEF ProviderType
  <2>2. provider' = [provider EXCEPT !.loading = 0, !.recognizer = x]
    BY <1>1, <1>2, <2>1 DEF LoadEnds
  <2>3. 0 \in 0..MaxLoads
    OBVIOUS
  <2> QED
    BY <1>1, <2>1, <2>2, <2>3 DEF ProviderType
<1>5. /\ voicePast' \in [begun : 0..MaxVoiceCalls, mixed : BOOLEAN]
      /\ ~voicePast'.mixed => ~voicePast.mixed /\ ok
  <2>1. PICK b \in BOOLEAN : b = ~ok
    OBVIOUS
  <2>2. voicePast' = [voicePast EXCEPT !.mixed = @ \/ b]
    BY <2>1, Zenon DEF LoadEnds
  <2>3. voicePast' \in [begun : 0..MaxVoiceCalls, mixed : BOOLEAN] /\ (~voicePast'.mixed => ~voicePast.mixed /\ ~b)
    BY <1>1, <2>2
  <2> QED
    BY <2>1, <2>3
<1>6. LoadingInv(provider', loads', voicePast'.mixed)
  <2>1. ~voicePast'.mixed => l = provider.loading /\ provider.key = d
    BY <1>1, <1>2, <1>5 DEF LoadingInv
  <2> QED
    BY <1>1, <1>3, <1>4, <1>5, <2>1 DEF LoadingInv
<1>7. ASSUME NEW c \in VoiceCall
      PROVE  /\ voiceCall'[c] \in VoiceCallType /\ VoiceCallInv(voiceCall'[c], loads', voicePast'.mixed)
             /\ voiceCall'[c].pc = "decode" <=> voiceCall[c].pc = "decode"
  <2>1. voiceCall[c] \in VoiceCallType /\ VoiceCallInv(voiceCall[c], loads, voicePast.mixed)
    BY VoiceModelFacts
  <2>2. CASE voiceCall[c].load # l
    <3>1. voiceCall'[c] = voiceCall[c]
      BY <2>2 DEF LoadEnds
    <3>2. VoiceCallInv(voiceCall[c], loads', voicePast'.mixed)
      BY <1>3, <1>5, <2>1, <2>2 DEF VoiceCallInv
    <3> QED
      BY <2>1, <3>1, <3>2
  <2>3. CASE voiceCall[c].load = l /\ ok
    <3>1. PICK q : q = [voiceCall[c] EXCEPT !.pc = "chain", !.with = d, !.load = 0]
      OBVIOUS
    <3>2. voiceCall'[c] = q
      BY <1>2, <2>3, <3>1 DEF LoadEnds
    <3>3. /\ q \in VoiceCallType /\ q.pc = "chain" /\ q.with = d /\ q.load = 0 /\ q.dir = voiceCall[c].dir
          /\ q.op = voiceCall[c].op
      <4>1. 0 \in 0..MaxLoads /\ d \in Dir \cup {NoDir}
        OBVIOUS
      <4>2. voiceCall[c] \in VoiceCallType
        BY <2>1
      <4> QED
        BY <3>1, <4>1, <4>2 DEF VoiceCallType
    <3>4. voiceCall[c].pc = "load" /\ voiceCall[c].dir = d
      BY <1>1, <1>2, <2>1, <2>3 DEF VoiceCallInv
    <3>5. VoiceCallInv(q, loads', voicePast'.mixed)
      BY <2>1, <3>3, <3>4 DEF VoiceCallInv
    <3> QED
      BY <3>2, <3>3, <3>4, <3>5
  <2>4. CASE voiceCall[c].load = l /\ ~ok
    <3>1. voiceCall'[c] = NoVoiceCall
      BY <2>4 DEF LoadEnds
    <3>2. voiceCall[c].pc = "load"
      BY <1>1, <2>1, <2>4 DEF VoiceCallInv
    <3> QED
      BY <3>1, <3>2, NoCallIsFine
  <2> QED
    BY <2>2, <2>3, <2>4
<1>8. voiceCall' \in [VoiceCall -> VoiceCallType]
  <2>1. voiceCall' = [c \in VoiceCall |-> voiceCall'[c]]
    BY DEF LoadEnds
  <2> QED
    BY <1>7, <2>1, Zenon
<1>9. VoiceModelTypeOK'
  BY <1>1, <1>3, <1>4, <1>5, <1>8, VoiceModelFacts DEF VoiceModelTypeOK, VoiceCallType, ProviderType
<1>10. Decoding' = Decoding
  BY <1>7 DEF Decoding
<1> QED
  BY <1>1, <1>6, <1>7, <1>9, <1>10 DEF VoiceModelInv

LEMMA JoinChainStep == ASSUME VoiceModelInv, NEW c \in VoiceCall, JoinChain(c) PROVE VoiceModelInv'
<1>1. /\ UNCHANGED <<provider, onDisk, chosenDir, loads, voicePast>> /\ voiceCall[c].pc = "chain"
      /\ decodes' = Append(decodes, c) /\ decodes \in Seq(VoiceCall) /\ IsInjective(decodes)
      /\ voiceCall[c] \in VoiceCallType /\ VoiceCallInv(voiceCall[c], loads, voicePast.mixed)
      /\ LoadingInv(provider, loads, voicePast.mixed)
  BY VoiceModelFacts DEF JoinChain, In
<1>2. c \notin ToSet(decodes)
  BY <1>1, VoiceModelFacts
<1>3. PICK q : q = [voiceCall[c] EXCEPT !.pc = "decode"]
  OBVIOUS
<1>4. voiceCall' = [voiceCall EXCEPT ![c] = q]
  BY <1>3, VoiceModelFacts DEF JoinChain
<1>5. /\ q \in VoiceCallType /\ q.pc = "decode" /\ q.load = voiceCall[c].load /\ q.op = voiceCall[c].op
      /\ q.dir = voiceCall[c].dir /\ q.with = voiceCall[c].with
  BY <1>1, <1>3 DEF VoiceCallType
<1>6. VoiceCallInv(q, loads', voicePast'.mixed)
  BY <1>1, <1>5 DEF VoiceCallInv
<1>7. decodes' \in Seq(VoiceCall) /\ IsInjective(decodes') /\ ToSet(decodes') = ToSet(decodes) \cup {c}
  <2>1. PICK k \in Nat : k = Len(decodes)
    BY <1>1
  <2>2. /\ decodes' \in Seq(VoiceCall) /\ DOMAIN decodes' = 1..(k + 1) /\ DOMAIN decodes = 1..k
        /\ decodes'[k + 1] = c /\ \A i \in 1..k : decodes'[i] = decodes[i]
    BY <1>1, <2>1
  <2>3. \A i \in 1..k : decodes[i] # c
    BY <1>2, <2>2 DEF ToSet
  <2> QED
    BY <1>1, <2>2, <2>3 DEF IsInjective, ToSet
<1>8. LoadsStay /\ loads' \in Seq([of : Dir, open : BOOLEAN]) /\ provider' \in ProviderType
      /\ chosenDir' \in Dir \cup {NoDir} /\ voicePast' \in [begun : 0..MaxVoiceCalls, mixed : BOOLEAN]
  BY <1>1, VoiceModelFacts DEF LoadsStay
<1> QED
  BY <1>1, <1>4, <1>5, <1>6, <1>7, <1>8, VoiceCallMoves

LEMMA DecodedStep == ASSUME VoiceModelInv, Decoded PROVE VoiceModelInv'
<1>1. /\ UNCHANGED <<provider, onDisk, chosenDir, loads, voicePast>> /\ decodes # <<>>
      /\ decodes' = Tail(decodes) /\ decodes \in Seq(VoiceCall) /\ IsInjective(decodes)
      /\ LoadingInv(provider, loads, voicePast.mixed)
  BY VoiceModelFacts DEF Decoded
<1>2. PICK c \in VoiceCall : c = Head(decodes) /\ voiceCall' = [voiceCall EXCEPT ![c] = NoVoiceCall]
  <2>1. Head(decodes) \in VoiceCall
    BY <1>1
  <2> QED
    BY <2>1 DEF Decoded, Leaves
<1>3. decodes' \in Seq(VoiceCall) /\ IsInjective(decodes') /\ ToSet(decodes') = ToSet(decodes) \ {c}
  <2>1. PICK k \in Nat : k + 1 = Len(decodes)
    BY <1>1
  <2>2. /\ decodes' \in Seq(VoiceCall) /\ DOMAIN decodes' = 1..k /\ DOMAIN decodes = 1..(k + 1)
        /\ decodes[1] = c /\ \A i \in 1..k : decodes'[i] = decodes[i + 1]
    BY <1>1, <1>2, <2>1
  <2>3. \A i \in 1..k : i + 1 \in 1..(k + 1) /\ i + 1 # 1
    OBVIOUS
  <2>4. IsInjective(decodes')
    BY <1>1, <2>2, <2>3 DEF IsInjective
  <2>5. \A i \in 1..(k + 1) : i = 1 \/ \E j \in 1..k : i = j + 1
    <3>1. \A i \in 1..(k + 1) : i = 1 \/ (i - 1 \in 1..k /\ i = (i - 1) + 1)
      OBVIOUS
    <3> QED
      BY <3>1
  <2>6. \A i \in 1..(k + 1) : i # 1 => decodes[i] # c
    BY <1>1, <2>2 DEF IsInjective
  <2>7. \A x : x \in ToSet(decodes') <=> \E i \in 1..k : x = decodes[i + 1]
    BY <2>2 DEF ToSet
  <2>8. \A x : x \in ToSet(decodes) <=> \E i \in 1..(k + 1) : x = decodes[i]
    BY <2>2 DEF ToSet
  <2>9. ToSet(decodes') = ToSet(decodes) \ {c}
    <3>1. ASSUME NEW x \in ToSet(decodes') PROVE x \in ToSet(decodes) /\ x # c
      BY <2>3, <2>6, <2>7, <2>8
    <3>2. ASSUME NEW x, x \in ToSet(decodes), x # c PROVE x \in ToSet(decodes')
      <4>1. PICK i \in 1..(k + 1) : x = decodes[i]
        BY <2>8, <3>2
      <4>2. i # 1
        BY <2>2, <3>2, <4>1
      <4>3. PICK j \in 1..k : i = j + 1
        BY <2>5, <4>2
      <4> QED
        BY <2>7, <4>1, <4>3
    <3> QED
      BY <3>1, <3>2
  <2> QED
    BY <2>2, <2>4, <2>9
<1>4. LoadsStay /\ loads' \in Seq([of : Dir, open : BOOLEAN]) /\ provider' \in ProviderType
      /\ chosenDir' \in Dir \cup {NoDir} /\ voicePast' \in [begun : 0..MaxVoiceCalls, mixed : BOOLEAN]
  BY <1>1, VoiceModelFacts DEF LoadsStay
<1>5. VoiceCallInv(NoVoiceCall, loads', voicePast'.mixed) /\ NoVoiceCall \in VoiceCallType /\ NoVoiceCall.pc # "decode"
  BY NoCallIsFine
<1> QED
  BY <1>1, <1>2, <1>3, <1>4, <1>5, VoiceCallMoves

LEMMA DownloadStep == ASSUME VoiceModelInv, FileArrives \/ DownloadFails PROVE VoiceModelInv'
<1> USE VoiceModelAssumption
<1>1. UNCHANGED <<chosenDir, loads, decodes, voiceCall, voicePast>> /\ provider.target # NoDir
  BY DEF FileArrives, DownloadFails
<1>2. PICK d \in Dir : d = provider.target
  BY <1>1, VoiceModelFacts DEF ProviderType
<1>3. /\ provider' \in ProviderType /\ provider'.key = provider.key /\ provider'.loading = provider.loading
      /\ provider'.recognizer = provider.recognizer
  <2>1. \/ provider' = [provider EXCEPT !.file = "tokens"]
        \/ provider' = [provider EXCEPT !.path = d, !.target = NoDir]
        \/ provider' = [provider EXCEPT !.target = NoDir]
    BY <1>2 DEF FileArrives, DownloadFails
  <2> QED
    BY <2>1, VoiceModelFacts DEF ProviderType
<1>4. onDisk' \in [Dir -> [model : BOOLEAN, tokens : BOOLEAN]]
  <2>1. \/ onDisk' = onDisk
        \/ \E b \in BOOLEAN : onDisk' = [onDisk EXCEPT ![d].model = b] \/ onDisk' = [onDisk EXCEPT ![d].tokens = b]
    BY <1>2 DEF FileArrives, DownloadFails
  <2>2. onDisk \in [Dir -> [model : BOOLEAN, tokens : BOOLEAN]]
    BY VoiceModelFacts
  <2>3. CASE onDisk' = onDisk
    BY <2>2, <2>3
  <2>4. ASSUME NEW b \in BOOLEAN, onDisk' = [onDisk EXCEPT ![d].model = b]
        PROVE  onDisk' \in [Dir -> [model : BOOLEAN, tokens : BOOLEAN]]
    <3>1. PICK x : x = [onDisk[d] EXCEPT !.model = b]
      OBVIOUS
    <3>2. x \in [model : BOOLEAN, tokens : BOOLEAN]
      BY <2>2, <3>1
    <3> QED
      BY <2>2, <2>4, <3>1, <3>2
  <2>5. ASSUME NEW b \in BOOLEAN, onDisk' = [onDisk EXCEPT ![d].tokens = b]
        PROVE  onDisk' \in [Dir -> [model : BOOLEAN, tokens : BOOLEAN]]
    <3>1. PICK x : x = [onDisk[d] EXCEPT !.tokens = b]
      OBVIOUS
    <3>2. x \in [model : BOOLEAN, tokens : BOOLEAN]
      BY <2>2, <3>1
    <3> QED
      BY <2>2, <2>5, <3>1, <3>2
  <2> QED
    BY <2>1, <2>3, <2>4, <2>5
<1>5. LoadingInv(provider', loads', voicePast'.mixed)
  BY <1>1, <1>3, VoiceModelFacts DEF LoadingInv
<1>6. VoiceModelTypeOK'
  BY <1>1, <1>3, <1>4, VoiceModelFacts DEF VoiceModelTypeOK, VoiceCallType, ProviderType
<1> QED
  BY <1>1, <1>5, <1>6 DEF VoiceModelInv, Decoding

LEMMA VoiceModelStep == VoiceModelInv /\ [VoiceModelNext]_voiceModelVars => VoiceModelInv'
<1> SUFFICES ASSUME VoiceModelInv, [VoiceModelNext]_voiceModelVars PROVE VoiceModelInv'
  OBVIOUS
<1>1. CASE UNCHANGED voiceModelVars
  BY <1>1 DEF voiceModelVars, VoiceModelInv, VoiceModelTypeOK, Decoding
<1> QED
  BY <1>1, BeginVoiceCallStep, ConfigReadStep, SaveConfigStep, GetRecognizerStep, LoadEndsStep, JoinChainStep,
     DecodedStep, DownloadStep DEF VoiceModelNext

LEMMA VoiceModelHolds == VoiceModelInv => VoiceModelInvariant
<1> SUFFICES ASSUME VoiceModelInv PROVE VoiceModelInvariant
  OBVIOUS
<1>1. RecognizerFits
  BY DEF VoiceModelInv, VoiceCallInv, RecognizerFits
<1>2. Decoding = {c \in VoiceCall : In(c, {"transcribe"}, "decode")}
  BY DEF VoiceModelInv, VoiceCallInv, Decoding, In
<1>3. WaitsAreServed
  BY <1>2 DEF VoiceModelInv, VoiceCallInv, WaitsAreServed
<1> QED
  BY <1>1, <1>3 DEF VoiceModelInvariant, VoiceModelInv

-----------------------------------------------------------------------------
(* Practice. A session's questions are fixed and differ, so a client can   *)
(* be sent no further than there are questions; answers are only added, so *)
(* what was answered stays answered and a mistake stays one; and a request *)
(* that nobody met finds at each await what it left.                       *)
PracticeCallType ==
  [op : {"idle", "start", "again", "answer", "patch"},
   pc : {"end", "look", "resume", "questions", "mistakes", "create", "check", "insert", "mastery",
         "dispose", "master", "told"},
   session : 0..MaxSessions, question : Question, right : BOOLEAN,
   status : MistakeStatus \cup {"none"}, seen : MistakeStatus \cup {"none"},
   chosen : Seq(Question), alone : BOOLEAN]

AnsweredIn(ts, s, q) == \E i \in DOMAIN ts : ts[i].session = s /\ ts[i].question = q
Wrong(ts, q) == \E i \in DOMAIN ts : ts[i].question = q /\ ~ts[i].right
Shown(m) == IF m.dismissed THEN "dismissed" ELSE IF m.mastered THEN "mastered" ELSE "active"
AsksOf(sess, q) == \E i \in DOMAIN sess.asked : sess.asked[i] = q

SessionInv(sess, sent, ts, s) ==
  /\ IsInjective(sess.asked) /\ sent <= Len(sess.asked)
  /\ \A i \in 1..sent : AnsweredIn(ts, s, sess.asked[i])
  /\ sess.again => \A i \in DOMAIN sess.asked : Wrong(ts, sess.asked[i])

SessionsInv(ss, ts, sent) ==
  /\ Len(ss) <= MaxSessions
  /\ \A s \in DOMAIN ss : SessionInv(ss[s], sent[s], ts, s)
  /\ \A s \in Session : s \notin DOMAIN ss => sent[s] = 0
  /\ \A i \in DOMAIN ts : ts[i].session # 0 => ts[i].session \in DOMAIN ss /\ AsksOf(ss[ts[i].session], ts[i].question)

PatchInv(q, m) ==
  /\ q.pc = "look" /\ q.op = "patch" => q.status \in MistakeStatus
  /\ q.pc = "dispose" => q.status = "dismissed" \/ (q.status = "active" /\ q.seen = "dismissed")
  /\ q.pc = "master" => q.status \in {"active", "mastered"} /\ (q.status = "active" => q.seen # "dismissed")
  /\ q.pc \in {"dispose", "master"} /\ q.alone => q.seen = Shown(m)
  /\ q.pc = "told" /\ q.alone =>
       \/ Shown(m) = q.status
       \/ q.status = "mastered" /\ q.seen = "dismissed" /\ Shown(m) = "dismissed"
       \/ q.status = "active" /\ q.seen = "dismissed" /\ Shown(m) = "mastered"

PracticeCallInv(q, ss, ts, ms) ==
  /\ q.session \in DOMAIN ss \cup {0} /\ (q.pc = "resume" => q.session # 0)
  /\ q.pc = "insert" /\ q.session # 0 => AsksOf(ss[q.session], q.question)
  /\ q.pc = "create" => IsInjective(q.chosen) /\ (q.op = "again" => \A i \in DOMAIN q.chosen : Wrong(ts, q.chosen[i]))
  /\ PatchInv(q, ms[q.question])

Looking == {"questions", "mistakes", "create"}
Busy(c) == practiceCall[c] # NoPractice

OneOpen ==
  ~calls.met => /\ \A s, t \in Open : s = t
                /\ \A c \in PracticeCall : practiceCall[c].pc \in Looking => Open = {}

PracticeInv ==
  /\ PracticeTypeOK
  /\ SessionsInv(sessions, tries, sentTo)
  /\ \A c \in PracticeCall : PracticeCallInv(practiceCall[c], sessions, tries, mark)
  /\ \A c, d \in PracticeCall : Busy(c) /\ Busy(d) /\ c # d => calls.met /\ ~practiceCall[c].alone
  /\ OneOpen

\* One place of a sequence is written.
LEMMA SeqUpdate ==
  ASSUME NEW T, NEW s \in Seq(T), NEW i \in DOMAIN s, NEW x \in T, NEW t, t = [s EXCEPT ![i] = x]
  PROVE  /\ t \in Seq(T) /\ Len(t) = Len(s) /\ DOMAIN t = DOMAIN s /\ t[i] = x
         /\ \A j \in DOMAIN s : j # i => t[j] = s[j]
OBVIOUS

LEMMA PracticeFacts ==
  ASSUME PracticeInv
  PROVE  /\ sessions \in Seq(SessionRow) /\ tries \in Seq(AttemptRow) /\ mark \in [Question -> MarkRow]
         /\ sentTo \in [Session -> 0..Len(QuestionList)] /\ practiceCall \in [PracticeCall -> PracticeCallType]
         /\ calls \in [begun : 0..MaxPracticeCalls, met : BOOLEAN]
         /\ SessionsInv(sessions, tries, sentTo) /\ OneOpen
         /\ \A c \in PracticeCall : PracticeCallInv(practiceCall[c], sessions, tries, mark)
         /\ \A c, d \in PracticeCall : Busy(c) /\ Busy(d) /\ c # d => calls.met /\ ~practiceCall[c].alone
BY DEF PracticeInv, PracticeTypeOK, PracticeCallType

LEMMA AQuestionThere == QuestionList[1] \in Question /\ Len(QuestionList) \in Nat /\ QuestionList \in Seq(Question)
<1>1. QuestionList \in Seq(Question) /\ QuestionList # <<>>
  BY PracticeAssumption DEF Question
<1>2. 1 \in DOMAIN QuestionList
  BY <1>1
<1> QED
  BY <1>1, <1>2, ElementsOf

LEMMA IdleIsFine ==
  /\ NoPractice \in PracticeCallType /\ NoPractice.pc = "end" /\ NoPractice.op = "idle" /\ NoPractice.alone
  /\ \A ss, ts, ms : PracticeCallInv(NoPractice, ss, ts, ms)
<1>1. /\ NoPractice.pc = "end" /\ NoPractice.op = "idle" /\ NoPractice.alone = TRUE /\ NoPractice.session = 0
  BY DEF NoPractice
<1>2. NoPractice \in PracticeCallType
  <2>1. 0 \in 0..MaxSessions /\ <<>> \in Seq(Question)
    BY PracticeAssumption
  <2> QED
    BY <2>1, AQuestionThere DEF NoPractice, PracticeCallType
<1> QED
  BY <1>1, <1>2 DEF PracticeCallInv, PatchInv

\* Sessions and answers are only added.
KeepsRecords ==
  /\ \A s \in DOMAIN sessions : s \in DOMAIN sessions' /\ sessions'[s].asked = sessions[s].asked
  /\ \A i \in DOMAIN tries : i \in DOMAIN tries' /\ tries'[i] = tries[i]

\* A call that stays as it is, alone or not.
LEMMA PracticeRestStays ==
  ASSUME NEW q \in PracticeCallType, PracticeCallInv(q, sessions, tries, mark), ~q.alone, KeepsRecords
  PROVE  PracticeCallInv(q, sessions', tries', mark')
<1>1. PatchInv(q, mark'[q.question])
  BY DEF PracticeCallInv, PatchInv
<1>2. q.session \in DOMAIN sessions' \cup {0} /\ (q.pc = "resume" => q.session # 0)
  BY DEF PracticeCallInv, KeepsRecords
<1>3. q.pc = "insert" /\ q.session # 0 => AsksOf(sessions'[q.session], q.question)
  BY DEF PracticeCallInv, KeepsRecords, AsksOf
<1>4. \A p : Wrong(tries, p) => Wrong(tries', p)
  BY DEF Wrong, KeepsRecords
<1>5. q.pc = "create" => IsInjective(q.chosen) /\ (q.op = "again" => \A i \in DOMAIN q.chosen : Wrong(tries', q.chosen[i]))
  BY <1>4 DEF PracticeCallInv
<1> QED
  BY <1>1, <1>2, <1>3, <1>5 DEF PracticeCallInv

\* A step of one request at work.
LEMMA PracticeMoves ==
  ASSUME PracticeInv, NEW c \in PracticeCall, Busy(c), NEW q \in PracticeCallType,
         practiceCall' = [practiceCall EXCEPT ![c] = q], calls' = calls,
         q = NoPractice \/ q.alone = practiceCall[c].alone,
         sessions' \in Seq(SessionRow), tries' \in Seq(AttemptRow), mark' \in [Question -> MarkRow],
         sentTo' \in [Session -> 0..Len(QuestionList)], KeepsRecords,
         SessionsInv(sessions', tries', sentTo'), PracticeCallInv(q, sessions', tries', mark'),
         ~calls.met => (\A s, t \in Open' : s = t) /\ (q.pc \in Looking => Open' = {})
  PROVE  PracticeInv'
<1>1. /\ practiceCall \in [PracticeCall -> PracticeCallType] /\ calls \in [begun : 0..MaxPracticeCalls, met : BOOLEAN]
      /\ \A d \in PracticeCall : PracticeCallInv(practiceCall[d], sessions, tries, mark)
      /\ \A a, b \in PracticeCall : Busy(a) /\ Busy(b) /\ a # b => calls.met /\ ~practiceCall[a].alone
  BY PracticeFacts
<1>2. /\ practiceCall' \in [PracticeCall -> PracticeCallType] /\ practiceCall'[c] = q
      /\ \A d \in PracticeCall : d # c => practiceCall'[d] = practiceCall[d]
  BY <1>1
<1>3. PracticeTypeOK'
  BY <1>1, <1>2 DEF PracticeTypeOK, PracticeCallType
<1>4. ASSUME NEW d \in PracticeCall PROVE PracticeCallInv(practiceCall'[d], sessions', tries', mark')
  <2>1. CASE d = c
    BY <1>2, <2>1
  <2>2. CASE d # c /\ Busy(d)
    BY <1>1, <1>2, <2>2, PracticeRestStays
  <2>3. CASE d # c /\ ~Busy(d)
    BY <1>2, <2>3, IdleIsFine DEF Busy
  <2> QED
    BY <2>1, <2>2, <2>3
<1>5. ASSUME NEW a \in PracticeCall, NEW b \in PracticeCall, practiceCall'[a] # NoPractice, practiceCall'[b] # NoPractice, a # b
      PROVE  calls'.met /\ ~practiceCall'[a].alone
  <2>1. Busy(a) /\ Busy(b)
    BY <1>2, <1>5 DEF Busy
  <2>2. calls.met /\ ~practiceCall[a].alone
    BY <1>1, <1>5, <2>1
  <2>3. practiceCall'[a].alone = practiceCall[a].alone
    BY <1>2, <1>5
  <2> QED
    BY <2>2, <2>3
<1>6. ASSUME ~calls'.met, NEW d \in PracticeCall, practiceCall'[d].pc \in Looking PROVE Open' = {}
  <2>1. CASE d = c
    BY <1>2, <1>6, <2>1
  <2>2. CASE d # c
    <3>1. Busy(d)
      BY <1>2, <1>6, <2>2, IdleIsFine DEF Busy, Looking
    <3> QED
      BY <1>1, <1>6, <2>2, <3>1
  <2> QED
    BY <2>1, <2>2
<1>7. OneOpen'
  BY <1>6 DEF OneOpen
<1> QED
  BY <1>3, <1>4, <1>5, <1>7 DEF PracticeInv, Busy

\* A step that touches nothing but the request.
LEMMA PracticeTurns ==
  ASSUME PracticeInv, NEW c \in PracticeCall, Busy(c), NEW q \in PracticeCallType,
         practiceCall' = [practiceCall EXCEPT ![c] = q], UNCHANGED <<sessions, tries, mark, sentTo, calls>>,
         q = NoPractice \/ q.alone = practiceCall[c].alone,
         PracticeCallInv(q, sessions, tries, mark), ~calls.met /\ q.pc \in Looking => Open = {}
  PROVE  PracticeInv'
<1>1. KeepsRecords
  BY DEF KeepsRecords
<1>2. Open' = Open /\ (~calls.met => \A s, t \in Open : s = t)
  BY PracticeFacts DEF Open, OneOpen
<1>3. /\ sessions' \in Seq(SessionRow) /\ tries' \in Seq(AttemptRow) /\ mark' \in [Question -> MarkRow]
      /\ sentTo' \in [Session -> 0..Len(QuestionList)] /\ SessionsInv(sessions', tries', sentTo')
      /\ PracticeCallInv(q, sessions', tries', mark')
  BY PracticeFacts
<1> QED
  BY <1>1, <1>2, <1>3, PracticeMoves

LEMMA PracticeInitInv == PracticeInit => PracticeInv
<1> SUFFICES ASSUME PracticeInit PROVE PracticeInv
  OBVIOUS
<1>1. /\ sessions = <<>> /\ tries = <<>> /\ sentTo = [s \in Session |-> 0]
      /\ mark = [q \in Question |-> [dismissed |-> FALSE, mastered |-> FALSE]]
      /\ practiceCall = [c \in PracticeCall |-> NoPractice] /\ calls = [begun |-> 0, met |-> FALSE]
  BY DEF PracticeInit
<1>2. PracticeTypeOK
  <2>1. sentTo \in [Session -> 0..Len(QuestionList)] /\ calls \in [begun : 0..MaxPracticeCalls, met : BOOLEAN]
    BY <1>1, AQuestionThere, PracticeAssumption
  <2>2. practiceCall \in [PracticeCall -> PracticeCallType]
    BY <1>1, IdleIsFine
  <2> QED
    BY <1>1, <2>1, <2>2 DEF PracticeTypeOK, PracticeCallType, MarkRow
<1>3. SessionsInv(sessions, tries, sentTo)
  BY <1>1, PracticeAssumption DEF SessionsInv
<1>4. \A c \in PracticeCall : practiceCall[c] = NoPractice /\ PracticeCallInv(practiceCall[c], sessions, tries, mark)
  BY <1>1, IdleIsFine
<1>5. OneOpen
  BY <1>1, <1>4, IdleIsFine DEF OneOpen, Open, Looking
<1> QED
  BY <1>2, <1>3, <1>4, <1>5 DEF PracticeInv, Busy

\* What a new request knows.
PracticeRequest(req) ==
  /\ req \in PracticeCallType /\ req.pc \in {"look", "check"}
  /\ req.session \in DOMAIN sessions \cup {0} /\ (req.op = "patch" => req.status \in MistakeStatus)

LEMMA BeginPracticeStep ==
  ASSUME PracticeInv, NEW c \in PracticeCall, NEW req, PracticeRequest(req), BeginPractice(c, req) PROVE PracticeInv'
<1> DEFINE others == {d \in PracticeCall \ {c} : practiceCall[d] # NoPractice}
           moved(d) == IF d = c THEN [req EXCEPT !.alone = (others = {})]
                                ELSE [practiceCall[d] EXCEPT !.alone = (@ /\ d \notin others)]
<1>1. /\ ~Busy(c) /\ practiceCall' = [d \in PracticeCall |-> moved(d)]
      /\ calls.begun < MaxPracticeCalls
      /\ calls' = [begun |-> calls.begun + 1, met |-> calls.met \/ others # {}]
      /\ UNCHANGED <<sessions, tries, mark, sentTo>>
  BY DEF BeginPractice, Busy
<1>2. /\ practiceCall \in [PracticeCall -> PracticeCallType] /\ calls \in [begun : 0..MaxPracticeCalls, met : BOOLEAN]
      /\ \A d \in PracticeCall : PracticeCallInv(practiceCall[d], sessions, tries, mark)
      /\ \A a, b \in PracticeCall : Busy(a) /\ Busy(b) /\ a # b => calls.met /\ ~practiceCall[a].alone
      /\ OneOpen
  BY PracticeFacts
<1>3. PICK e \in BOOLEAN : e = (others = {})
  OBVIOUS
<1>4. calls' \in [begun : 0..MaxPracticeCalls, met : BOOLEAN] /\ (~calls'.met => ~calls.met /\ others = {})
  <2>1. calls' = [begun |-> calls.begun + 1, met |-> calls.met \/ ~e]
    BY <1>1, <1>3
  <2>2. PICK b \in BOOLEAN : b = (calls.met \/ ~e)
    OBVIOUS
  <2>3. calls' = [begun |-> calls.begun + 1, met |-> b]
    BY <2>1, <2>2
  <2>4. calls.begun + 1 \in 0..MaxPracticeCalls
    BY <1>1, <1>2, PracticeAssumption
  <2>5. calls' \in [begun : 0..MaxPracticeCalls, met : BOOLEAN] /\ calls'.met = b
    BY <2>3, <2>4
  <2> QED
    BY <1>2, <1>3, <2>2, <2>5
<1>5. /\ moved(c) \in PracticeCallType /\ moved(c).pc = req.pc /\ moved(c).session = req.session
      /\ moved(c).question = req.question /\ moved(c).op = req.op /\ moved(c).status = req.status
      /\ moved(c).alone => others = {}
  <2>1. moved(c) = [req EXCEPT !.alone = e]
    BY <1>3
  <2> QED
    BY <1>3, <2>1 DEF PracticeRequest, PracticeCallType
<1>6. ASSUME NEW d \in PracticeCall, Busy(d)
      PROVE  /\ d # c /\ moved(d) \in PracticeCallType /\ ~moved(d).alone /\ others # {}
             /\ PracticeCallInv(moved(d), sessions, tries, mark) /\ moved(d).pc = practiceCall[d].pc
  <2>1. d # c /\ d \in others
    BY <1>1, <1>6 DEF Busy
  <2>2. moved(d) = [practiceCall[d] EXCEPT !.alone = FALSE]
    BY <2>1
  <2>3. PICK q : q = practiceCall[d]
    OBVIOUS
  <2>4. PICK p : p = [q EXCEPT !.alone = FALSE]
    OBVIOUS
  <2>5. q \in PracticeCallType /\ PracticeCallInv(q, sessions, tries, mark) /\ p = moved(d)
    BY <1>2, <2>2, <2>3, <2>4
  <2>6. /\ p \in PracticeCallType /\ p.alone = FALSE /\ p.pc = q.pc /\ p.op = q.op /\ p.session = q.session
        /\ p.question = q.question /\ p.status = q.status /\ p.seen = q.seen /\ p.chosen = q.chosen
    BY <2>4, <2>5 DEF PracticeCallType
  <2>7. PracticeCallInv(p, sessions, tries, mark)
    BY <2>5, <2>6 DEF PracticeCallInv, PatchInv
  <2> QED
    BY <2>1, <2>3, <2>5, <2>6, <2>7
<1>7. ASSUME NEW d \in PracticeCall, ~Busy(d), d # c PROVE moved(d) = NoPractice
  <2>1. d \notin others /\ practiceCall[d] = NoPractice
    BY <1>7 DEF Busy
  <2>2. moved(d) = [NoPractice EXCEPT !.alone = (NoPractice.alone /\ TRUE)]
    BY <1>7, <2>1
  <2>3. PICK a \in BOOLEAN : a = (NoPractice.alone /\ TRUE)
    OBVIOUS
  <2>4. a = TRUE
    BY <2>3, IdleIsFine
  <2>5. moved(d) = [NoPractice EXCEPT !.alone = TRUE]
    BY <2>2, <2>3, <2>4
  <2>6. PICK n : n = NoPractice
    OBVIOUS
  <2>7. n \in PracticeCallType /\ n.alone = TRUE
    BY <2>6, IdleIsFine DEF PracticeCallType
  <2>8. [n EXCEPT !.alone = TRUE] = n
    BY <2>7 DEF PracticeCallType
  <2> QED
    BY <2>5, <2>6, <2>8
<1>8. PracticeCallInv(moved(c), sessions, tries, mark)
  BY <1>5 DEF PracticeRequest, PracticeCallInv, PatchInv
<1> HIDE DEF moved
<1>9. \A d \in PracticeCall : practiceCall'[d] = moved(d) /\ moved(d) \in PracticeCallType
  BY <1>1, <1>5, <1>6, <1>7, IdleIsFine
<1>10. PracticeTypeOK'
  <2>1. practiceCall' \in [PracticeCall -> PracticeCallType]
    BY <1>1, <1>9
  <2> QED
    BY <1>1, <1>4, <2>1, PracticeFacts DEF PracticeTypeOK, PracticeCallType
<1>11. \A d \in PracticeCall : PracticeCallInv(practiceCall'[d], sessions', tries', mark')
  BY <1>1, <1>6, <1>7, <1>8, <1>9, IdleIsFine
<1>12. ASSUME NEW a \in PracticeCall, NEW b \in PracticeCall, practiceCall'[a] # NoPractice, practiceCall'[b] # NoPractice, a # b
       PROVE  calls'.met /\ ~practiceCall'[a].alone
  <2>1. (a = c \/ Busy(a)) /\ (b = c \/ Busy(b))
    BY <1>7, <1>9, <1>12
  <2>2. others # {}
    BY <1>6, <1>12, <2>1
  <2>3. ~moved(a).alone
    BY <1>5, <1>6, <2>1, <2>2
  <2> QED
    BY <1>4, <1>9, <2>2, <2>3 DEF PracticeTypeOK
<1>13. OneOpen'
  <2>1. Open' = Open
    BY <1>1 DEF Open
  <2>2. ASSUME ~calls'.met, NEW d \in PracticeCall, practiceCall'[d].pc \in Looking PROVE FALSE
    <3>1. d # c
      BY <1>5, <1>9, <2>2 DEF PracticeRequest, Looking
    <3>2. ~Busy(d)
      BY <1>4, <1>6, <2>2, SMTT(60)
    <3> QED
      BY <1>7, <1>9, <2>2, <3>1, <3>2, IdleIsFine DEF Looking
  <2> QED
    BY <1>2, <1>4, <2>1, <2>2 DEF OneOpen
<1> QED
  BY <1>1, <1>10, <1>11, <1>12, <1>13, PracticeFacts DEF PracticeInv, Busy

LEMMA AskPracticeStep == ASSUME PracticeInv, NEW c \in PracticeCall, AskPractice(c) PROVE PracticeInv'
<1>1. NoPractice \in PracticeCallType /\ NoPractice.session = 0
  BY IdleIsFine DEF NoPractice
<1>2. sessions \in Seq(SessionRow) /\ Len(sessions) <= MaxSessions
  BY PracticeFacts DEF SessionsInv
<1>3. CASE BeginPractice(c, [NoPractice EXCEPT !.op = "start", !.pc = "look"])
  <2>1. PracticeRequest([NoPractice EXCEPT !.op = "start", !.pc = "look"])
    BY <1>1 DEF PracticeRequest, PracticeCallType
  <2> QED
    BY <1>3, <2>1, BeginPracticeStep
<1>4. CASE BeginPractice(c, [NoPractice EXCEPT !.op = "again", !.pc = "look"])
  <2>1. PracticeRequest([NoPractice EXCEPT !.op = "again", !.pc = "look"])
    BY <1>1, ZenonT(60) DEF PracticeRequest, PracticeCallType
  <2> QED
    BY <1>4, <2>1, BeginPracticeStep
<1>5. ASSUME NEW q \in Question, NEW right \in BOOLEAN, NEW s \in 0..Len(sessions),
             BeginPractice(c, [NoPractice EXCEPT !.op = "answer", !.pc = "check", !.session = s, !.question = q, !.right = right])
      PROVE  PracticeInv'
  <2>1. s \in 0..MaxSessions /\ s \in DOMAIN sessions \cup {0}
    BY <1>2, PracticeAssumption
  <2>2. PracticeRequest([NoPractice EXCEPT !.op = "answer", !.pc = "check", !.session = s, !.question = q, !.right = right])
    BY <1>1, <2>1, ZenonT(60) DEF PracticeRequest, PracticeCallType
  <2> QED
    BY <1>5, <2>2, BeginPracticeStep
<1>6. ASSUME NEW q \in Question, NEW s \in MistakeStatus,
             BeginPractice(c, [NoPractice EXCEPT !.op = "patch", !.pc = "look", !.question = q, !.status = s])
      PROVE  PracticeInv'
  <2>1. PracticeRequest([NoPractice EXCEPT !.op = "patch", !.pc = "look", !.question = q, !.status = s])
    BY <1>1, ZenonT(60) DEF PracticeRequest, PracticeCallType
  <2> QED
    BY <1>6, <2>1, BeginPracticeStep
<1> QED
  BY <1>3, <1>4, <1>5, <1>6 DEF AskPractice

\* Who is at work, for the guards of its steps.
LEMMA AtWork == ASSUME NEW c \in PracticeCall, practiceCall[c].op # "idle" PROVE Busy(c)
BY IdleIsFine DEF Busy

LEMMA LastOfNumbers ==
  ASSUME NEW n \in Nat, NEW S \in SUBSET (0..n), S # {} PROVE \E m \in S : \A k \in S : k <= m
<1> DEFINE T == {n - x : x \in S}
<1>1. T \in SUBSET Nat /\ T # {}
  <2>1. \A x \in S : n - x \in Nat
    OBVIOUS
  <2>2. \E x \in S : n - x \in T
    OBVIOUS
  <2> QED
    BY <2>1, <2>2
<1>2. PICK t \in T : \A u \in T : t <= u
  BY <1>1, FirstOfNumbers, Zenon
<1>3. PICK m \in S : t = n - m
  BY <1>2
<1>4. \A k \in S : n - m <= n - k
  BY <1>2, <1>3
<1> QED
  BY <1>4

LEMMA OpenIsThere == ASSUME PracticeInv, Open # {} PROVE LatestOpen \in Open
<1>1. PICK k \in Nat : k = Len(sessions)
  BY PracticeFacts
<1>2. Open \in SUBSET (0..k)
  BY <1>1, PracticeFacts DEF Open
<1>3. \E s \in Open : \A t \in Open : t <= s
  BY <1>1, <1>2, LastOfNumbers
<1> QED
  BY <1>3 DEF LatestOpen

LEMMA LookForOpenStep == ASSUME PracticeInv, NEW c \in PracticeCall, LookForOpen(c) PROVE PracticeInv'
<1>1. /\ Busy(c) /\ practiceCall[c] \in PracticeCallType /\ PracticeCallInv(practiceCall[c], sessions, tries, mark)
      /\ UNCHANGED <<sessions, tries, mark, sentTo, calls>> /\ sessions \in Seq(SessionRow) /\ Len(sessions) <= MaxSessions
  BY AtWork, PracticeFacts DEF LookForOpen, Now, SessionsInv
<1>2. PICK s : s = IF Open = {} THEN 0 ELSE LatestOpen
  OBVIOUS
<1>3. PICK p : p = IF Open # {} THEN "resume" ELSE IF PracticeOf(c).op = "start" THEN "questions" ELSE "mistakes"
  OBVIOUS
<1>4. s \in 0..MaxSessions /\ s \in DOMAIN sessions \cup {0} /\ (Open # {} => s # 0)
  <2>1. Open # {} => LatestOpen \in DOMAIN sessions
    BY OpenIsThere DEF Open
  <2> QED
    BY <1>1, <1>2, <2>1, PracticeAssumption
<1>5. PICK q : q = [practiceCall[c] EXCEPT !.session = s, !.pc = p]
  OBVIOUS
<1>6. practiceCall' = [practiceCall EXCEPT ![c] = q]
  BY <1>2, <1>3, <1>5, PracticeFacts DEF LookForOpen
<1>7. p \in {"resume", "questions", "mistakes"} /\ (p \in Looking => Open = {}) /\ (p = "resume" => Open # {})
  BY <1>3 DEF Looking
<1>8. /\ q \in PracticeCallType /\ q.alone = practiceCall[c].alone /\ q.pc = p /\ q.session = s
      /\ q.question = practiceCall[c].question
  BY <1>1, <1>4, <1>5, <1>7 DEF PracticeCallType
<1>9. PracticeCallInv(q, sessions, tries, mark)
  BY <1>4, <1>7, <1>8 DEF PracticeCallInv, PatchInv
<1> QED
  BY <1>1, <1>6, <1>7, <1>8, <1>9, PracticeTurns

\* A request that is over.
LEMMA PracticeEnds ==
  ASSUME PracticeInv, NEW c \in PracticeCall, Busy(c), Ends(c), UNCHANGED <<sessions, tries, mark, sentTo, calls>>
  PROVE  PracticeInv'
BY IdleIsFine, PracticeTurns DEF Ends, Looking

LEMMA ChooseQuestionsStep == ASSUME PracticeInv, NEW c \in PracticeCall, ChooseQuestions(c) PROVE PracticeInv'
<1>1. /\ Busy(c) /\ practiceCall[c] \in PracticeCallType /\ PracticeCallInv(practiceCall[c], sessions, tries, mark)
      /\ UNCHANGED <<sessions, tries, mark, sentTo, calls>> /\ practiceCall[c].pc = "questions" /\ practiceCall[c].op = "start"
  BY AtWork, PracticeFacts DEF ChooseQuestions, Now
<1>2. CASE Ends(c)
  BY <1>1, <1>2, PracticeEnds
<1>3. CASE ~(Len(QuestionList) < Count)
  <2>1. PICK chosen : chosen = SubSeq(QuestionList, 1, Count)
    OBVIOUS
  <2>2. Count \in Nat /\ Count <= Len(QuestionList) /\ QuestionList \in Seq(Question) /\ IsInjective(QuestionList)
    BY <1>3, AQuestionThere, PracticeAssumption
  <2>3. chosen \in Seq(Question) /\ DOMAIN chosen = 1..Count /\ \A i \in 1..Count : chosen[i] = QuestionList[i]
    BY <2>1, <2>2
  <2>4. 1..Count \subseteq DOMAIN QuestionList
    BY <2>2
  <2>5. IsInjective(chosen)
    BY <2>2, <2>3, <2>4 DEF IsInjective
  <2>6. PICK q : q = [practiceCall[c] EXCEPT !.pc = "create", !.chosen = chosen]
    OBVIOUS
  <2>7. practiceCall' = [practiceCall EXCEPT ![c] = q]
    BY <1>3, <2>1, <2>6, PracticeFacts DEF ChooseQuestions
  <2>8. /\ q \in PracticeCallType /\ q.alone = practiceCall[c].alone /\ q.pc = "create" /\ q.session = practiceCall[c].session
        /\ q.op = "start" /\ q.chosen = chosen /\ q.question = practiceCall[c].question
    BY <1>1, <2>3, <2>6 DEF PracticeCallType
  <2>9. PracticeCallInv(q, sessions, tries, mark)
    BY <1>1, <2>5, <2>8 DEF PracticeCallInv, PatchInv
  <2>10. ~calls.met => Open = {}
    BY <1>1, PracticeFacts DEF OneOpen, Looking
  <2> QED
    BY <1>1, <2>7, <2>8, <2>9, <2>10, PracticeTurns
<1> QED
  BY <1>2, <1>3 DEF ChooseQuestions

LEMMA ChooseMistakesStep == ASSUME PracticeInv, NEW c \in PracticeCall, ChooseMistakes(c) PROVE PracticeInv'
<1>1. /\ Busy(c) /\ practiceCall[c] \in PracticeCallType /\ PracticeCallInv(practiceCall[c], sessions, tries, mark)
      /\ UNCHANGED <<sessions, tries, mark, sentTo, calls>> /\ practiceCall[c].pc = "mistakes" /\ practiceCall[c].op = "again"
  BY AtWork, PracticeFacts DEF ChooseMistakes, Now
<1>2. CASE Ends(c)
  BY <1>1, <1>2, PracticeEnds
<1>3. CASE ~Ends(c)
  <2> DEFINE active == {q \in Mistakes : StatusOf(q) = "active"}
  <2>0. PICK n \in 1..5 : \E chosen \in [1..n -> active] :
          IsInjective(chosen) /\ practiceCall' = [practiceCall EXCEPT ![c].pc = "create", ![c].chosen = chosen]
    BY <1>3 DEF ChooseMistakes
  <2>1. PICK chosen \in [1..n -> active] :
          IsInjective(chosen) /\ practiceCall' = [practiceCall EXCEPT ![c].pc = "create", ![c].chosen = chosen]
    BY <2>0
  <2>2. \A q \in active : q \in Question /\ Wrong(tries, q)
    BY DEF Mistakes, Wrong
  <2>3. chosen \in Seq(Question) /\ \A i \in DOMAIN chosen : Wrong(tries, chosen[i])
    BY <2>2
  <2>6. PICK q : q = [practiceCall[c] EXCEPT !.pc = "create", !.chosen = chosen]
    OBVIOUS
  <2>7. practiceCall' = [practiceCall EXCEPT ![c] = q]
    BY <2>1, <2>6, PracticeFacts
  <2>8. /\ q \in PracticeCallType /\ q.alone = practiceCall[c].alone /\ q.pc = "create" /\ q.session = practiceCall[c].session
        /\ q.op = "again" /\ q.chosen = chosen /\ q.question = practiceCall[c].question
    BY <1>1, <2>3, <2>6 DEF PracticeCallType
  <2>9. PracticeCallInv(q, sessions, tries, mark)
    BY <1>1, <2>1, <2>3, <2>8 DEF PracticeCallInv, PatchInv
  <2>10. ~calls.met => Open = {}
    BY <1>1, PracticeFacts DEF OneOpen, Looking
  <2> QED
    BY <1>1, <2>7, <2>8, <2>9, <2>10, PracticeTurns
<1> QED
  BY <1>2, <1>3

\* How far a session has got: every question before was answered.
LEMMA NextIndexIsRight ==
  ASSUME PracticeInv, NEW s \in DOMAIN sessions
  PROVE  /\ NextQuestionIndex(s) \in 0..Len(sessions[s].asked)
         /\ \A i \in 1..NextQuestionIndex(s) : AnsweredIn(tries, s, sessions[s].asked[i])
<1>1. sessions[s] \in SessionRow
  BY ElementsOf, PracticeFacts
<1>2. PICK asked \in Seq(Question) : asked = sessions[s].asked
  BY <1>1 DEF SessionRow
<1>3. PICK n \in Nat : n = Len(asked)
  BY <1>2
<1> DEFINE missing == {i \in DOMAIN asked : asked[i] \notin TriedIn(s)}
           T == {0} \cup {n - i + 1 : i \in missing}
<1>4. DOMAIN asked = 1..n
  BY <1>3
<1>5. \A i \in missing : i \in 1..n /\ n - i + 1 \in 0..n
  BY <1>4
<1>6. T \in SUBSET (0..n) /\ 0 \in T
  BY <1>5
<1>7. \E m \in T : \A k \in T : k <= m
  BY <1>6, LastOfNumbers
<1>8. Max(T) \in T /\ \A k \in T : k <= Max(T)
  <2>1. \E m \in T : \A k \in T : m >= k
    BY <1>6, <1>7
  <2>2. Max(T) \in T /\ \A k \in T : Max(T) >= k
    BY <2>1, Zenon DEF Max
  <2> QED
    BY <1>6, <2>2
<1>9. PICK m \in 0..n : m = Max(T) /\ \A k \in T : k <= m
  BY <1>6, <1>8
<1>10. NextQuestionIndex(s) = n - m
  BY <1>2, <1>3, <1>9 DEF NextQuestionIndex
<1>11. ASSUME NEW i \in 1..(n - m) PROVE AnsweredIn(tries, s, asked[i])
  <2>1. i \notin missing
    <3>1. ASSUME i \in missing PROVE FALSE
      <4>1. n - i + 1 \in T
        BY <3>1
      <4>2. n - i + 1 <= m
        BY <1>9, <4>1
      <4> QED
        BY <1>9, <4>2
    <3> QED
      BY <3>1
  <2>2. asked[i] \in TriedIn(s)
    BY <1>4, <1>9, <2>1
  <2>3. PICK j \in DOMAIN tries : tries[j].session = s /\ tries[j].question = asked[i]
    BY <2>2 DEF TriedIn
  <2> QED
    BY <2>3 DEF AnsweredIn
<1> QED
  BY <1>2, <1>3, <1>9, <1>10, <1>11

LEMMA ListsAreShort == ASSUME NEW asked \in Seq(Question), IsInjective(asked) PROVE Len(asked) <= Len(QuestionList)
<1>1. PICK n \in Nat : n = Len(asked) /\ asked \in [1..n -> Question]
  BY AQuestionThere
<1>2. PICK k \in Nat : k = Len(QuestionList) /\ QuestionList \in [1..k -> Question]
  BY AQuestionThere
<1>3. QuestionList \in Bijection(1..k, Question)
  BY <1>2, PracticeAssumption DEF IsInjective, Bijection, Injection, Surjection, Question, ToSet
<1>4. IsFiniteSet(1..k) /\ Cardinality(1..k) = k /\ IsFiniteSet(1..n) /\ Cardinality(1..n) = n
  BY FS_Interval
<1>5. IsFiniteSet(Question) /\ Cardinality(Question) = k
  <2>1. ExistsBijection(1..k, Question)
    BY <1>3 DEF ExistsBijection
  <2> QED
    BY <1>4, <2>1, FS_Bijection, Zenon
<1>6. asked \in Injection(1..n, Question)
  BY <1>1 DEF IsInjective, Injection
<1>7. n <= k
  BY <1>4, <1>5, <1>6, FS_Injection
<1> QED
  BY <1>1, <1>2, <1>7

LEMMA ResumeStep == ASSUME PracticeInv, NEW c \in PracticeCall, Resume(c) PROVE PracticeInv'
<1>1. /\ Busy(c) /\ practiceCall[c] \in PracticeCallType /\ PracticeCallInv(practiceCall[c], sessions, tries, mark)
      /\ UNCHANGED <<sessions, tries, mark, calls>> /\ practiceCall[c].pc = "resume" /\ Ends(c)
  BY AtWork, PracticeFacts DEF Resume, Now
<1>2. PICK s \in DOMAIN sessions : s = practiceCall[c].session
  BY <1>1 DEF PracticeCallInv
<1>3. PICK n : n = NextQuestionIndex(s)
  OBVIOUS
<1>4. /\ sessions \in Seq(SessionRow) /\ SessionsInv(sessions, tries, sentTo) /\ sessions[s] \in SessionRow
      /\ sentTo \in [Session -> 0..Len(QuestionList)]
  BY ElementsOf, PracticeFacts
<1>5. sentTo' = [sentTo EXCEPT ![s] = n]
  BY <1>2, <1>3 DEF Resume, PracticeOf
<1>6. n \in 0..Len(sessions[s].asked) /\ \A i \in 1..n : AnsweredIn(tries, s, sessions[s].asked[i])
  BY <1>3, NextIndexIsRight
<1>7. n \in 0..Len(QuestionList)
  <2>1. sessions[s].asked \in Seq(Question) /\ IsInjective(sessions[s].asked)
    BY <1>4 DEF SessionRow, SessionsInv, SessionInv
  <2>2. Len(sessions[s].asked) <= Len(QuestionList) /\ Len(sessions[s].asked) \in Nat
    BY <2>1, ListsAreShort
  <2> QED
    BY <1>6, <2>2, AQuestionThere
<1>8. s \in Session
  BY <1>4, PracticeAssumption DEF SessionsInv, Session
<1>9. SessionsInv(sessions', tries', sentTo')
  <2>1. sentTo'[s] = n /\ \A t \in Session : t # s => sentTo'[t] = sentTo[t]
    BY <1>4, <1>5, <1>8
  <2>2. DOMAIN sessions \subseteq Session
    BY <1>4, PracticeAssumption DEF SessionsInv, Session
  <2>3. SessionInv(sessions[s], n, tries, s)
    BY <1>4, <1>6 DEF SessionsInv, SessionInv
  <2>4. \A t \in DOMAIN sessions : SessionInv(sessions[t], sentTo'[t], tries, t)
    BY <1>4, <2>1, <2>2, <2>3 DEF SessionsInv
  <2> QED
    BY <1>1, <1>4, <2>1, <2>4 DEF SessionsInv
<1>10. /\ KeepsRecords /\ sentTo' \in [Session -> 0..Len(QuestionList)] /\ Open' = Open
       /\ ~calls.met => \A a, b \in Open : a = b
  BY <1>1, <1>4, <1>5, <1>7, PracticeFacts DEF KeepsRecords, Open, OneOpen
<1>11. /\ sessions' \in Seq(SessionRow) /\ tries' \in Seq(AttemptRow) /\ mark' \in [Question -> MarkRow]
       /\ practiceCall' = [practiceCall EXCEPT ![c] = NoPractice] /\ NoPractice.pc \notin Looking
  BY <1>1, PracticeFacts, IdleIsFine DEF Ends, Looking
<1> QED
  BY <1>1, <1>9, <1>10, <1>11, IdleIsFine, PracticeMoves

LEMMA CreateSessionStep == ASSUME PracticeInv, NEW c \in PracticeCall, CreateSession(c) PROVE PracticeInv'
<1>1. /\ Busy(c) /\ practiceCall[c] \in PracticeCallType /\ PracticeCallInv(practiceCall[c], sessions, tries, mark)
      /\ UNCHANGED <<tries, mark, sentTo, calls>> /\ practiceCall[c].pc = "create" /\ Ends(c)
      /\ Len(sessions) < MaxSessions
  BY AtWork, PracticeFacts DEF CreateSession, Now
<1>2. /\ sessions \in Seq(SessionRow) /\ SessionsInv(sessions, tries, sentTo)
      /\ sentTo \in [Session -> 0..Len(QuestionList)]
  BY PracticeFacts
<1>3. PICK a \in BOOLEAN : a = (practiceCall[c].op = "again")
  OBVIOUS
<1>4. PICK r : r = [asked |-> practiceCall[c].chosen, open |-> TRUE, again |-> a]
  OBVIOUS
<1>5. sessions' = Append(sessions, r)
  BY <1>3, <1>4 DEF CreateSession, PracticeOf
<1>6. /\ r \in SessionRow /\ r.asked = practiceCall[c].chosen /\ (r.again => practiceCall[c].op = "again")
      /\ r.asked \in Seq(Question)
  BY <1>1, <1>3, <1>4 DEF SessionRow, PracticeCallType
<1>7. PICK n \in Nat : n = Len(sessions)
  BY <1>2
<1>8. /\ sessions' \in Seq(SessionRow) /\ Len(sessions') = n + 1 /\ DOMAIN sessions' = 1..(n + 1) /\ DOMAIN sessions = 1..n
      /\ sessions'[n + 1] = r /\ \A s \in 1..n : sessions'[s] = sessions[s]
  BY <1>2, <1>5, <1>6, <1>7
<1>9. n + 1 \in Session /\ n + 1 \notin DOMAIN sessions
  BY <1>1, <1>7, <1>8, PracticeAssumption DEF Session
<1>10. SessionInv(r, sentTo[n + 1], tries, n + 1)
  <2>1. sentTo[n + 1] = 0
    BY <1>2, <1>9 DEF SessionsInv
  <2>2. IsInjective(r.asked) /\ (r.again => \A i \in DOMAIN r.asked : Wrong(tries, r.asked[i])) /\ Len(r.asked) \in Nat
    BY <1>1, <1>6 DEF PracticeCallInv
  <2> QED
    BY <2>1, <2>2 DEF SessionInv
<1>11. SessionsInv(sessions', tries', sentTo')
  <2>1. \A s \in DOMAIN sessions' : SessionInv(sessions'[s], sentTo[s], tries, s)
    <3>1. \A s \in 1..(n + 1) : s \in 1..n \/ s = n + 1
      OBVIOUS
    <3> QED
      BY <1>2, <1>8, <1>10, <3>1 DEF SessionsInv
  <2>2. Len(sessions') <= MaxSessions /\ DOMAIN sessions \subseteq DOMAIN sessions'
    BY <1>1, <1>7, <1>8, PracticeAssumption
  <2>3. \A i \in DOMAIN tries : tries[i].session # 0 =>
          tries[i].session \in DOMAIN sessions' /\ AsksOf(sessions'[tries[i].session], tries[i].question)
    BY <1>2, <1>8, <2>2 DEF SessionsInv
  <2>4. \A s \in Session : s \notin DOMAIN sessions' => sentTo[s] = 0
    BY <1>2, <2>2 DEF SessionsInv
  <2> QED
    BY <1>1, <2>1, <2>2, <2>3, <2>4 DEF SessionsInv
<1>12. KeepsRecords
  BY <1>1, <1>8 DEF KeepsRecords
<1>13. ASSUME ~calls.met PROVE \A s, t \in Open' : s = t
  <2>1. Open = {}
    BY <1>1, <1>13, PracticeFacts DEF OneOpen, Looking
  <2>2. \A s \in Open' : s = n + 1
    BY <1>8, <2>1 DEF Open
  <2> QED
    BY <2>2
<1>14. /\ sentTo' \in [Session -> 0..Len(QuestionList)] /\ tries' \in Seq(AttemptRow) /\ mark' \in [Question -> MarkRow]
       /\ practiceCall' = [practiceCall EXCEPT ![c] = NoPractice] /\ NoPractice.pc \notin Looking
  BY <1>1, PracticeFacts, IdleIsFine DEF Ends, Looking
<1> QED
  BY <1>1, <1>8, <1>11, <1>12, <1>13, <1>14, IdleIsFine, PracticeMoves

LEMMA CompleteSessionStep == ASSUME PracticeInv, NEW s \in Session, CompleteSession(s) PROVE PracticeInv'
<1>1. /\ UNCHANGED <<tries, mark, sentTo, practiceCall, calls>> /\ s \in DOMAIN sessions
      /\ sessions' = [sessions EXCEPT ![s].open = FALSE]
      /\ sessions \in Seq(SessionRow) /\ SessionsInv(sessions, tries, sentTo)
  BY PracticeFacts DEF CompleteSession, Open
<1>2. PICK r : r = [sessions[s] EXCEPT !.open = FALSE]
  OBVIOUS
<1>3. sessions[s] \in SessionRow /\ sessions' = [sessions EXCEPT ![s] = r]
  BY <1>1, <1>2, ElementsOf
<1>4. r \in SessionRow /\ r.asked = sessions[s].asked /\ r.again = sessions[s].again /\ r.open = FALSE
  BY <1>2, <1>3 DEF SessionRow
<1>5. /\ sessions' \in Seq(SessionRow) /\ Len(sessions') = Len(sessions) /\ DOMAIN sessions' = DOMAIN sessions
      /\ sessions'[s] = r /\ \A t \in DOMAIN sessions : t # s => sessions'[t] = sessions[t]
  <2>1. PICK t : t = sessions'
    OBVIOUS
  <2>2. t = [sessions EXCEPT ![s] = r]
    BY <1>3, <2>1
  <2>3. /\ t \in Seq(SessionRow) /\ Len(t) = Len(sessions) /\ DOMAIN t = DOMAIN sessions /\ t[s] = r
        /\ \A j \in DOMAIN sessions : j # s => t[j] = sessions[j]
    BY <1>1, <1>4, <2>2, SeqUpdate
  <2> QED
    BY <2>1, <2>3
<1>6. \A t \in DOMAIN sessions : sessions'[t].asked = sessions[t].asked /\ sessions'[t].again = sessions[t].again
  BY <1>4, <1>5
<1>7. SessionsInv(sessions', tries', sentTo')
  <2>1. \A t \in DOMAIN sessions' : SessionInv(sessions'[t], sentTo[t], tries, t)
    BY <1>1, <1>5, <1>6 DEF SessionsInv, SessionInv
  <2>2. \A i \in DOMAIN tries : tries[i].session # 0 =>
          tries[i].session \in DOMAIN sessions' /\ AsksOf(sessions'[tries[i].session], tries[i].question)
    BY <1>1, <1>5, <1>6 DEF SessionsInv, AsksOf
  <2> QED
    BY <1>1, <1>5, <2>1, <2>2 DEF SessionsInv
<1>8. \A c \in PracticeCall : PracticeCallInv(practiceCall'[c], sessions', tries', mark')
  <2>1. ASSUME NEW q, PracticeCallInv(q, sessions, tries, mark) PROVE PracticeCallInv(q, sessions', tries, mark)
    BY <1>5, <1>6, <2>1 DEF PracticeCallInv, AsksOf
  <2> QED
    BY <1>1, <2>1, PracticeFacts
<1>9. Open' \subseteq Open
  BY <1>4, <1>5 DEF Open
<1>10. OneOpen'
  BY <1>1, <1>9, PracticeFacts DEF OneOpen
<1>11. PracticeTypeOK'
  BY <1>1, <1>5, PracticeFacts DEF PracticeTypeOK, PracticeCallType
<1>12. \A a, b \in PracticeCall : practiceCall'[a] # NoPractice /\ practiceCall'[b] # NoPractice /\ a # b => calls'.met /\ ~practiceCall'[a].alone
  BY <1>1, PracticeFacts DEF Busy
<1> QED
  BY <1>7, <1>8, <1>10, <1>11, <1>12 DEF PracticeInv, Busy

LEMMA CheckSessionStep == ASSUME PracticeInv, NEW c \in PracticeCall, CheckSession(c) PROVE PracticeInv'
<1>1. /\ Busy(c) /\ practiceCall[c] \in PracticeCallType /\ PracticeCallInv(practiceCall[c], sessions, tries, mark)
      /\ UNCHANGED <<sessions, tries, mark, sentTo, calls>>
  BY AtWork, PracticeFacts DEF CheckSession, Now
<1>2. CASE Ends(c)
  BY <1>1, <1>2, PracticeEnds
<1>3. CASE ~Ends(c)
  <2>1. /\ Turns(c, "insert")
        /\ practiceCall[c].session # 0 => practiceCall[c].question \in ToSet(sessions[practiceCall[c].session].asked)
    BY <1>3 DEF CheckSession, PracticeOf
  <2>2. practiceCall[c].session # 0 => AsksOf(sessions[practiceCall[c].session], practiceCall[c].question)
    BY <2>1, Zenon DEF ToSet, AsksOf
  <2>3. PICK q : q = [practiceCall[c] EXCEPT !.pc = "insert"]
    OBVIOUS
  <2>4. practiceCall' = [practiceCall EXCEPT ![c] = q]
    BY <2>1, <2>3, PracticeFacts DEF Turns
  <2>5. /\ q \in PracticeCallType /\ q.alone = practiceCall[c].alone /\ q.pc = "insert" /\ q.session = practiceCall[c].session
        /\ q.question = practiceCall[c].question
    BY <1>1, <2>3 DEF PracticeCallType
  <2>6. PracticeCallInv(q, sessions, tries, mark) /\ q.pc \notin Looking
    BY <1>1, <2>2, <2>5 DEF PracticeCallInv, PatchInv, Looking
  <2> QED
    BY <1>1, <2>4, <2>5, <2>6, PracticeTurns
<1> QED
  BY <1>2, <1>3

LEMMA RecordAttemptStep == ASSUME PracticeInv, NEW c \in PracticeCall, RecordAttempt(c) PROVE PracticeInv'
<1>1. /\ Busy(c) /\ practiceCall[c] \in PracticeCallType /\ PracticeCallInv(practiceCall[c], sessions, tries, mark)
      /\ UNCHANGED <<sessions, mark, sentTo, calls>> /\ practiceCall[c].pc = "insert"
      /\ sessions \in Seq(SessionRow) /\ tries \in Seq(AttemptRow) /\ SessionsInv(sessions, tries, sentTo)
  BY AtWork, PracticeFacts DEF RecordAttempt, Now
<1>2. PICK t : t = [session |-> practiceCall[c].session, question |-> practiceCall[c].question, right |-> practiceCall[c].right]
  OBVIOUS
<1>3. tries' = Append(tries, t)
  BY <1>2 DEF RecordAttempt, PracticeOf
<1>4. t \in AttemptRow /\ t.session = practiceCall[c].session /\ t.question = practiceCall[c].question
  BY <1>1, <1>2 DEF AttemptRow, PracticeCallType
<1>5. PICK n \in Nat : n = Len(tries)
  BY <1>1
<1>6. /\ tries' \in Seq(AttemptRow) /\ DOMAIN tries' = 1..(n + 1) /\ DOMAIN tries = 1..n
      /\ tries'[n + 1] = t /\ \A i \in 1..n : tries'[i] = tries[i]
  BY <1>1, <1>3, <1>4, <1>5
<1>7. DOMAIN tries \subseteq DOMAIN tries' /\ \A i \in DOMAIN tries' : i \in DOMAIN tries \/ i = n + 1
  BY <1>6
<1>8. \A s, p : AnsweredIn(tries, s, p) => AnsweredIn(tries', s, p)
  BY <1>6, <1>7 DEF AnsweredIn
<1>9. \A p : Wrong(tries, p) => Wrong(tries', p)
  BY <1>6, <1>7 DEF Wrong
<1>10. SessionsInv(sessions', tries', sentTo')
  <2>1. \A s \in DOMAIN sessions : SessionInv(sessions[s], sentTo[s], tries', s)
    BY <1>1, <1>8, <1>9 DEF SessionsInv, SessionInv
  <2>2. \A i \in DOMAIN tries' : tries'[i].session # 0 =>
          tries'[i].session \in DOMAIN sessions /\ AsksOf(sessions[tries'[i].session], tries'[i].question)
    BY <1>1, <1>4, <1>6, <1>7 DEF SessionsInv, PracticeCallInv
  <2> QED
    BY <1>1, <2>1, <2>2 DEF SessionsInv
<1>11. KeepsRecords
  BY <1>1, <1>6, <1>7 DEF KeepsRecords
<1>12. PICK q \in PracticeCallType : /\ practiceCall' = [practiceCall EXCEPT ![c] = q] /\ q.pc \notin Looking
                                     /\ q = NoPractice \/ q.alone = practiceCall[c].alone
                                     /\ PracticeCallInv(q, sessions', tries', mark')
  <2>1. CASE Ends(c)
    BY <2>1, IdleIsFine DEF Ends, Looking
  <2>2. CASE Turns(c, "mastery")
    <3>1. PICK q : q = [practiceCall[c] EXCEPT !.pc = "mastery"]
      OBVIOUS
    <3>2. practiceCall' = [practiceCall EXCEPT ![c] = q]
      BY <2>2, <3>1, PracticeFacts DEF Turns
    <3>3. /\ q \in PracticeCallType /\ q.alone = practiceCall[c].alone /\ q.pc = "mastery" /\ q.session = practiceCall[c].session
      BY <1>1, <3>1 DEF PracticeCallType
    <3>4. PracticeCallInv(q, sessions', tries', mark')
      BY <1>1, <3>3 DEF PracticeCallInv, PatchInv
    <3> QED
      BY <3>2, <3>3, <3>4 DEF Looking
  <2> QED
    BY <2>1, <2>2 DEF RecordAttempt
<1>13. /\ Open' = Open /\ (~calls.met => \A a, b \in Open : a = b)
       /\ sentTo' \in [Session -> 0..Len(QuestionList)] /\ mark' \in [Question -> MarkRow] /\ sessions' \in Seq(SessionRow)
  BY <1>1, PracticeFacts DEF Open, OneOpen
<1> QED
  BY <1>1, <1>6, <1>10, <1>11, <1>12, <1>13, PracticeMoves

\* A mark is written.
LEMMA MarkMoves ==
  ASSUME PracticeInv, NEW c \in PracticeCall, Busy(c), NEW q \in PracticeCallType,
         practiceCall' = [practiceCall EXCEPT ![c] = q], UNCHANGED <<sessions, tries, sentTo, calls>>,
         mark' \in [Question -> MarkRow], q.pc \notin Looking, q = NoPractice \/ q.alone = practiceCall[c].alone,
         PracticeCallInv(q, sessions, tries, mark')
  PROVE  PracticeInv'
<1>1. /\ KeepsRecords /\ Open' = Open /\ (~calls.met => \A a, b \in Open : a = b)
  BY PracticeFacts DEF KeepsRecords, Open, OneOpen
<1>2. /\ sentTo' \in [Session -> 0..Len(QuestionList)] /\ sessions' \in Seq(SessionRow) /\ tries' \in Seq(AttemptRow)
      /\ SessionsInv(sessions', tries', sentTo')
  BY PracticeFacts
<1> QED
  BY <1>1, <1>2, PracticeMoves

LEMMA PracticeStateStep == ASSUME PracticeInv, NEW c \in PracticeCall, PracticeState(c) PROVE PracticeInv'
<1>1. /\ Busy(c) /\ practiceCall[c] \in PracticeCallType /\ UNCHANGED <<sessions, tries, sentTo, calls>> /\ Ends(c)
      /\ mark \in [Question -> MarkRow]
  BY AtWork, PracticeFacts DEF PracticeState, Now
<1>2. PICK b \in BOOLEAN : mark' = [mark EXCEPT ![PracticeOf(c).question].mastered = b]
  BY DEF PracticeState
<1>3. PICK p \in Question : p = PracticeOf(c).question
  BY <1>1 DEF PracticeCallType, PracticeOf
<1>4. PICK m : m = [mark[p] EXCEPT !.mastered = b]
  OBVIOUS
<1>5. mark' = [mark EXCEPT ![p] = m] /\ m \in MarkRow
  BY <1>1, <1>2, <1>3, <1>4 DEF MarkRow
<1>6. mark' \in [Question -> MarkRow]
  BY <1>1, <1>5
<1> QED
  BY <1>1, <1>6, IdleIsFine, MarkMoves DEF Ends, Looking

LEMMA FindMistakeStep == ASSUME PracticeInv, NEW c \in PracticeCall, FindMistake(c) PROVE PracticeInv'
<1>1. /\ Busy(c) /\ practiceCall[c] \in PracticeCallType /\ PracticeCallInv(practiceCall[c], sessions, tries, mark)
      /\ UNCHANGED <<sessions, tries, mark, sentTo, calls>> /\ practiceCall \in [PracticeCall -> PracticeCallType]
      /\ practiceCall[c].op = "patch" /\ practiceCall[c].pc = "look" /\ mark \in [Question -> MarkRow]
  BY AtWork, PracticeFacts DEF FindMistake, Now
<1> DEFINE asked == practiceCall[c].status
<1>2. PICK p \in Question : p = practiceCall[c].question
  BY <1>1 DEF PracticeCallType
<1>3. PICK s \in MistakeStatus : s = StatusOf(p) /\ s = Shown(mark[p])
  BY <1>2 DEF StatusOf, Shown, MistakeStatus
<1>4. \/ Ends(c)
      \/ /\ asked = "dismissed" \/ (asked = "active" /\ s = "dismissed")
         /\ practiceCall' = [practiceCall EXCEPT ![c] = [practiceCall[c] EXCEPT !.seen = s, !.pc = "dispose"]]
      \/ /\ ~(asked = "dismissed" \/ (asked = "active" /\ s = "dismissed"))
         /\ practiceCall' = [practiceCall EXCEPT ![c] = [practiceCall[c] EXCEPT !.seen = s, !.pc = "master"]]
  BY <1>1, <1>2, <1>3 DEF FindMistake, PracticeOf, Ends
<1>5. CASE Ends(c)
  BY <1>1, <1>5, PracticeEnds
<1>6. ASSUME NEW w \in {"dispose", "master"},
             practiceCall' = [practiceCall EXCEPT ![c] = [practiceCall[c] EXCEPT !.seen = s, !.pc = w]],
             w = "dispose" <=> asked = "dismissed" \/ (asked = "active" /\ s = "dismissed"),
             asked \in MistakeStatus
      PROVE  PracticeInv'
  <2>1. PICK q : q = [practiceCall[c] EXCEPT !.seen = s, !.pc = w]
    OBVIOUS
  <2>2. practiceCall' = [practiceCall EXCEPT ![c] = q]
    BY <1>6, <2>1
  <2>3. /\ q \in PracticeCallType /\ q.alone = practiceCall[c].alone /\ q.pc = w /\ q.session = practiceCall[c].session
        /\ q.question = p /\ q.status = asked /\ q.seen = s
    BY <1>1, <1>2, <1>3, <2>1 DEF PracticeCallType
  <2>4. PatchInv(q, mark[p])
    BY <1>3, <1>6, <2>3 DEF PatchInv, MistakeStatus
  <2>5. PracticeCallInv(q, sessions, tries, mark) /\ q.pc \notin Looking
    BY <1>1, <1>6, <2>3, <2>4 DEF PracticeCallInv, Looking
  <2> QED
    BY <1>1, <2>2, <2>3, <2>5, PracticeTurns
<1>7. asked \in MistakeStatus
  BY <1>1 DEF PracticeCallInv, PatchInv
<1> HIDE DEF asked
<1> QED
  BY <1>4, <1>5, <1>6, <1>7

\* The two writes of a PATCH: a call that nobody met finds the mark as it saw it.
LEMMA PatchWrites ==
  ASSUME PracticeInv, NEW c \in PracticeCall, Busy(c), Turns(c, "told"), UNCHANGED <<sessions, tries, sentTo, calls>>,
         NEW b \in BOOLEAN,
         \/ /\ practiceCall[c].pc = "dispose" /\ b = (practiceCall[c].status = "dismissed")
            /\ mark' = [mark EXCEPT ![practiceCall[c].question].dismissed = b]
         \/ /\ practiceCall[c].pc = "master" /\ b = (practiceCall[c].status = "mastered")
            /\ mark' = [mark EXCEPT ![practiceCall[c].question].mastered = b]
  PROVE  PracticeInv'
<1>1. /\ practiceCall[c] \in PracticeCallType /\ PracticeCallInv(practiceCall[c], sessions, tries, mark)
      /\ mark \in [Question -> MarkRow]
  BY PracticeFacts
<1>2. PICK p \in Question : p = practiceCall[c].question
  BY <1>1 DEF PracticeCallType
<1>3. PICK m, n : m = [mark[p] EXCEPT !.dismissed = b] /\ n = [mark[p] EXCEPT !.mastered = b]
  OBVIOUS
<1>4. mark[p] \in MarkRow
  BY <1>1
<1>5. /\ m \in MarkRow /\ m.dismissed = b /\ m.mastered = mark[p].mastered
      /\ n \in MarkRow /\ n.mastered = b /\ n.dismissed = mark[p].dismissed
  BY <1>3, <1>4 DEF MarkRow
<1>6. PICK w \in {m, n} : /\ mark' = [mark EXCEPT ![p] = w]
                          /\ \/ w = m /\ practiceCall[c].pc = "dispose" /\ b = (practiceCall[c].status = "dismissed")
                             \/ w = n /\ practiceCall[c].pc = "master" /\ b = (practiceCall[c].status = "mastered")
  BY <1>1, <1>2, <1>3
<1>7. mark' \in [Question -> MarkRow] /\ mark'[p] = w
  BY <1>1, <1>5, <1>6
<1>8. PICK q : q = [practiceCall[c] EXCEPT !.pc = "told"]
  OBVIOUS
<1>9. practiceCall' = [practiceCall EXCEPT ![c] = q]
  BY <1>8, PracticeFacts DEF Turns
<1>10. /\ q \in PracticeCallType /\ q.alone = practiceCall[c].alone /\ q.pc = "told" /\ q.session = practiceCall[c].session
       /\ q.question = p /\ q.status = practiceCall[c].status /\ q.seen = practiceCall[c].seen
  BY <1>1, <1>2, <1>8 DEF PracticeCallType
<1>11. PatchInv(practiceCall[c], mark[p])
  BY <1>1, <1>2 DEF PracticeCallInv
<1>12. PatchInv(q, w)
  <2>1. CASE w = m /\ practiceCall[c].pc = "dispose" /\ b = (practiceCall[c].status = "dismissed")
    BY <1>4, <1>5, <1>10, <1>11, <2>1 DEF PatchInv, Shown
  <2>2. CASE w = n /\ practiceCall[c].pc = "master" /\ b = (practiceCall[c].status = "mastered")
    BY <1>4, <1>5, <1>10, <1>11, <2>2 DEF PatchInv, Shown
  <2> QED
    BY <1>6, <2>1, <2>2
<1>13. PracticeCallInv(q, sessions, tries, mark') /\ q.pc \notin Looking
  BY <1>1, <1>7, <1>10, <1>12 DEF PracticeCallInv, Looking
<1> QED
  BY <1>7, <1>9, <1>10, <1>13, MarkMoves

LEMMA SetDispositionStep == ASSUME PracticeInv, NEW c \in PracticeCall, SetDisposition(c) \/ UpdateMastery(c) PROVE PracticeInv'
<1>1. /\ Busy(c) /\ Turns(c, "told") /\ UNCHANGED <<sessions, tries, sentTo, calls>>
  BY AtWork DEF SetDisposition, UpdateMastery, Now
<1>2. CASE SetDisposition(c)
  <2>1. PICK b \in BOOLEAN : b = (practiceCall[c].status = "dismissed")
    OBVIOUS
  <2>2. practiceCall[c].pc = "dispose" /\ mark' = [mark EXCEPT ![practiceCall[c].question].dismissed = b]
    BY <1>2, <2>1 DEF SetDisposition, Now, PracticeOf
  <2> QED
    BY <1>1, <2>1, <2>2, PatchWrites
<1>3. CASE UpdateMastery(c)
  <2>1. PICK b \in BOOLEAN : b = (practiceCall[c].status = "mastered")
    OBVIOUS
  <2>2. practiceCall[c].pc = "master" /\ mark' = [mark EXCEPT ![practiceCall[c].question].mastered = b]
    BY <1>3, <2>1 DEF UpdateMastery, Now, PracticeOf
  <2> QED
    BY <1>1, <2>1, <2>2, PatchWrites
<1> QED
  BY <1>2, <1>3

LEMMA PracticeStep == PracticeInv /\ [PracticeNext]_practiceVars => PracticeInv'
<1> SUFFICES ASSUME PracticeInv, [PracticeNext]_practiceVars PROVE PracticeInv'
  OBVIOUS
<1>1. CASE UNCHANGED practiceVars
  BY <1>1 DEF practiceVars, PracticeInv, PracticeTypeOK, OneOpen, Open, Busy
<1>2. ASSUME NEW c \in PracticeCall, PatchAnswered(c) PROVE PracticeInv'
  BY <1>2, AtWork, PracticeEnds DEF PatchAnswered, Now
<1> QED
  BY <1>1, <1>2, AskPracticeStep, LookForOpenStep, ResumeStep, ChooseQuestionsStep, ChooseMistakesStep, CreateSessionStep,
     CheckSessionStep, RecordAttemptStep, PracticeStateStep, FindMistakeStep, SetDispositionStep, CompleteSessionStep
     DEF PracticeNext

LEMMA PracticeHolds == PracticeInv => PracticeInvariant
<1> SUFFICES ASSUME PracticeInv PROVE PracticeInvariant
  OBVIOUS
<1>1. /\ sessions \in Seq(SessionRow) /\ SessionsInv(sessions, tries, sentTo) /\ OneOpen
      /\ practiceCall \in [PracticeCall -> PracticeCallType] /\ mark \in [Question -> MarkRow]
      /\ \A c \in PracticeCall : PracticeCallInv(practiceCall[c], sessions, tries, mark)
  BY PracticeFacts
<1>2. NothingIsPassedOver
  <2>1. ASSUME NEW s \in DOMAIN sessions, NEW i \in 1..sentTo[s] PROVE sessions[s].asked[i] \in TriedIn(s)
    <3>1. AnsweredIn(tries, s, sessions[s].asked[i])
      BY <1>1 DEF SessionsInv, SessionInv
    <3> QED
      BY <3>1 DEF AnsweredIn, TriedIn
  <2> QED
    BY <2>1 DEF NothingIsPassedOver
<1>3. AnswersBelong
  <2>1. ASSUME NEW i \in DOMAIN tries, tries[i].session # 0
        PROVE  tries[i].question \in ToSet(sessions[tries[i].session].asked)
    <3>1. AsksOf(sessions[tries[i].session], tries[i].question)
      BY <1>1, <2>1 DEF SessionsInv
    <3> QED
      BY <3>1, Zenon DEF AsksOf, ToSet
  <2>2. ASSUME NEW s \in DOMAIN sessions, sessions[s].again, NEW p \in ToSet(sessions[s].asked) PROVE p \in Mistakes
    <3>1. PICK i \in DOMAIN sessions[s].asked : p = sessions[s].asked[i]
      BY <2>2, Zenon DEF ToSet
    <3>2. Wrong(tries, p)
      BY <1>1, <2>2, <3>1 DEF SessionsInv, SessionInv
    <3>3. sessions[s] \in SessionRow
      BY <1>1, ElementsOf
    <3>4. p \in Question
      BY <3>1, <3>3 DEF SessionRow
    <3> QED
      BY <3>2, <3>4 DEF Wrong, Mistakes
  <2> QED
    BY <2>1, <2>2 DEF AnswersBelong
<1>4. OneSessionOpen
  <2>1. ASSUME ~calls.met PROVE Cardinality(Open) <= 1
    <3>1. CASE Open = {}
      BY <3>1, FS_EmptySet
    <3>2. CASE Open # {}
      <4>1. PICK s \in Open : TRUE
        BY <3>2
      <4>2. Open = {s}
        BY <1>1, <2>1, <4>1 DEF OneOpen
      <4>3. Cardinality(Open) = 1
        BY <4>2, FS_Singleton, Zenon
      <4> QED
        BY <4>3
    <3> QED
      BY <3>1, <3>2
  <2> QED
    BY <2>1 DEF OneSessionOpen
<1>5. PatchIsShown
  <2>1. ASSUME NEW c \in PracticeCall PROVE practiceCall[c].question \in Question /\ PatchInv(practiceCall[c], mark[practiceCall[c].question])
    BY <1>1 DEF PracticeCallInv, PracticeCallType
  <2>2. \A p : StatusOf(p) = Shown(mark[p])
    BY DEF StatusOf, Shown
  <2> QED
    BY <2>1, <2>2 DEF PatchInv, PatchIsShown, PracticeOf
<1> QED
  BY <1>2, <1>3, <1>4, <1>5 DEF PracticeInv, PracticeInvariant

-----------------------------------------------------------------------------
(* Study materials. The versions of a material are a chain: an editor that *)
(* superseded one inserts the next number or is refused; what a reader is  *)
(* shown grows as long as a material has one writer at a time; a material  *)
(* that was wholly created gets no further sources; and a key of which one *)
(* request at a time is under way is looked up before it is used.          *)
MaterialCallType ==
  [op : {"idle", "create", "edit", "delete", "read"},
   pc : {"end", "key", "row", "number", "insert", "current", "cite", "look", "active", "supersede",
         "mark", "editions", "invalidate", "told"},
   key : MaterialKey \cup {NoKey}, material : 0..MaxMaterials, version : 0..MaxEditions + 1,
   edition : 0..MaxEditions, left : Seq(0..MaxEditions)]
PastType == [begun : 0..MaxMaterialCalls, died : 0..MaxMaterialDeaths, keys : SUBSET MaterialKey,
             mixed : SUBSET Material, newest : [Material -> 0..MaxEditions]]
Writer == {"create", "edit", "delete"}

IsOf(es, e, m) == e \in DOMAIN es /\ es[e].material = m
Below(es, m, n) == \A e \in DOMAIN es : es[e].material = m => es[e].version < n

\* The versions of m are 1..n, each once, and only the last can be active.
ChainOf(es, m, n) ==
  /\ \A e \in DOMAIN es : es[e].material = m => es[e].version \in 1..n /\ (es[e].superseded \/ es[e].version = n)
  /\ \A v \in 1..n : \E e \in DOMAIN es : es[e].material = m /\ es[e].version = v
  /\ \A e, f \in DOMAIN es : es[e].material = m /\ es[f].material = m /\ es[e].version = es[f].version => e = f

EditionsInv(ms, es) ==
  /\ Len(ms) <= MaxMaterials /\ Len(es) <= MaxEditions
  /\ \A e \in DOMAIN es : es[e].material \in DOMAIN ms /\ es[e].version <= e
  /\ \A m \in Material : \E n \in 0..MaxEditions : ChainOf(es, m, n)

RowInv(r, es, m) ==
  /\ r.current # 0 => IsOf(es, r.current, m)
  /\ r.whole => r.created /\ r.deleted /\ r.status = "deleted"
  /\ r.swept => r.deleted

NewestInv(ms, es, newest, mixed, m) ==
  newest[m] # 0 =>
    /\ m \in DOMAIN ms
    /\ \E e \in DOMAIN es : es[e].material = m /\ es[e].version = newest[m]
    /\ m \notin mixed => ms[m].current # 0 /\ es[ms[m].current].version >= newest[m]

CitationInv(x, ms, es) ==
  /\ x.edition \in DOMAIN es
  /\ ms[es[x.edition].material].whole /\ ms[es[x.edition].material].swept => ~x.valid

KeysInv(ms, keys) ==
  \A m, n \in DOMAIN ms : ms[m].key = ms[n].key /\ ms[m].key # NoKey /\ ms[m].key \notin keys => m = n

CreatorInv(q, ms, es, past1) ==
  /\ q.pc \in {"number", "insert", "current", "cite"} => q.material # 0
  /\ q.material # 0 =>
       /\ ~ms[q.material].created
       /\ q.material \notin past1.mixed => past1.newest[q.material] = 0
  /\ q.pc \in {"number", "insert"} => Below(es, q.material, 1)
  /\ q.pc = "insert" => q.version = 1
  /\ q.pc \in {"current", "cite"} => IsOf(es, q.edition, q.material) /\ es[q.edition].version = 1
  /\ q.pc = "cite" => ms[q.material].current # 0 /\ \A i \in DOMAIN q.left : q.left[i] = q.edition
  /\ q.pc = "row" /\ q.key # NoKey /\ q.key \notin past1.keys => \A m \in DOMAIN ms : ms[m].key # q.key

EditorInv(q, es, mixed) ==
  /\ q.pc \in {"supersede", "insert", "current"} => IsOf(es, q.edition, q.material)
  /\ q.pc \in {"supersede", "current"} =>
       es[q.edition].version = q.version /\ (q.material \notin mixed => Below(es, q.material, q.version + 1))
  /\ q.pc = "insert" =>
       /\ es[q.edition].version + 1 = q.version /\ es[q.edition].superseded
       /\ q.material \notin mixed => Below(es, q.material, q.version)

DeleterInv(q, ms, es, cs) ==
  /\ q.pc \in {"editions", "invalidate"} => ms[q.material].deleted
  /\ q.pc = "invalidate" /\ ms[q.material].whole =>
       \A i \in DOMAIN cs : cs[i].valid /\ IsOf(es, cs[i].edition, q.material) => \E j \in DOMAIN q.left : q.left[j] = cs[i].edition

ReaderInv(q, es, past1) ==
  /\ q.pc = "look" => q.version <= past1.newest[q.material]
  /\ q.pc = "told" => /\ q.edition # 0 => q.edition \in DOMAIN es
                      /\ q.material \notin past1.mixed =>
                           q.version = 0 \/ (q.edition # 0 /\ es[q.edition].version >= q.version)

MaterialCallInv(q, ms, es, cs, past1) ==
  /\ q.material \in DOMAIN ms \cup {0} /\ (q.op \in {"edit", "delete", "read"} => q.material # 0)
  /\ q.op = "create" => CreatorInv(q, ms, es, past1)
  /\ q.op = "edit" => EditorInv(q, es, past1.mixed)
  /\ q.op = "delete" => DeleterInv(q, ms, es, cs)
  /\ q.op = "read" => ReaderInv(q, es, past1)

\* Two requests: two creations have two materials, two writers of one met, and so did two with one key.
Apart(q, r, past1) ==
  /\ q.op = "create" /\ r.op = "create" /\ q.material # 0 => q.material # r.material
  /\ q.op = "create" /\ r.op = "create" /\ q.key # NoKey /\ q.key = r.key => q.key \in past1.keys
  /\ q.op \in Writer /\ r.op \in Writer /\ q.material # 0 /\ q.material = r.material => q.material \in past1.mixed

InsertsNext(q, es, m) == q.op = "edit" /\ q.pc = "insert" /\ q.material = m /\ Below(es, m, q.version)

MaterialsData(ms, es, cs, past1) ==
  /\ EditionsInv(ms, es)
  /\ \A m \in DOMAIN ms : RowInv(ms[m], es, m)
  /\ \A m \in Material : NewestInv(ms, es, past1.newest, past1.mixed, m)
  /\ \A i \in DOMAIN cs : CitationInv(cs[i], ms, es)
  /\ KeysInv(ms, past1.keys)

Stuck(es, m) == (\E e \in DOMAIN es : es[e].material = m) /\ \A e \in DOMAIN es : es[e].material = m => es[e].superseded

MaterialsInv ==
  /\ MaterialsTypeOK
  /\ MaterialsData(materials, editions, citations, past)
  /\ \A c \in MaterialCall : MaterialCallInv(materialCall[c], materials, editions, citations, past)
  /\ \A c, d \in MaterialCall : c # d => Apart(materialCall[c], materialCall[d], past)
  /\ \A m \in DOMAIN materials : Stuck(editions, m) =>
       past.died > 0 \/ \E c \in MaterialCall : InsertsNext(materialCall[c], editions, m)

LEMMA MaterialFacts ==
  ASSUME MaterialsInv
  PROVE  /\ materials \in Seq(MaterialRow) /\ editions \in Seq(EditionRow) /\ citations \in Seq(CitationRow)
         /\ materialCall \in [MaterialCall -> MaterialCallType] /\ past \in PastType
         /\ MaterialsData(materials, editions, citations, past)
         /\ \A c \in MaterialCall : MaterialCallInv(materialCall[c], materials, editions, citations, past)
         /\ \A c, d \in MaterialCall : c # d => Apart(materialCall[c], materialCall[d], past)
         /\ \A m \in DOMAIN materials : Stuck(editions, m) =>
              past.died > 0 \/ \E c \in MaterialCall : InsertsNext(materialCall[c], editions, m)
BY DEF MaterialsInv, MaterialsTypeOK, MaterialCallType, PastType

LEMMA NoCallWaits ==
  /\ NoMaterialCall \in MaterialCallType /\ NoMaterialCall.op = "idle" /\ NoMaterialCall.pc = "end" /\ NoMaterialCall.material = 0
  /\ \A ms, es, cs, p : MaterialCallInv(NoMaterialCall, ms, es, cs, p)
<1>1. /\ NoMaterialCall.op = "idle" /\ NoMaterialCall.pc = "end" /\ NoMaterialCall.material = 0
  BY DEF NoMaterialCall
<1>2. NoMaterialCall \in MaterialCallType
  <2>1. 0 \in 0..MaxMaterials /\ 0 \in 0..(MaxEditions + 1) /\ 0 \in 0..MaxEditions /\ <<>> \in Seq(0..MaxEditions)
    BY MaterialsAssumption
  <2> QED
    BY <2>1 DEF NoMaterialCall, MaterialCallType
<1> QED
  BY <1>1, <1>2 DEF MaterialCallInv

\* The request of a call stays what it is until it is over.
SameCall(q, r) == q = NoMaterialCall \/ (q.op = r.op /\ q.key = r.key /\ q.material = r.material)

LEMMA ApartBothWays == ASSUME NEW q, NEW r, NEW p, Apart(q, r, p) PROVE Apart(r, q, p)
BY DEF Apart

LEMMA ApartStays ==
  ASSUME NEW q, NEW r, NEW s, NEW p, NEW p1, Apart(r, s, p), SameCall(q, r), p.mixed \subseteq p1.mixed, p.keys \subseteq p1.keys
  PROVE  Apart(q, s, p1)
<1>1. CASE q = NoMaterialCall
  BY <1>1, NoCallWaits DEF Apart, Writer
<1>2. CASE q.op = r.op /\ q.key = r.key /\ q.material = r.material
  BY <1>2 DEF Apart
<1> QED
  BY <1>1, <1>2 DEF SameCall

\* A step of one request.
LEMMA MaterialMoves ==
  ASSUME MaterialsInv, NEW c \in MaterialCall, NEW q \in MaterialCallType, materialCall' = [materialCall EXCEPT ![c] = q],
         materials' \in Seq(MaterialRow), editions' \in Seq(EditionRow), citations' \in Seq(CitationRow), past' \in PastType,
         MaterialsData(materials', editions', citations', past'),
         past.mixed \subseteq past'.mixed, past.keys \subseteq past'.keys,
         MaterialCallInv(q, materials', editions', citations', past'),
         \A d \in MaterialCall : d # c =>
           MaterialCallInv(materialCall[d], materials', editions', citations', past') /\ Apart(q, materialCall[d], past'),
         \A m \in DOMAIN materials' : Stuck(editions', m) =>
           past'.died > 0 \/ InsertsNext(q, editions', m) \/ \E d \in MaterialCall : d # c /\ InsertsNext(materialCall[d], editions', m)
  PROVE  MaterialsInv'
<1>1. /\ materialCall' \in [MaterialCall -> MaterialCallType] /\ materialCall'[c] = q
      /\ \A d \in MaterialCall : d # c => materialCall'[d] = materialCall[d]
  BY MaterialFacts
<1>2. MaterialsTypeOK'
  BY <1>1 DEF MaterialsTypeOK, MaterialCallType, PastType
<1>3. \A d \in MaterialCall : MaterialCallInv(materialCall'[d], materials', editions', citations', past')
  BY <1>1
<1>4. ASSUME NEW d \in MaterialCall, NEW e \in MaterialCall, d # e PROVE Apart(materialCall'[d], materialCall'[e], past')
  <2>1. CASE d = c
    BY <1>1, <1>4, <2>1
  <2>2. CASE e = c
    BY <1>1, <1>4, <2>2, ApartBothWays
  <2>3. CASE d # c /\ e # c
    <3>1. Apart(materialCall[d], materialCall[e], past) /\ SameCall(materialCall[d], materialCall[d])
      BY <1>4, MaterialFacts DEF SameCall
    <3> QED
      BY <1>1, <2>3, <3>1, ApartStays
  <2> QED
    BY <2>1, <2>2, <2>3
<1>5. \A m \in DOMAIN materials' : Stuck(editions', m) =>
        past'.died > 0 \/ \E d \in MaterialCall : InsertsNext(materialCall'[d], editions', m)
  BY <1>1
<1> QED
  BY <1>2, <1>3, <1>4, <1>5 DEF MaterialsInv

\* A step that touches nothing but the request, and not the editor that others wait for.
LEMMA MaterialTurns ==
  ASSUME MaterialsInv, NEW c \in MaterialCall, NEW q \in MaterialCallType, materialCall' = [materialCall EXCEPT ![c] = q],
         UNCHANGED <<materials, editions, citations, past>>, SameCall(q, materialCall[c]),
         MaterialCallInv(q, materials, editions, citations, past),
         \A m \in DOMAIN materials : ~InsertsNext(materialCall[c], editions, m)
  PROVE  MaterialsInv'
<1>1. /\ materials' \in Seq(MaterialRow) /\ editions' \in Seq(EditionRow) /\ citations' \in Seq(CitationRow) /\ past' \in PastType
      /\ MaterialsData(materials', editions', citations', past')
      /\ past.mixed \subseteq past'.mixed /\ past.keys \subseteq past'.keys
      /\ MaterialCallInv(q, materials', editions', citations', past')
  BY MaterialFacts
<1>2. \A d \in MaterialCall : d # c =>
        MaterialCallInv(materialCall[d], materials', editions', citations', past') /\ Apart(q, materialCall[d], past')
  BY <1>1, MaterialFacts, ApartStays
<1>3. \A m \in DOMAIN materials' : Stuck(editions', m) =>
        past'.died > 0 \/ InsertsNext(q, editions', m) \/ \E d \in MaterialCall : d # c /\ InsertsNext(materialCall[d], editions', m)
  BY MaterialFacts
<1> QED
  BY <1>1, <1>2, <1>3, MaterialMoves

LEMMA MaterialEnds ==
  ASSUME MaterialsInv, NEW c \in MaterialCall, IsOver(c), UNCHANGED <<materials, editions, citations, past>>,
         \A m \in DOMAIN materials : ~InsertsNext(materialCall[c], editions, m)
  PROVE  MaterialsInv'
BY NoCallWaits, MaterialTurns DEF IsOver, SameCall

\* What a step of a writer of m leaves to the other requests.
Evolves(m) ==
  /\ DOMAIN materials \subseteq DOMAIN materials'
  /\ \A n \in DOMAIN materials :
       /\ materials'[n].key = materials[n].key
       /\ materials[n].deleted => materials'[n].deleted /\ materials'[n].whole = materials[n].whole
       /\ materials[n].current # 0 => materials'[n].current # 0
       /\ n # m => materials'[n].created = materials[n].created
  /\ \A e \in DOMAIN editions :
       /\ e \in DOMAIN editions' /\ editions'[e].material = editions[e].material /\ editions'[e].version = editions[e].version
       /\ editions[e].superseded => editions'[e].superseded
  /\ \A e \in DOMAIN editions' : e \in DOMAIN editions \/ editions'[e].material = m
  /\ past.mixed \subseteq past'.mixed /\ past.keys \subseteq past'.keys
  /\ \A n \in Material : past.newest[n] <= past'.newest[n] /\ (n # m => past'.newest[n] = past.newest[n])

Unharmed(q, m) ==
  /\ q.op \in Writer /\ q.material = m /\ m # 0 => m \in past.mixed
  /\ q.op = "create" /\ q.material = m /\ m # 0 =>
       ~materials'[m].created /\ (q.pc \in {"number", "insert"} => Below(editions', m, 1))
  /\ q.op = "delete" /\ q.pc = "invalidate" /\ materials[q.material].whole =>
       \A i \in DOMAIN citations' : citations'[i].valid /\ IsOf(editions', citations'[i].edition, q.material) =>
         i \in DOMAIN citations /\ citations[i].valid /\ citations[i].edition = citations'[i].edition
  /\ q.op = "create" /\ q.pc = "row" /\ q.key # NoKey /\ q.key \notin past'.keys =>
       \A n \in DOMAIN materials' : materials'[n].key # q.key

LEMMA OtherStays ==
  ASSUME MaterialsInv, NEW q \in MaterialCallType, MaterialCallInv(q, materials, editions, citations, past),
         NEW m, Evolves(m), Unharmed(q, m), past' \in PastType
  PROVE  MaterialCallInv(q, materials', editions', citations', past')
<1>1. /\ materials \in Seq(MaterialRow) /\ editions \in Seq(EditionRow) /\ past \in PastType
      /\ Len(materials) <= MaxMaterials /\ \A i \in DOMAIN citations : citations[i].edition \in DOMAIN editions
  BY MaterialFacts DEF MaterialsData, EditionsInv, CitationInv
<1>2. q.material \in DOMAIN materials \cup {0} /\ q.material \in DOMAIN materials' \cup {0} /\ DOMAIN materials \subseteq Material
      /\ (q.op \in {"edit", "delete", "read"} => q.material \in DOMAIN materials)
  BY <1>1, MaterialsAssumption DEF MaterialCallInv, Evolves, Material
<1>3. ASSUME NEW n, NEW v, Below(editions, n, v), n # m PROVE Below(editions', n, v)
  BY <1>3 DEF Below, Evolves
<1>4. ASSUME NEW e, NEW n, IsOf(editions, e, n) PROVE IsOf(editions', e, n) /\ editions'[e].version = editions[e].version
  BY <1>4 DEF IsOf, Evolves
<1>5. ASSUME q.op = "create" PROVE CreatorInv(q, materials', editions', past')
  <2> CreatorInv(q, materials, editions, past)
    BY <1>5 DEF MaterialCallInv
  <2>1. q.material # 0 => ~materials'[q.material].created
    BY <1>2, <1>5 DEF CreatorInv, Evolves, Unharmed
  <2>2. q.material # 0 /\ q.material \notin past'.mixed => past'.newest[q.material] = 0
    BY <1>2, <1>5 DEF CreatorInv, Evolves, Unharmed, Writer
  <2>3. q.pc \in {"number", "insert"} => Below(editions', q.material, 1)
    BY <1>3, <1>5 DEF CreatorInv, Unharmed
  <2>4. q.pc \in {"current", "cite"} => IsOf(editions', q.edition, q.material) /\ editions'[q.edition].version = 1
    BY <1>4 DEF CreatorInv
  <2>5. q.pc = "cite" => materials'[q.material].current # 0 /\ \A i \in DOMAIN q.left : q.left[i] = q.edition
    BY <1>2 DEF CreatorInv, Evolves
  <2>6. q.pc = "row" /\ q.key # NoKey /\ q.key \notin past'.keys => \A n \in DOMAIN materials' : materials'[n].key # q.key
    BY <1>5 DEF Unharmed
  <2> QED
    BY <2>1, <2>2, <2>3, <2>4, <2>5, <2>6 DEF CreatorInv
<1>6. ASSUME q.op = "edit" PROVE EditorInv(q, editions', past'.mixed)
  <2> EditorInv(q, editions, past.mixed)
    BY <1>6 DEF MaterialCallInv
  <2>1. q.material \notin past'.mixed => q.material \notin past.mixed /\ q.material # m
    BY <1>2, <1>6, MaterialsAssumption DEF Evolves, Unharmed, Writer, Material
  <2>2. q.pc \in {"supersede", "insert", "current"} =>
          IsOf(editions', q.edition, q.material) /\ editions'[q.edition].version = editions[q.edition].version
    BY <1>4 DEF EditorInv
  <2>3. q.pc = "insert" => editions'[q.edition].superseded
    BY DEF EditorInv, IsOf, Evolves
  <2> QED
    BY <1>3, <2>1, <2>2, <2>3 DEF EditorInv
<1>7. ASSUME q.op = "delete" PROVE DeleterInv(q, materials', editions', citations')
  <2> DeleterInv(q, materials, editions, citations) /\ q.material \in DOMAIN materials
    BY <1>2, <1>7 DEF MaterialCallInv
  <2>1. q.pc \in {"editions", "invalidate"} =>
          materials'[q.material].deleted /\ materials'[q.material].whole = materials[q.material].whole
    BY DEF DeleterInv, Evolves
  <2>2. ASSUME q.pc = "invalidate", materials'[q.material].whole, NEW i \in DOMAIN citations', citations'[i].valid,
               IsOf(editions', citations'[i].edition, q.material)
        PROVE  \E j \in DOMAIN q.left : q.left[j] = citations'[i].edition
    <3>1. i \in DOMAIN citations /\ citations[i].valid /\ citations[i].edition = citations'[i].edition /\ materials[q.material].whole
      BY <1>7, <2>1, <2>2 DEF Unharmed
    <3>2. IsOf(editions, citations[i].edition, q.material)
      BY <1>1, <2>2, <3>1 DEF IsOf, Evolves
    <3> QED
      BY <2>2, <3>1, <3>2 DEF DeleterInv
  <2> QED
    BY <2>1, <2>2 DEF DeleterInv
<1>8. ASSUME q.op = "read" PROVE ReaderInv(q, editions', past')
  <2> ReaderInv(q, editions, past) /\ q.material \in Material
    BY <1>2, <1>8 DEF MaterialCallInv
  <2>1. q.pc = "look" => q.version <= past'.newest[q.material]
    <3>1. past.newest[q.material] <= past'.newest[q.material] /\ past.newest[q.material] \in Nat /\ past'.newest[q.material] \in Nat
      BY <1>1, MaterialsAssumption, SMTT(60) DEF Evolves, PastType
    <3>2. q.version \in Nat
      BY MaterialsAssumption DEF MaterialCallType
    <3> QED
      BY <3>1, <3>2 DEF ReaderInv
  <2>2. \A e \in DOMAIN editions : e \in DOMAIN editions' /\ editions'[e].version = editions[e].version
    BY DEF Evolves
  <2>3. q.material \notin past'.mixed => q.material \notin past.mixed
    BY DEF Evolves
  <2> QED
    BY <2>1, <2>2, <2>3 DEF ReaderInv
<1> QED
  BY <1>2, <1>5, <1>6, <1>7, <1>8 DEF MaterialCallInv

\* Who is at which step, and what it then knows.
LEMMA CallFacts ==
  ASSUME MaterialsInv, NEW c \in MaterialCall
  PROVE  /\ materialCall[c] \in MaterialCallType /\ MaterialCallInv(materialCall[c], materials, editions, citations, past)
         /\ materialCall[c].material \in DOMAIN materials \cup {0} /\ DOMAIN materials \subseteq Material
         /\ MaterialOf(c) = materialCall[c].material
         /\ materialCall[c].op \in {"edit", "delete", "read"} => materialCall[c].material \in DOMAIN materials
         /\ materialCall[c].op = "create" /\ materialCall[c].pc \in {"number", "insert", "current", "cite"} =>
              materialCall[c].material \in DOMAIN materials
         /\ materialCall[c].pc # "insert" => \A m \in DOMAIN materials : ~InsertsNext(materialCall[c], editions, m)
<1>1. /\ materialCall[c] \in MaterialCallType /\ MaterialCallInv(materialCall[c], materials, editions, citations, past)
  BY MaterialFacts
<1>2. DOMAIN materials \subseteq Material
  BY MaterialFacts, MaterialsAssumption DEF MaterialsData, EditionsInv, Material
<1> QED
  BY <1>1, <1>2 DEF MaterialCallInv, CreatorInv, InsertsNext, MaterialOf

LEMMA FindByKeyStep == ASSUME MaterialsInv, NEW c \in MaterialCall, FindByKey(c) PROVE MaterialsInv'
<1>1. /\ materialCall[c].op = "create" /\ materialCall[c].pc = "key" /\ UNCHANGED <<materials, editions, citations, past>>
      /\ materialCall[c] \in MaterialCallType /\ MaterialCallInv(materialCall[c], materials, editions, citations, past)
      /\ \A m \in DOMAIN materials : ~InsertsNext(materialCall[c], editions, m)
  BY CallFacts DEF FindByKey, At2
<1>2. CASE IsOver(c)
  BY <1>1, <1>2, MaterialEnds
<1>3. CASE ~IsOver(c)
  <2>1. GoesTo(c, "row") /\ \A m \in DOMAIN materials : materials[m].key # materialCall[c].key
    BY <1>3 DEF FindByKey
  <2>2. PICK q : q = [materialCall[c] EXCEPT !.pc = "row"]
    OBVIOUS
  <2>3. materialCall' = [materialCall EXCEPT ![c] = q]
    BY <2>1, <2>2, MaterialFacts DEF GoesTo
  <2>4. /\ q \in MaterialCallType /\ q.pc = "row" /\ q.op = "create" /\ q.key = materialCall[c].key
        /\ q.material = materialCall[c].material /\ materialCall[c].op = "create"
    BY <1>1, <2>2 DEF MaterialCallType
  <2>5. MaterialCallInv(q, materials, editions, citations, past)
    BY <1>1, <2>1, <2>4 DEF MaterialCallInv, CreatorInv
  <2> QED
    BY <1>1, <2>3, <2>4, <2>5, MaterialTurns DEF SameCall
<1> QED
  BY <1>2, <1>3

LEMMA NumberVersionStep == ASSUME MaterialsInv, NEW c \in MaterialCall, NumberVersion(c) PROVE MaterialsInv'
<1>1. /\ materialCall[c].op = "create" /\ materialCall[c].pc = "number" /\ UNCHANGED <<materials, editions, citations, past>>
      /\ materialCall[c] \in MaterialCallType /\ MaterialCallInv(materialCall[c], materials, editions, citations, past)
      /\ \A m \in DOMAIN materials : ~InsertsNext(materialCall[c], editions, m)
  BY CallFacts DEF NumberVersion, At2
<1>2. PICK m : m = materialCall[c].material
  OBVIOUS
<1>3. VersionsOf(m) = {}
  <2>1. Below(editions, m, 1)
    BY <1>1, <1>2 DEF MaterialCallInv, CreatorInv
  <2>2. \A e \in DOMAIN editions : editions[e].version \in Nat /\ editions[e].version >= 1
    <3>1. \A e \in DOMAIN editions : editions[e] \in EditionRow
      BY MaterialFacts, ElementsOf
    <3> QED
      BY <3>1, MaterialsAssumption DEF EditionRow, Edition
  <2> QED
    BY <2>1, <2>2 DEF Below, VersionsOf, EditionsOf
<1>4. Max({0} \cup VersionsOf(m)) + 1 = 1
  <2>1. {0} \cup VersionsOf(m) = {0}
    BY <1>3
  <2>2. \E x \in {0} : \A y \in {0} : x >= y
    OBVIOUS
  <2>3. Max({0}) \in {0}
    BY <2>2, Zenon DEF Max
  <2> QED
    BY <2>1, <2>3
<1>5. PICK q : q = [materialCall[c] EXCEPT !.version = 1, !.pc = "insert"]
  OBVIOUS
<1>6. materialCall' = [materialCall EXCEPT ![c] = q]
  BY <1>2, <1>4, <1>5, MaterialFacts DEF NumberVersion, MaterialOf
<1>7. /\ q \in MaterialCallType /\ q.pc = "insert" /\ q.op = "create" /\ q.key = materialCall[c].key
      /\ q.material = materialCall[c].material /\ materialCall[c].op = "create" /\ q.version = 1
  <2>1. 1 \in 0..(MaxEditions + 1)
    BY MaterialsAssumption
  <2> QED
    BY <1>1, <1>5, <2>1 DEF MaterialCallType
<1>8. MaterialCallInv(q, materials, editions, citations, past)
  BY <1>1, <1>7 DEF MaterialCallInv, CreatorInv
<1> QED
  BY <1>1, <1>6, <1>7, <1>8, MaterialTurns DEF SameCall

LEMMA FindMaterialStep == ASSUME MaterialsInv, NEW c \in MaterialCall, FindMaterial(c) PROVE MaterialsInv'
<1>1. /\ materialCall[c].op = "edit" /\ materialCall[c].pc = "look" /\ UNCHANGED <<materials, editions, citations, past>>
      /\ materialCall[c] \in MaterialCallType /\ MaterialCallInv(materialCall[c], materials, editions, citations, past)
      /\ \A m \in DOMAIN materials : ~InsertsNext(materialCall[c], editions, m)
  BY CallFacts DEF FindMaterial, At2
<1>2. CASE IsOver(c)
  BY <1>1, <1>2, MaterialEnds
<1>3. CASE GoesTo(c, "active")
  <2>2. PICK q : q = [materialCall[c] EXCEPT !.pc = "active"]
    OBVIOUS
  <2>3. materialCall' = [materialCall EXCEPT ![c] = q]
    BY <1>3, <2>2, MaterialFacts DEF GoesTo
  <2>4. /\ q \in MaterialCallType /\ q.pc = "active" /\ q.op = "edit" /\ q.key = materialCall[c].key
        /\ q.material = materialCall[c].material /\ materialCall[c].op = "edit"
    BY <1>1, <2>2 DEF MaterialCallType
  <2>5. MaterialCallInv(q, materials, editions, citations, past)
    BY <1>1, <2>4 DEF MaterialCallInv, EditorInv
  <2> QED
    BY <1>1, <2>3, <2>4, <2>5, MaterialTurns DEF SameCall
<1> QED
  BY <1>2, <1>3 DEF FindMaterial

\* The latest of some versions of a material, which the numbers tell apart.
LEMMA LatestIsThere ==
  ASSUME MaterialsInv, NEW S \in SUBSET DOMAIN editions, S # {}
  PROVE  LatestOf(S) \in S /\ \A f \in S : editions[f].version <= editions[LatestOf(S)].version
<1> DEFINE T == {editions[e].version : e \in S}
<1>1. \A e \in DOMAIN editions : editions[e].version \in 0..MaxEditions
  <2>1. \A e \in DOMAIN editions : editions[e] \in EditionRow
    BY MaterialFacts, ElementsOf
  <2> QED
    BY <2>1, MaterialsAssumption DEF EditionRow, Edition
<1>2. T \in SUBSET (0..MaxEditions) /\ T # {}
  BY <1>1
<1>3. PICK v \in T : \A w \in T : w <= v
  BY <1>2, LastOfNumbers, MaterialsAssumption
<1>4. \E e \in S : \A f \in S : editions[f].version <= editions[e].version
  BY <1>3
<1> QED
  BY <1>4, Zenon DEF LatestOf

LEMMA FindActiveVersionStep == ASSUME MaterialsInv, NEW c \in MaterialCall, FindActiveVersion(c) PROVE MaterialsInv'
<1>1. /\ materialCall[c].op = "edit" /\ materialCall[c].pc = "active" /\ UNCHANGED <<materials, editions, citations, past>>
      /\ materialCall[c] \in MaterialCallType /\ MaterialCallInv(materialCall[c], materials, editions, citations, past)
      /\ \A m \in DOMAIN materials : ~InsertsNext(materialCall[c], editions, m)
  BY CallFacts DEF FindActiveVersion, At2
<1>2. CASE IsOver(c)
  BY <1>1, <1>2, MaterialEnds
<1>3. CASE ~IsOver(c)
  <2> DEFINE m == materialCall[c].material
             active == ActiveEditions(m)
  <2>1. /\ active # {} /\ editions[LatestOf(active)].version = materialCall[c].version
        /\ materialCall' = [materialCall EXCEPT ![c] = [materialCall[c] EXCEPT !.edition = LatestOf(active), !.pc = "supersede"]]
    BY <1>1, <1>3, MaterialFacts DEF FindActiveVersion, IsOver, MaterialOf
  <2>2. active \in SUBSET DOMAIN editions
    BY DEF ActiveEditions, EditionsOf
  <2>3. PICK e \in active : e = LatestOf(active)
    BY <2>1, <2>2, LatestIsThere, SMTT(60)
  <2>4. IsOf(editions, e, m) /\ ~editions[e].superseded /\ editions[e].version = materialCall[c].version
    BY <2>1, <2>3 DEF ActiveEditions, EditionsOf, IsOf
  <2>5. PICK q : q = [materialCall[c] EXCEPT !.edition = e, !.pc = "supersede"]
    OBVIOUS
  <2>6. materialCall' = [materialCall EXCEPT ![c] = q]
    BY <2>1, <2>3, <2>5
  <2>7. e \in 0..MaxEditions
    BY <2>4, MaterialFacts, MaterialsAssumption DEF IsOf, MaterialsData, EditionsInv
  <2>8. /\ q \in MaterialCallType /\ q.pc = "supersede" /\ q.op = "edit" /\ q.key = materialCall[c].key
        /\ q.material = materialCall[c].material /\ materialCall[c].op = "edit" /\ q.edition = e /\ q.version = materialCall[c].version
    BY <1>1, <2>5, <2>7 DEF MaterialCallType
  <2>9. Below(editions, m, materialCall[c].version + 1)
    <3>1. m \in Material
      BY <1>1, CallFacts
    <3>2. PICK n \in 0..MaxEditions : ChainOf(editions, m, n)
      BY <3>1, MaterialFacts DEF MaterialsData, EditionsInv
    <3>3. n = materialCall[c].version
      BY <2>4, <3>2 DEF ChainOf, IsOf
    <3> QED
      BY <3>2, <3>3, MaterialsAssumption DEF ChainOf, Below
  <2>10. MaterialCallInv(q, materials, editions, citations, past)
    BY <1>1, <2>4, <2>8, <2>9 DEF MaterialCallInv, EditorInv
  <2> QED
    BY <1>1, <2>6, <2>8, <2>10, MaterialTurns DEF SameCall
<1> QED
  BY <1>2, <1>3

LEMMA LargerSet == ASSUME NEW S, NEW T, S \subseteq T, NEW s \in Seq(S) PROVE s \in Seq(T)
<1>1. \A i \in 1..Len(s) : s[i] \in T
  OBVIOUS
<1> QED
  BY <1>1

LEMMA ListOfSet ==
  ASSUME NEW S, IsFiniteSet(S)
  PROVE  SetToSeq(S) \in Seq(S) /\ \A x \in S : \E j \in DOMAIN SetToSeq(S) : SetToSeq(S)[j] = x
<1>1. PICK n \in Nat : n = Cardinality(S) /\ ExistsBijection(1..n, S)
  BY FS_CardinalityType
<1>2. \E f \in [1..n -> S] : IsInjective(f)
  BY <1>1 DEF ExistsBijection, Bijection, Injection, IsInjective
<1>3. PICK f : f = SetToSeq(S)
  OBVIOUS
<1>4. f \in [1..n -> S] /\ IsInjective(f)
  BY <1>1, <1>2, <1>3, Zenon DEF SetToSeq
<1>5. f \in Injection(1..n, S)
  BY <1>4 DEF IsInjective, Injection
<1>6. Cardinality(1..n) = n
  BY FS_Interval
<1>7. f \in Surjection(1..n, S)
  BY <1>1, <1>5, <1>6, FS_Injection
<1>8. \A x \in S : \E j \in 1..n : f[j] = x
  BY <1>7 DEF Surjection
<1> QED
  BY <1>3, <1>4, <1>8

LEMMA ListVersionsStep == ASSUME MaterialsInv, NEW c \in MaterialCall, ListVersions(c) PROVE MaterialsInv'
<1>1. /\ materialCall[c].op = "delete" /\ materialCall[c].pc = "editions" /\ UNCHANGED <<materials, editions, citations, past>>
      /\ materialCall[c] \in MaterialCallType /\ MaterialCallInv(materialCall[c], materials, editions, citations, past)
      /\ \A m \in DOMAIN materials : ~InsertsNext(materialCall[c], editions, m)
  BY CallFacts DEF ListVersions, At2
<1> DEFINE m == materialCall[c].material
<1>2. PICK l : l = SetToSeq(EditionsOf(m))
  OBVIOUS
<1>3. PICK k \in Nat : k = Len(editions) /\ DOMAIN editions = 1..k /\ k <= MaxEditions
  BY MaterialFacts DEF MaterialsData, EditionsInv
<1>4. IsFiniteSet(EditionsOf(m)) /\ EditionsOf(m) \subseteq 0..MaxEditions
  <2>1. EditionsOf(m) \in SUBSET (1..k)
    BY <1>3 DEF EditionsOf
  <2>2. IsFiniteSet(1..k)
    BY FS_Interval
  <2>3. IsFiniteSet(EditionsOf(m))
    BY <2>1, <2>2, FS_Subset
  <2> QED
    BY <1>3, <2>1, <2>3, MaterialsAssumption
<1>5. l \in Seq(EditionsOf(m)) /\ \A x \in EditionsOf(m) : \E j \in DOMAIN l : l[j] = x
  BY <1>2, <1>4, ListOfSet
<1>6. l \in Seq(0..MaxEditions)
  BY <1>4, <1>5, LargerSet
<1>7. PICK q : q = [materialCall[c] EXCEPT !.pc = "invalidate", !.left = l]
  OBVIOUS
<1>8. materialCall' = [materialCall EXCEPT ![c] = q]
  BY <1>2, <1>7, MaterialFacts DEF ListVersions, MaterialOf
<1>9. /\ q \in MaterialCallType /\ q.pc = "invalidate" /\ q.op = "delete" /\ q.key = materialCall[c].key
      /\ q.material = m /\ q.left = l
  BY <1>1, <1>6, <1>7 DEF MaterialCallType
<1>10. MaterialCallInv(q, materials, editions, citations, past)
  <2>1. \A e : IsOf(editions, e, m) => e \in EditionsOf(m)
    BY DEF IsOf, EditionsOf
  <2> QED
    BY <1>1, <1>5, <1>9, <2>1 DEF MaterialCallInv, DeleterInv
<1> QED
  BY <1>1, <1>8, <1>9, <1>10, MaterialTurns DEF SameCall

LEMMA ReadMaterialStep == ASSUME MaterialsInv, NEW c \in MaterialCall, ReadMaterial(c) PROVE MaterialsInv'
<1>1. /\ materialCall[c].op = "read" /\ materialCall[c].pc = "look" /\ UNCHANGED <<materials, editions, citations, past>>
      /\ materialCall[c] \in MaterialCallType /\ MaterialCallInv(materialCall[c], materials, editions, citations, past)
      /\ \A m \in DOMAIN materials : ~InsertsNext(materialCall[c], editions, m)
  BY CallFacts DEF ReadMaterial, At2
<1> DEFINE m == materialCall[c].material
<1>2. CASE IsOver(c)
  BY <1>1, <1>2, MaterialEnds
<1>3. CASE ~IsOver(c)
  <2>1. materialCall' = [materialCall EXCEPT ![c].pc = "told", ![c].edition = materials[m].current]
    BY <1>3 DEF ReadMaterial, MaterialOf
  <2>2. PICK e : e = materials[m].current
    OBVIOUS
  <2>3. m \in DOMAIN materials /\ m \in Material /\ materials[m] \in MaterialRow
    BY <1>1, CallFacts, MaterialFacts, ElementsOf
  <2>4. e \in 0..MaxEditions /\ (e # 0 => IsOf(editions, e, m)) /\ NewestInv(materials, editions, past.newest, past.mixed, m)
    BY <2>2, <2>3, MaterialFacts DEF MaterialRow, MaterialsData, RowInv
  <2>5. PICK q : q = [materialCall[c] EXCEPT !.pc = "told", !.edition = e]
    OBVIOUS
  <2>6. materialCall' = [materialCall EXCEPT ![c] = q]
    BY <2>1, <2>2, <2>5, MaterialFacts
  <2>7. /\ q \in MaterialCallType /\ q.pc = "told" /\ q.op = "read" /\ q.key = materialCall[c].key
        /\ q.material = m /\ q.edition = e /\ q.version = materialCall[c].version
    BY <1>1, <2>4, <2>5 DEF MaterialCallType
  <2>10. q.version \in Nat
    BY <2>7, MaterialsAssumption DEF MaterialCallType
  <2>8. ASSUME m \notin past.mixed, q.version # 0 PROVE e # 0 /\ editions[e].version >= q.version
    <3>1. q.version <= past.newest[m] /\ past.newest[m] \in Nat
      BY <1>1, <2>3, <2>7, MaterialFacts, MaterialsAssumption DEF MaterialCallInv, ReaderInv, PastType
    <3>2. past.newest[m] # 0
      BY <2>8, <2>10, <3>1
    <3>3. e # 0 /\ editions[e].version >= past.newest[m]
      BY <2>2, <2>4, <2>8, <3>2 DEF NewestInv
    <3>4. editions[e] \in EditionRow
      BY <2>4, <3>3, MaterialFacts, ElementsOf DEF IsOf
    <3>5. editions[e].version \in Nat
      BY <3>4, MaterialsAssumption DEF EditionRow, Edition
    <3> QED
      BY <2>10, <3>1, <3>3, <3>5
  <2>9. MaterialCallInv(q, materials, editions, citations, past)
    BY <1>1, <2>3, <2>4, <2>7, <2>8 DEF MaterialCallInv, ReaderInv, IsOf
  <2> QED
    BY <1>1, <2>6, <2>7, <2>9, MaterialTurns DEF SameCall
<1> QED
  BY <1>2, <1>3

LEMMA MaterialShownStep == ASSUME MaterialsInv, NEW c \in MaterialCall, MaterialShown(c) PROVE MaterialsInv'
<1>1. /\ materialCall[c].op = "read" /\ materialCall[c].pc = "told" /\ UNCHANGED <<materials, editions, citations, past>>
      /\ \A m \in DOMAIN materials : ~InsertsNext(materialCall[c], editions, m) /\ IsOver(c)
  BY CallFacts DEF MaterialShown, At2
<1> QED
  BY <1>1, MaterialEnds DEF MaterialShown

LEMMA MaterialsInitInv == MaterialsInit => MaterialsInv
<1> SUFFICES ASSUME MaterialsInit PROVE MaterialsInv
  OBVIOUS
<1>1. /\ materials = <<>> /\ editions = <<>> /\ citations = <<>> /\ materialCall = [c \in MaterialCall |-> NoMaterialCall]
      /\ past = [begun |-> 0, died |-> 0, keys |-> {}, mixed |-> {}, newest |-> [m \in Material |-> 0]]
  BY DEF MaterialsInit
<1>2. past \in PastType /\ past.newest = [m \in Material |-> 0]
  <2>1. 0 \in 0..MaxMaterialCalls /\ 0 \in 0..MaxMaterialDeaths /\ 0 \in 0..MaxEditions
    BY MaterialsAssumption
  <2> QED
    BY <1>1, <2>1 DEF PastType
<1>3. \A c \in MaterialCall : materialCall[c] = NoMaterialCall
  BY <1>1
<1>4. MaterialsTypeOK
  <2>1. materialCall \in [MaterialCall -> MaterialCallType]
    BY <1>1, NoCallWaits
  <2> QED
    BY <1>1, <1>2, <2>1 DEF MaterialsTypeOK, MaterialCallType, PastType
<1>5. MaterialsData(materials, editions, citations, past)
  <2>1. \A m \in Material : ChainOf(editions, m, 0)
    BY <1>1 DEF ChainOf
  <2>2. EditionsInv(materials, editions)
    BY <1>1, <2>1, MaterialsAssumption DEF EditionsInv
  <2>3. \A m \in Material : NewestInv(materials, editions, past.newest, past.mixed, m)
    BY <1>2 DEF NewestInv
  <2> QED
    BY <1>1, <2>2, <2>3 DEF MaterialsData, KeysInv
<1>6. \A c, d \in MaterialCall : Apart(materialCall[c], materialCall[d], past)
  BY <1>3, NoCallWaits DEF Apart, Writer
<1>7. \A c \in MaterialCall : MaterialCallInv(materialCall[c], materials, editions, citations, past)
  BY <1>3, NoCallWaits
<1>8. DOMAIN materials = {}
  BY <1>1
<1> QED
  BY <1>4, <1>5, <1>6, <1>7, <1>8 DEF MaterialsInv

LEMMA MaxOfTwo == ASSUME NEW a \in Nat, NEW b \in Nat PROVE Max({a, b}) \in {a, b} /\ a <= Max({a, b}) /\ b <= Max({a, b})
<1>1. \E x \in {a, b} : \A y \in {a, b} : x >= y
  OBVIOUS
<1>2. Max({a, b}) \in {a, b} /\ \A y \in {a, b} : Max({a, b}) >= y
  BY <1>1, Zenon DEF Max
<1> QED
  BY <1>2

LEMMA DataOfThePast ==
  ASSUME NEW ms, NEW es, NEW cs, NEW p, NEW p1, MaterialsData(ms, es, cs, p), p1.newest = p.newest,
         p.mixed \subseteq p1.mixed, p.keys \subseteq p1.keys
  PROVE  MaterialsData(ms, es, cs, p1)
<1>1. \A m \in Material : NewestInv(ms, es, p1.newest, p1.mixed, m)
  BY DEF MaterialsData, NewestInv
<1>2. KeysInv(ms, p1.keys)
  BY DEF MaterialsData, KeysInv
<1> QED
  BY <1>1, <1>2 DEF MaterialsData

\* What a new request knows.
GoodRequest(req) ==
  /\ req \in MaterialCallType
  /\ \/ req.op = "create" /\ req.material = 0 /\ req.pc = IF req.key = NoKey THEN "row" ELSE "key"
     \/ req.op \in {"edit", "delete"} /\ req.pc \in {"look", "mark"} /\ req.material \in DOMAIN materials /\ req.key = NoKey
     \/ /\ req.op = "read" /\ req.pc = "look" /\ req.material \in DOMAIN materials /\ req.key = NoKey
        /\ req.version = past.newest[req.material]

LEMMA BeginMaterialStep ==
  ASSUME MaterialsInv, NEW c \in MaterialCall, NEW req, GoodRequest(req), BeginMaterialCall(c, req) PROVE MaterialsInv'
<1> DEFINE sharing == {d \in MaterialCall : materialCall[d].op = "create" /\ materialCall[d].key = req.key}
<1>1. /\ materialCall[c] = NoMaterialCall /\ past.begun < MaxMaterialCalls
      /\ materialCall' = [materialCall EXCEPT ![c] = req] /\ UNCHANGED <<materials, editions, citations>>
      /\ req \in MaterialCallType /\ past \in PastType
      /\ materials \in Seq(MaterialRow) /\ editions \in Seq(EditionRow) /\ citations \in Seq(CitationRow)
      /\ MaterialsData(materials, editions, citations, past) /\ DOMAIN materials \subseteq Material
  BY MaterialFacts, CallFacts DEF BeginMaterialCall, GoodRequest
<1>2. PICK K : K = IF req.key # NoKey /\ sharing # {} THEN past.keys \cup {req.key} ELSE past.keys
  OBVIOUS
<1>3. PICK X : X = IF req.op \in {"edit", "delete"} THEN Meets(c, req.material) ELSE past.mixed
  OBVIOUS
<1>4. past' = [past EXCEPT !.begun = past.begun + 1, !.keys = K, !.mixed = X]
  BY <1>2, <1>3 DEF BeginMaterialCall
<1>5. K \in SUBSET MaterialKey /\ past.keys \subseteq K
  BY <1>1, <1>2 DEF PastType, MaterialCallType
<1>6. X \in SUBSET Material /\ past.mixed \subseteq X
  BY <1>1, <1>3 DEF PastType, Meets, GoodRequest
<1>7. past.begun + 1 \in 0..MaxMaterialCalls
  BY <1>1, MaterialsAssumption DEF PastType
<1>8. /\ past' \in PastType /\ past'.newest = past.newest /\ past'.died = past.died /\ past'.keys = K /\ past'.mixed = X
  BY <1>1, <1>4, <1>5, <1>6, <1>7 DEF PastType
<1>9. MaterialsData(materials', editions', citations', past')
  BY <1>1, <1>5, <1>6, <1>8, DataOfThePast
<1>10. MaterialCallInv(req, materials, editions, citations, past')
  <2>0. 0 \notin DOMAIN materials
    BY <1>1 DEF Material
  <2>1. CASE req.op = "create"
    BY <2>1 DEF GoodRequest, MaterialCallInv, CreatorInv
  <2>2. CASE req.op \in {"edit", "delete"}
    BY <2>0, <2>2 DEF GoodRequest, MaterialCallInv, EditorInv, DeleterInv
  <2>3. CASE req.op = "read"
    <3>1. req.version <= past.newest[req.material]
      BY <1>1, <2>3, MaterialsAssumption DEF GoodRequest, PastType
    <3> QED
      BY <1>8, <2>0, <2>3, <3>1 DEF GoodRequest, MaterialCallInv, ReaderInv
  <2> QED
    BY <2>1, <2>2, <2>3 DEF GoodRequest
<1>11. Evolves(0)
  <2>1. \A n \in Material : past.newest[n] <= past.newest[n]
    BY <1>1, MaterialsAssumption DEF PastType
  <2> QED
    BY <1>1, <1>5, <1>6, <1>8, <2>1 DEF Evolves
<1>12. ASSUME NEW d \in MaterialCall, d # c
       PROVE  MaterialCallInv(materialCall[d], materials', editions', citations', past') /\ Apart(req, materialCall[d], past')
  <2>1. Unharmed(materialCall[d], 0)
    <3>1. materialCall[d].op = "create" => CreatorInv(materialCall[d], materials, editions, past)
      BY CallFacts DEF MaterialCallInv
    <3> QED
      BY <1>1, <1>5, <1>8, <3>1 DEF Unharmed, CreatorInv
  <2>2. MaterialCallInv(materialCall[d], materials', editions', citations', past')
    BY <1>8, <1>11, <2>1, CallFacts, OtherStays
  <2>3. req.op = "create" => req.material = 0
    BY DEF GoodRequest
  <2>4. materialCall[d].op = "create" /\ req.key # NoKey /\ req.key = materialCall[d].key => req.key \in K
    BY <1>2
  <2>5. req.op \in {"edit", "delete"} /\ materialCall[d].op \in Writer /\ req.material = materialCall[d].material => req.material \in X
    <3>1. materialCall[d].op \in Writer /\ req.material = materialCall[d].material => d \in OtherWriters(c, req.material)
      BY <1>12 DEF OtherWriters, MaterialOf, Writer
    <3> QED
      BY <1>3, <3>1 DEF Meets
  <2>6. Apart(req, materialCall[d], past')
    BY <1>8, <2>3, <2>4, <2>5 DEF Apart, Writer
  <2> QED
    BY <2>2, <2>6
<1>13. \A m \in DOMAIN materials' : Stuck(editions', m) =>
         past'.died > 0 \/ InsertsNext(req, editions', m) \/ \E d \in MaterialCall : d # c /\ InsertsNext(materialCall[d], editions', m)
  <2>1. \A m : ~InsertsNext(materialCall[c], editions, m)
    BY <1>1, NoCallWaits, SMTT(60) DEF InsertsNext
  <2> QED
    BY <1>1, <1>8, <2>1, MaterialFacts
<1> QED
  BY <1>1, <1>5, <1>6, <1>8, <1>9, <1>10, <1>12, <1>13, MaterialMoves

LEMMA AskMaterialStep == ASSUME MaterialsInv, NEW c \in MaterialCall, AskMaterial(c) PROVE MaterialsInv'
<1>1. /\ NoMaterialCall \in MaterialCallType /\ NoMaterialCall.key = NoKey /\ NoMaterialCall.material = 0
      /\ DOMAIN materials \subseteq 0..MaxMaterials /\ DOMAIN materials \subseteq Material /\ past \in PastType
  BY NoCallWaits, CallFacts, MaterialFacts, MaterialsAssumption DEF NoMaterialCall, Material
<1>2. ASSUME NEW k \in MaterialKey \cup {NoKey}, NEW p, p = IF k = NoKey THEN "row" ELSE "key",
             BeginMaterialCall(c, [NoMaterialCall EXCEPT !.op = "create", !.key = k, !.pc = p])
      PROVE  MaterialsInv'
  <2>1. GoodRequest([NoMaterialCall EXCEPT !.op = "create", !.key = k, !.pc = p])
    <3>1. PICK q : q = [NoMaterialCall EXCEPT !.op = "create", !.key = k, !.pc = p]
      OBVIOUS
    <3>2. q \in MaterialCallType /\ q.op = "create" /\ q.key = k /\ q.pc = p /\ q.material = 0
      BY <1>1, <1>2, <3>1, ZenonT(60) DEF MaterialCallType
    <3> QED
      BY <1>2, <3>1, <3>2 DEF GoodRequest
  <2> QED
    BY <1>2, <2>1, BeginMaterialStep
<1>3. ASSUME NEW m \in DOMAIN materials, NEW n \in VersionsOf(m) \cup {1},
             BeginMaterialCall(c, [NoMaterialCall EXCEPT !.op = "edit", !.material = m, !.version = n, !.pc = "look"])
      PROVE  MaterialsInv'
  <2>1. GoodRequest([NoMaterialCall EXCEPT !.op = "edit", !.material = m, !.version = n, !.pc = "look"])
    <3>1. PICK q : q = [NoMaterialCall EXCEPT !.op = "edit", !.material = m, !.version = n, !.pc = "look"]
      OBVIOUS
    <3>2. n \in 0..(MaxEditions + 1)
      <4>1. \A e \in DOMAIN editions : editions[e] \in EditionRow
        BY MaterialFacts, ElementsOf
      <4>2. \A e \in DOMAIN editions : editions[e].version \in 0..(MaxEditions + 1)
        BY <4>1, MaterialsAssumption DEF EditionRow, Edition
      <4>3. 1 \in 0..(MaxEditions + 1)
        BY MaterialsAssumption
      <4> QED
        BY <4>2, <4>3 DEF VersionsOf, EditionsOf
    <3>3. q \in MaterialCallType /\ q.op = "edit" /\ q.key = NoKey /\ q.pc = "look" /\ q.material = m
      BY <1>1, <3>1, <3>2, ZenonT(60) DEF MaterialCallType
    <3> QED
      BY <3>1, <3>3 DEF GoodRequest
  <2> QED
    BY <1>3, <2>1, BeginMaterialStep
<1>4. ASSUME NEW m \in DOMAIN materials, BeginMaterialCall(c, [NoMaterialCall EXCEPT !.op = "delete", !.material = m, !.pc = "mark"])
      PROVE  MaterialsInv'
  <2>1. GoodRequest([NoMaterialCall EXCEPT !.op = "delete", !.material = m, !.pc = "mark"])
    <3>1. PICK q : q = [NoMaterialCall EXCEPT !.op = "delete", !.material = m, !.pc = "mark"]
      OBVIOUS
    <3>2. q \in MaterialCallType /\ q.op = "delete" /\ q.key = NoKey /\ q.pc = "mark" /\ q.material = m
      BY <1>1, <3>1, ZenonT(60) DEF MaterialCallType
    <3> QED
      BY <3>1, <3>2 DEF GoodRequest
  <2> QED
    BY <1>4, <2>1, BeginMaterialStep
<1>5. ASSUME NEW m \in DOMAIN materials,
             BeginMaterialCall(c, [NoMaterialCall EXCEPT !.op = "read", !.material = m, !.version = past.newest[m], !.pc = "look"])
      PROVE  MaterialsInv'
  <2>1. GoodRequest([NoMaterialCall EXCEPT !.op = "read", !.material = m, !.version = past.newest[m], !.pc = "look"])
    <3>1. PICK n : n = past.newest[m]
      OBVIOUS
    <3>2. PICK q : q = [NoMaterialCall EXCEPT !.op = "read", !.material = m, !.version = n, !.pc = "look"]
      OBVIOUS
    <3>3. n \in 0..(MaxEditions + 1)
      <4>1. n \in 0..MaxEditions
        BY <1>1, <3>1 DEF PastType
      <4> QED
        BY <4>1, MaterialsAssumption
    <3>4. q \in MaterialCallType /\ q.op = "read" /\ q.key = NoKey /\ q.pc = "look" /\ q.material = m /\ q.version = n
      BY <1>1, <3>2, <3>3, ZenonT(60) DEF MaterialCallType
    <3> QED
      BY <3>1, <3>2, <3>4 DEF GoodRequest
  <2> QED
    BY <1>5, <2>1, BeginMaterialStep
<1> QED
  BY <1>2, <1>3, <1>4, <1>5, Zenon DEF AskMaterial

LEMMA CreateMaterialStep == ASSUME MaterialsInv, NEW c \in MaterialCall, CreateMaterial(c) PROVE MaterialsInv'
<1>1. /\ materialCall[c].op = "create" /\ materialCall[c].pc = "row" /\ UNCHANGED <<editions, citations, past>>
      /\ materialCall[c] \in MaterialCallType /\ MaterialCallInv(materialCall[c], materials, editions, citations, past)
      /\ \A m \in DOMAIN materials : ~InsertsNext(materialCall[c], editions, m)
      /\ Len(materials) < MaxMaterials
      /\ materials \in Seq(MaterialRow) /\ editions \in Seq(EditionRow) /\ citations \in Seq(CitationRow) /\ past \in PastType
      /\ MaterialsData(materials, editions, citations, past) /\ DOMAIN materials \subseteq Material
  BY CallFacts, MaterialFacts DEF CreateMaterial, At2
<1>2. PICK k \in Nat : k = Len(materials)
  BY <1>1
<1>3. PICK r : r = [key |-> materialCall[c].key, status |-> "generating", deleted |-> FALSE,
                    current |-> 0, created |-> FALSE, swept |-> FALSE, whole |-> FALSE]
  OBVIOUS
<1>4. /\ r \in MaterialRow /\ r.key = materialCall[c].key /\ r.current = 0 /\ r.created = FALSE /\ r.swept = FALSE /\ r.whole = FALSE
  <2>1. 0 \in 0..MaxEditions
    BY MaterialsAssumption
  <2> QED
    BY <1>1, <1>3, <2>1 DEF MaterialRow, MaterialCallType
<1>5. materials' = Append(materials, r)
  BY <1>3 DEF CreateMaterial
<1>6. /\ materials' \in Seq(MaterialRow) /\ Len(materials') = k + 1 /\ DOMAIN materials' = 1..(k + 1) /\ DOMAIN materials = 1..k
      /\ materials'[k + 1] = r /\ \A m \in 1..k : materials'[m] = materials[m]
  BY <1>1, <1>2, <1>4, <1>5
<1>7. /\ k + 1 \in Material /\ k + 1 \in 0..MaxMaterials /\ k + 1 # 0 /\ k + 1 \notin DOMAIN materials
      /\ DOMAIN materials \subseteq DOMAIN materials' /\ \A m \in DOMAIN materials' : m \in DOMAIN materials \/ m = k + 1
  BY <1>1, <1>2, <1>6, MaterialsAssumption DEF Material
<1>8. \A e \in DOMAIN editions : editions[e].material \in DOMAIN materials /\ editions[e].material # k + 1
  BY <1>1, <1>7 DEF MaterialsData, EditionsInv
<1>9. PICK q : q = [materialCall[c] EXCEPT !.material = k + 1, !.pc = "number"]
  OBVIOUS
<1>10. materialCall' = [materialCall EXCEPT ![c] = q]
  BY <1>2, <1>9, MaterialFacts DEF CreateMaterial
<1>11. /\ q \in MaterialCallType /\ q.pc = "number" /\ q.op = "create" /\ q.key = materialCall[c].key /\ q.material = k + 1
  BY <1>1, <1>7, <1>9 DEF MaterialCallType
<1>12. MaterialsData(materials', editions', citations', past')
  <2>1. EditionsInv(materials', editions)
    BY <1>1, <1>2, <1>6, <1>7, MaterialsAssumption DEF MaterialsData, EditionsInv
  <2>2. \A m \in DOMAIN materials' : RowInv(materials'[m], editions, m)
    BY <1>1, <1>4, <1>6, <1>7 DEF MaterialsData, RowInv
  <2>3. \A m \in Material : NewestInv(materials', editions, past.newest, past.mixed, m)
    BY <1>1, <1>6, <1>7 DEF MaterialsData, NewestInv
  <2>4. \A i \in DOMAIN citations : CitationInv(citations[i], materials', editions)
    BY <1>1, <1>6, <1>8 DEF MaterialsData, CitationInv
  <2>5. KeysInv(materials', past.keys)
    <3>1. r.key # NoKey /\ r.key \notin past.keys => \A m \in DOMAIN materials : materials[m].key # r.key
      BY <1>1, <1>4 DEF MaterialCallInv, CreatorInv
    <3> QED
      BY <1>1, <1>6, <1>7, <3>1, ZenonT(60) DEF MaterialsData, KeysInv
  <2> QED
    BY <1>1, <2>1, <2>2, <2>3, <2>4, <2>5 DEF MaterialsData
<1>13. MaterialCallInv(q, materials', editions', citations', past')
  <2>1. past.newest[k + 1] = 0
    BY <1>1, <1>7 DEF MaterialsData, NewestInv
  <2>2. Below(editions, k + 1, 1)
    BY <1>8 DEF Below
  <2> QED
    BY <1>1, <1>4, <1>6, <1>7, <1>11, <2>1, <2>2 DEF MaterialCallInv, CreatorInv
<1>14. Evolves(0)
  <2>1. \A n \in Material : past.newest[n] <= past.newest[n]
    BY <1>1, MaterialsAssumption DEF PastType
  <2> QED
    BY <1>1, <1>6, <1>7, <2>1 DEF Evolves
<1>15. ASSUME NEW d \in MaterialCall, d # c
       PROVE  MaterialCallInv(materialCall[d], materials', editions', citations', past') /\ Apart(q, materialCall[d], past')
  <2>0. Apart(materialCall[c], materialCall[d], past)
    BY <1>15, MaterialFacts
  <2>1. Unharmed(materialCall[d], 0)
    <3>1. materialCall[d].op = "create" => CreatorInv(materialCall[d], materials, editions, past)
      BY CallFacts DEF MaterialCallInv
    <3> QED
      BY <1>1, <1>4, <1>6, <1>7, <2>0, <3>1 DEF Unharmed, CreatorInv, Apart
  <2>2. MaterialCallInv(materialCall[d], materials', editions', citations', past')
    BY <1>1, <1>14, <2>1, CallFacts, OtherStays
  <2>3. materialCall[d].material # k + 1
    BY <1>7, CallFacts
  <2>4. Apart(q, materialCall[d], past')
    BY <1>1, <1>11, <2>0, <2>3 DEF Apart
  <2> QED
    BY <2>2, <2>4
<1>16. \A m \in DOMAIN materials' : Stuck(editions', m) =>
         past'.died > 0 \/ InsertsNext(q, editions', m) \/ \E d \in MaterialCall : d # c /\ InsertsNext(materialCall[d], editions', m)
  <2>1. ~Stuck(editions, k + 1)
    BY <1>8 DEF Stuck
  <2> QED
    BY <1>1, <1>7, <2>1, MaterialFacts
<1> QED
  BY <1>1, <1>6, <1>10, <1>11, <1>12, <1>13, <1>15, <1>16, MaterialMoves

\* The row of its material is written by a writer.
LEMMA RowMoves ==
  ASSUME MaterialsInv, NEW c \in MaterialCall, NEW m \in DOMAIN materials, NEW r \in MaterialRow, NEW q \in MaterialCallType,
         materialCall[c].material = m, materialCall[c].op \in Writer, materialCall[c].pc # "insert",
         materials' = [materials EXCEPT ![m] = r], UNCHANGED <<editions, citations>>,
         materialCall' = [materialCall EXCEPT ![c] = q], SameCall(q, materialCall[c]),
         past' \in PastType, past'.mixed = past.mixed, past'.keys = past.keys, past'.died = past.died,
         \A n \in Material : past.newest[n] <= past'.newest[n] /\ (n # m => past'.newest[n] = past.newest[n]),
         r.key = materials[m].key, materials[m].deleted => r.deleted /\ r.whole = materials[m].whole,
         materials[m].current # 0 => r.current # 0,
         r.created = materials[m].created \/ materialCall[c].op = "create",
         RowInv(r, editions, m), NewestInv(materials', editions, past'.newest, past.mixed, m),
         r.whole /\ r.swept => \A i \in DOMAIN citations : editions[citations[i].edition].material = m => ~citations[i].valid,
         MaterialCallInv(q, materials', editions, citations, past')
  PROVE  MaterialsInv'
<1>1. /\ materials \in Seq(MaterialRow) /\ editions \in Seq(EditionRow) /\ citations \in Seq(CitationRow) /\ past \in PastType
      /\ MaterialsData(materials, editions, citations, past) /\ DOMAIN materials \subseteq Material
      /\ \A n \in DOMAIN materials : ~InsertsNext(materialCall[c], editions, n)
  BY CallFacts, MaterialFacts
<1>2. PICK ms : ms = materials'
  OBVIOUS
<1>3. /\ ms \in Seq(MaterialRow) /\ Len(ms) = Len(materials) /\ DOMAIN ms = DOMAIN materials /\ ms[m] = r
      /\ \A n \in DOMAIN materials : n # m => ms[n] = materials[n]
  BY <1>1, <1>2, SeqUpdate
<1>4. MaterialsData(materials', editions', citations', past')
  <2>1. EditionsInv(ms, editions)
    BY <1>1, <1>3 DEF MaterialsData, EditionsInv
  <2>2. \A n \in DOMAIN ms : RowInv(ms[n], editions, n)
    BY <1>1, <1>3 DEF MaterialsData
  <2>3. \A n \in Material : NewestInv(ms, editions, past'.newest, past.mixed, n)
    BY <1>1, <1>2, <1>3, SMTT(60) DEF MaterialsData, NewestInv
  <2>4. \A i \in DOMAIN citations : CitationInv(citations[i], ms, editions)
    BY <1>1, <1>3 DEF MaterialsData, CitationInv, EditionsInv
  <2>5. KeysInv(ms, past.keys)
    BY <1>1, <1>3 DEF MaterialsData, KeysInv
  <2> QED
    BY <1>2, <2>1, <2>2, <2>3, <2>4, <2>5 DEF MaterialsData
<1>5. Evolves(m)
  BY <1>1, <1>2, <1>3 DEF Evolves
<1>6. ASSUME NEW d \in MaterialCall, d # c
      PROVE  MaterialCallInv(materialCall[d], materials', editions', citations', past') /\ Apart(q, materialCall[d], past')
  <2>1. Apart(materialCall[c], materialCall[d], past)
    BY <1>6, MaterialFacts
  <2>2. Unharmed(materialCall[d], m)
    <3>1. materialCall[d].op = "create" => CreatorInv(materialCall[d], materials, editions, past)
      BY CallFacts DEF MaterialCallInv
    <3>2. materialCall[d].op \in Writer /\ materialCall[d].material = m => m \in past.mixed
      BY <1>1, <2>1 DEF Apart, Material
    <3>3. materialCall[d].op = "create" /\ materialCall[d].material = m =>
            ~ms[m].created /\ (materialCall[d].pc \in {"number", "insert"} => Below(editions, m, 1))
      BY <1>1, <1>3, <2>1, <3>1 DEF Apart, CreatorInv, Material
    <3>4. materialCall[d].op = "create" /\ materialCall[d].pc = "row" /\ materialCall[d].key # NoKey /\ materialCall[d].key \notin past.keys =>
            \A n \in DOMAIN ms : ms[n].key # materialCall[d].key
      BY <1>3, <3>1 DEF CreatorInv
    <3> QED
      BY <1>2, <3>2, <3>3, <3>4 DEF Unharmed
  <2>3. MaterialCallInv(materialCall[d], materials', editions', citations', past')
    BY <1>5, <2>2, CallFacts, OtherStays
  <2>4. Apart(q, materialCall[d], past')
    BY <2>1, ApartStays
  <2> QED
    BY <2>3, <2>4
<1>7. \A n \in DOMAIN materials' : Stuck(editions', n) =>
        past'.died > 0 \/ InsertsNext(q, editions', n) \/ \E d \in MaterialCall : d # c /\ InsertsNext(materialCall[d], editions', n)
  BY <1>1, <1>2, <1>3, MaterialFacts
<1>8. materials' \in Seq(MaterialRow) /\ editions' \in Seq(EditionRow) /\ citations' \in Seq(CitationRow)
  BY <1>1, <1>2, <1>3
<1> QED
  BY <1>4, <1>6, <1>7, <1>8, MaterialMoves

\* What the step of a writer works on.
LEMMA WriterFacts ==
  ASSUME MaterialsInv, NEW c \in MaterialCall, NEW m \in DOMAIN materials
  PROVE  /\ m \in Material /\ m # 0 /\ materials[m] \in MaterialRow /\ past \in PastType /\ past.newest[m] \in Nat
         /\ \A n \in Material : past.newest[n] \in 0..MaxEditions
         /\ RowInv(materials[m], editions, m) /\ NewestInv(materials, editions, past.newest, past.mixed, m)
         /\ \A e \in DOMAIN editions : editions[e] \in EditionRow /\ editions[e].version \in Nat /\ editions[e].version >= 1
         /\ materials \in Seq(MaterialRow) /\ editions \in Seq(EditionRow) /\ citations \in Seq(CitationRow)
         /\ \A i \in DOMAIN citations : citations[i] \in CitationRow /\ CitationInv(citations[i], materials, editions)
<1>1. m \in Material /\ m # 0 /\ materials[m] \in MaterialRow /\ past \in PastType
  BY CallFacts, MaterialFacts, ElementsOf, MaterialsAssumption DEF Material
<1>2. \A e \in DOMAIN editions : editions[e] \in EditionRow
  BY MaterialFacts, ElementsOf
<1>3. \A e \in DOMAIN editions : editions[e].version \in Nat /\ editions[e].version >= 1
  BY <1>2, MaterialsAssumption DEF EditionRow, Edition
<1>4. \A i \in DOMAIN citations : citations[i] \in CitationRow
  BY MaterialFacts, ElementsOf
<1>5. (\A n \in Material : past.newest[n] \in 0..MaxEditions) /\ past.newest[m] \in Nat
  BY <1>1, MaterialsAssumption DEF PastType
<1> QED
  BY <1>1, <1>2, <1>3, <1>4, <1>5, MaterialFacts DEF MaterialsData

LEMMA SetCurrentVersionStep == ASSUME MaterialsInv, NEW c \in MaterialCall, SetCurrentVersion(c) PROVE MaterialsInv'
<1>1. /\ materialCall[c].op \in {"create", "edit"} /\ materialCall[c].pc = "current" /\ UNCHANGED <<editions, citations>>
      /\ materialCall[c] \in MaterialCallType /\ MaterialCallInv(materialCall[c], materials, editions, citations, past)
  BY CallFacts, MaterialFacts DEF SetCurrentVersion, At2
<1>2. PICK m \in DOMAIN materials : m = materialCall[c].material
  BY <1>1, CallFacts
<1>3. PICK e : e = materialCall[c].edition
  OBVIOUS
<1>4. IsOf(editions, e, m) /\ e \in 0..MaxEditions /\ e # 0
  <2>1. IsOf(editions, e, m)
    BY <1>1, <1>2, <1>3 DEF MaterialCallInv, CreatorInv, EditorInv
  <2>2. 0 \notin DOMAIN editions
    BY MaterialFacts
  <2> QED
    BY <1>1, <1>3, <2>1, <2>2 DEF IsOf, MaterialCallType
<1>5. CASE materialCall[c].op = "create"
  <2>1. PICK r : r = [materials[m] EXCEPT !.current = e, !.status = "ready"]
    OBVIOUS
  <2>2. materials' = [materials EXCEPT ![m] = r] /\ past' = past
    BY <1>2, <1>3, <1>5, <2>1, MaterialFacts DEF SetCurrentVersion, MaterialOf
  <2>3. PICK n \in 0..MaxSources :
          materialCall' = [materialCall EXCEPT ![c].pc = "cite", ![c].left = [i \in 1..n |-> materialCall[c].edition]]
    BY <1>5 DEF SetCurrentVersion
  <2>4. PICK l : l = [i \in 1..n |-> e]
    OBVIOUS
  <2>5. PICK q : q = [materialCall[c] EXCEPT !.pc = "cite", !.left = l]
    OBVIOUS
  <2>6. materialCall' = [materialCall EXCEPT ![c] = q]
    BY <1>3, <2>3, <2>4, <2>5, MaterialFacts
  <2>7. l \in Seq(0..MaxEditions) /\ \A i \in DOMAIN l : l[i] = e
    BY <1>4, <2>4
  <2>8. /\ q \in MaterialCallType /\ q.pc = "cite" /\ q.op = "create" /\ q.key = materialCall[c].key /\ q.material = m
        /\ q.edition = e /\ q.left = l
    BY <1>1, <1>2, <1>3, <1>5, <2>5, <2>7 DEF MaterialCallType
  <2>9. /\ r \in MaterialRow /\ r.current = e /\ r.key = materials[m].key /\ r.deleted = materials[m].deleted
        /\ r.whole = materials[m].whole /\ r.swept = materials[m].swept /\ r.created = materials[m].created
    BY <1>4, <2>1, WriterFacts DEF MaterialRow
  <2>10. CreatorInv(materialCall[c], materials, editions, past) /\ ~materials[m].created /\ ~materials[m].whole
    BY <1>1, <1>2, <1>5, WriterFacts DEF MaterialCallInv, CreatorInv, RowInv
  <2>11. RowInv(r, editions, m)
    BY <1>4, <2>9, <2>10, WriterFacts DEF RowInv
  <2>12. materials'[m] = r /\ DOMAIN materials' = DOMAIN materials
    BY <2>2, WriterFacts
  <2>13. NewestInv(materials', editions, past'.newest, past.mixed, m)
    BY <1>2, <2>2, <2>10, <2>12, WriterFacts DEF NewestInv, CreatorInv
  <2>14. MaterialCallInv(q, materials', editions, citations, past')
    BY <1>1, <1>2, <1>3, <1>4, <1>5, <2>2, <2>7, <2>8, <2>9, <2>10, <2>12 DEF MaterialCallInv, CreatorInv
  <2>15. \A x \in Material : past.newest[x] <= past'.newest[x] /\ (x # m => past'.newest[x] = past.newest[x])
    BY <2>2, WriterFacts, MaterialsAssumption
  <2> QED
    BY <1>1, <1>2, <1>4, <1>5, <2>2, <2>6, <2>8, <2>9, <2>10, <2>11, <2>13, <2>14, <2>15, WriterFacts, RowMoves DEF SameCall, Writer
<1>6. CASE materialCall[c].op = "edit"
  <2>1. PICK r : r = [materials[m] EXCEPT !.current = e]
    OBVIOUS
  <2>2. materials' = [materials EXCEPT ![m] = r] /\ IsOver(c)
    <3>1. materials' = [materials EXCEPT ![m].current = e, ![m].status = materials[m].status]
      BY <1>2, <1>3, <1>6, MaterialFacts DEF SetCurrentVersion, MaterialOf
    <3>2. r = [materials[m] EXCEPT !.current = e, !.status = materials[m].status]
      BY <2>1, WriterFacts DEF MaterialRow
    <3> QED
      BY <1>6, <3>1, <3>2, WriterFacts DEF SetCurrentVersion
  <2>3. /\ r \in MaterialRow /\ r.current = e /\ r.key = materials[m].key /\ r.deleted = materials[m].deleted /\ r.status = materials[m].status
        /\ r.whole = materials[m].whole /\ r.swept = materials[m].swept /\ r.created = materials[m].created
    BY <1>4, <2>1, WriterFacts DEF MaterialRow
  <2>4. PICK v \in Nat : v = materialCall[c].version
    BY <1>1, MaterialsAssumption DEF MaterialCallType
  <2>5. PICK a \in Nat : a = past.newest[m]
    BY WriterFacts
  <2>6. PICK x : x = Max({a, v})
    OBVIOUS
  <2>7. x \in {a, v} /\ a <= x /\ v <= x
    BY <2>6, MaxOfTwo
  <2>8. /\ editions[e].version = v /\ v \in 0..MaxEditions /\ v # 0
        /\ m \notin past.mixed => Below(editions, m, v + 1)
    <3>1. editions[e].version = v /\ (m \notin past.mixed => Below(editions, m, v + 1))
      BY <1>1, <1>2, <1>3, <1>6, <2>4 DEF MaterialCallInv, EditorInv
    <3>2. editions[e] \in EditionRow
      BY <1>4, WriterFacts DEF IsOf
    <3> QED
      BY <3>1, <3>2, MaterialsAssumption DEF EditionRow, Edition
  <2>9. PICK nw : nw = [past.newest EXCEPT ![m] = x]
    OBVIOUS
  <2>10. past' = [past EXCEPT !.newest = nw]
    <3>1. past' = [past EXCEPT !.newest[m] = Max({past.newest[m], materialCall[c].version})]
      BY <1>2, <1>6 DEF SetCurrentVersion, MaterialOf
    <3> QED
      BY <2>4, <2>5, <2>6, <2>9, <3>1, WriterFacts DEF PastType
  <2>11. x \in 0..MaxEditions
    BY <2>5, <2>7, <2>8, WriterFacts
  <2>12. /\ nw \in [Material -> 0..MaxEditions] /\ nw[m] = x /\ \A n \in Material : n # m => nw[n] = past.newest[n]
    BY <2>9, <2>11, WriterFacts DEF PastType
  <2>13. /\ past' \in PastType /\ past'.newest = nw /\ past'.mixed = past.mixed /\ past'.keys = past.keys /\ past'.died = past.died
    BY <2>10, <2>12, WriterFacts DEF PastType
  <2>14. \A n \in Material : past.newest[n] <= past'.newest[n] /\ (n # m => past'.newest[n] = past.newest[n])
    <3>1. \A n \in Material : past.newest[n] \in Nat
      BY WriterFacts, MaterialsAssumption
    <3> QED
      BY <2>5, <2>7, <2>12, <2>13, <3>1
  <2>15. RowInv(r, editions, m)
    BY <1>4, <2>3, WriterFacts DEF RowInv
  <2>16. materials'[m] = r /\ DOMAIN materials' = DOMAIN materials
    BY <2>2, WriterFacts
  <2>17. NewestInv(materials', editions, past'.newest, past.mixed, m)
    <3>1. a # 0 => \E f \in DOMAIN editions : editions[f].material = m /\ editions[f].version = a
      BY <2>5, WriterFacts DEF NewestInv
    <3>2. \E f \in DOMAIN editions : editions[f].material = m /\ editions[f].version = v
      BY <1>4, <2>8 DEF IsOf
    <3>3. m \notin past.mixed => a <= v
      BY <2>8, <3>1, WriterFacts DEF Below
    <3>4. m \notin past.mixed => editions[e].version >= x
      BY <2>7, <2>8, <3>3
    <3>5. x # 0 => \E f \in DOMAIN editions : editions[f].material = m /\ editions[f].version = x
      BY <2>7, <3>1, <3>2
    <3> QED
      BY <1>4, <2>3, <2>12, <2>13, <2>16, <3>4, <3>5 DEF NewestInv
  <2>18. materialCall' = [materialCall EXCEPT ![c] = NoMaterialCall]
    BY <2>2 DEF IsOver
  <2>19. r.whole /\ r.swept => \A i \in DOMAIN citations : editions[citations[i].edition].material = m => ~citations[i].valid
    BY <2>3, WriterFacts DEF CitationInv
  <2> QED
    BY <1>1, <1>2, <1>4, <1>6, <2>2, <2>3, <2>13, <2>14, <2>15, <2>17, <2>18, <2>19, NoCallWaits, RowMoves, ZenonT(60) DEF SameCall, Writer
<1> QED
  BY <1>1, <1>5, <1>6

LEMMA SoftDeleteStep == ASSUME MaterialsInv, NEW c \in MaterialCall, SoftDelete(c) PROVE MaterialsInv'
<1>1. /\ materialCall[c].op = "delete" /\ materialCall[c].pc = "mark" /\ UNCHANGED <<editions, citations, past>>
      /\ materialCall[c] \in MaterialCallType /\ MaterialCallInv(materialCall[c], materials, editions, citations, past)
      /\ \A m \in DOMAIN materials : ~InsertsNext(materialCall[c], editions, m)
  BY CallFacts DEF SoftDelete, At2
<1>2. PICK m \in DOMAIN materials : m = materialCall[c].material
  BY <1>1, CallFacts
<1>3. CASE materials[m].deleted
  BY <1>1, <1>2, <1>3, MaterialEnds DEF SoftDelete, MaterialOf
<1>4. CASE ~materials[m].deleted
  <2>1. PICK r : r = [materials[m] EXCEPT !.deleted = TRUE, !.status = "deleted", !.whole = materials[m].created]
    OBVIOUS
  <2>2. materials' = [materials EXCEPT ![m] = r] /\ GoesTo(c, "editions")
    BY <1>2, <1>4, <2>1, MaterialFacts DEF SoftDelete, MaterialOf
  <2>3. /\ r \in MaterialRow /\ r.current = materials[m].current /\ r.key = materials[m].key /\ r.deleted = TRUE /\ r.status = "deleted"
        /\ r.whole = materials[m].created /\ r.swept = materials[m].swept /\ r.created = materials[m].created
    BY <2>1, WriterFacts DEF MaterialRow
  <2>4. PICK q : q = [materialCall[c] EXCEPT !.pc = "editions"]
    OBVIOUS
  <2>5. materialCall' = [materialCall EXCEPT ![c] = q]
    BY <2>2, <2>4, MaterialFacts DEF GoesTo
  <2>6. /\ q \in MaterialCallType /\ q.pc = "editions" /\ q.op = "delete" /\ q.key = materialCall[c].key /\ q.material = m
    BY <1>1, <1>2, <2>4 DEF MaterialCallType
  <2>7. materials'[m] = r /\ DOMAIN materials' = DOMAIN materials
    BY <2>2, WriterFacts
  <2>8. RowInv(r, editions, m) /\ ~materials[m].swept
    BY <1>4, <2>3, WriterFacts DEF RowInv
  <2>9. NewestInv(materials', editions, past'.newest, past.mixed, m)
    BY <1>1, <2>3, <2>7, WriterFacts DEF NewestInv
  <2>10. MaterialCallInv(q, materials', editions, citations, past')
    BY <2>3, <2>6, <2>7, WriterFacts DEF MaterialCallInv, DeleterInv
  <2>11. \A n \in Material : past.newest[n] <= past'.newest[n] /\ (n # m => past'.newest[n] = past.newest[n])
    BY <1>1, WriterFacts, MaterialsAssumption
  <2> QED
    BY <1>1, <1>2, <1>4, <2>2, <2>3, <2>5, <2>6, <2>8, <2>9, <2>10, <2>11, WriterFacts, RowMoves DEF SameCall, Writer
<1> QED
  BY <1>3, <1>4

\* A step that writes the sources.
LEMMA CitationsMove ==
  ASSUME MaterialsInv, NEW c \in MaterialCall, NEW q \in MaterialCallType, materialCall[c].pc # "insert",
         materialCall' = [materialCall EXCEPT ![c] = q], SameCall(q, materialCall[c]), UNCHANGED <<materials, editions, past>>,
         citations' \in Seq(CitationRow), \A i \in DOMAIN citations' : CitationInv(citations'[i], materials, editions),
         \A i \in DOMAIN citations' : citations'[i].valid /\ materials[editions[citations'[i].edition].material].whole =>
           i \in DOMAIN citations /\ citations[i].valid /\ citations[i].edition = citations'[i].edition,
         MaterialCallInv(q, materials, editions, citations', past)
  PROVE  MaterialsInv'
<1>1. /\ materials \in Seq(MaterialRow) /\ editions \in Seq(EditionRow) /\ past \in PastType
      /\ MaterialsData(materials, editions, citations, past) /\ DOMAIN materials \subseteq Material
      /\ \A n \in DOMAIN materials : ~InsertsNext(materialCall[c], editions, n)
  BY CallFacts, MaterialFacts
<1>2. MaterialsData(materials', editions', citations', past')
  BY <1>1 DEF MaterialsData
<1>3. Evolves(0)
  <2>1. \A n \in Material : past.newest[n] <= past.newest[n]
    BY <1>1, MaterialsAssumption DEF PastType
  <2> QED
    BY <2>1 DEF Evolves
<1>4. ASSUME NEW d \in MaterialCall, d # c
      PROVE  MaterialCallInv(materialCall[d], materials', editions', citations', past') /\ Apart(q, materialCall[d], past')
  <2>1. Unharmed(materialCall[d], 0)
    <3>1. materialCall[d].op = "create" => CreatorInv(materialCall[d], materials, editions, past)
      BY CallFacts DEF MaterialCallInv
    <3> QED
      BY <3>1 DEF Unharmed, CreatorInv, IsOf
  <2>2. MaterialCallInv(materialCall[d], materials', editions', citations', past')
    BY <1>1, <1>3, <2>1, CallFacts, OtherStays
  <2>3. Apart(q, materialCall[d], past')
    BY <1>4, MaterialFacts, ApartStays
  <2> QED
    BY <2>2, <2>3
<1>5. \A n \in DOMAIN materials' : Stuck(editions', n) =>
        past'.died > 0 \/ InsertsNext(q, editions', n) \/ \E d \in MaterialCall : d # c /\ InsertsNext(materialCall[d], editions', n)
  BY <1>1, MaterialFacts
<1>6. MaterialCallInv(q, materials', editions', citations', past')
  OBVIOUS
<1> QED
  BY <1>1, <1>2, <1>4, <1>5, <1>6, MaterialMoves

LEMMA AddSourceStep == ASSUME MaterialsInv, NEW c \in MaterialCall, AddSource(c) PROVE MaterialsInv'
<1>1. /\ materialCall[c].op = "create" /\ materialCall[c].pc = "cite" /\ UNCHANGED editions
      /\ materialCall[c] \in MaterialCallType /\ MaterialCallInv(materialCall[c], materials, editions, citations, past)
  BY CallFacts DEF AddSource, At2
<1>2. PICK m \in DOMAIN materials : m = materialCall[c].material
  BY <1>1, CallFacts
<1>3. PICK e : e = materialCall[c].edition
  OBVIOUS
<1>4. PICK l \in Seq(0..MaxEditions) : l = materialCall[c].left
  BY <1>1 DEF MaterialCallType
<1>5. /\ ~materials[m].created /\ ~materials[m].whole /\ materials[m].current # 0
      /\ IsOf(editions, e, m) /\ editions[e].version = 1 /\ \A i \in DOMAIN l : l[i] = e
      /\ m \notin past.mixed => past.newest[m] = 0
  BY <1>1, <1>2, <1>3, <1>4, WriterFacts DEF MaterialCallInv, CreatorInv, RowInv
<1>6. CASE l = <<>>
  <2>1. PICK r : r = [materials[m] EXCEPT !.created = TRUE]
    OBVIOUS
  <2>2. materials' = [materials EXCEPT ![m] = r] /\ UNCHANGED citations /\ materialCall' = [materialCall EXCEPT ![c] = NoMaterialCall]
    BY <1>2, <1>4, <1>6, <2>1, MaterialFacts DEF AddSource, MaterialOf, IsOver
  <2>3. /\ r \in MaterialRow /\ r.current = materials[m].current /\ r.key = materials[m].key /\ r.deleted = materials[m].deleted
        /\ r.status = materials[m].status /\ r.whole = materials[m].whole /\ r.swept = materials[m].swept
    BY <2>1, WriterFacts DEF MaterialRow
  <2>4. r.created = TRUE
    BY <2>1, WriterFacts DEF MaterialRow
  <2>5. PICK a \in Nat : a = past.newest[m]
    BY WriterFacts
  <2>6. PICK x : x = Max({a, 1})
    OBVIOUS
  <2>7. x \in {a, 1} /\ a <= x /\ 1 <= x
    BY <2>6, MaxOfTwo
  <2>8. PICK nw : nw = [past.newest EXCEPT ![m] = x]
    OBVIOUS
  <2>9. past' = [past EXCEPT !.newest = nw]
    <3>1. past' = [past EXCEPT !.newest[m] = Max({past.newest[m], 1})]
      BY <1>2, <1>4, <1>6 DEF AddSource, MaterialOf
    <3> QED
      BY <2>5, <2>6, <2>8, <3>1, WriterFacts DEF PastType
  <2>10. x \in 0..MaxEditions
    <3>1. editions[e] \in EditionRow
      BY <1>5, WriterFacts DEF IsOf
    <3>2. 1 \in 0..MaxEditions
      BY <1>5, <3>1, MaterialsAssumption DEF EditionRow, Edition
    <3> QED
      BY <2>5, <2>7, <3>2, WriterFacts
  <2>11. /\ nw \in [Material -> 0..MaxEditions] /\ nw[m] = x /\ \A n \in Material : n # m => nw[n] = past.newest[n]
    BY <2>8, <2>10, WriterFacts DEF PastType
  <2>12. /\ past' \in PastType /\ past'.newest = nw /\ past'.mixed = past.mixed /\ past'.keys = past.keys /\ past'.died = past.died
    BY <2>9, <2>11, WriterFacts DEF PastType
  <2>13. \A n \in Material : past.newest[n] <= past'.newest[n] /\ (n # m => past'.newest[n] = past.newest[n])
    <3>1. \A n \in Material : past.newest[n] \in Nat
      BY WriterFacts, MaterialsAssumption
    <3> QED
      BY <2>5, <2>7, <2>11, <2>12, <3>1
  <2>14. RowInv(r, editions, m)
    BY <1>5, <2>3, WriterFacts DEF RowInv
  <2>15. materials'[m] = r /\ DOMAIN materials' = DOMAIN materials
    BY <2>2, WriterFacts
  <2>16. NewestInv(materials', editions, past'.newest, past.mixed, m)
    <3>1. a # 0 => \E f \in DOMAIN editions : editions[f].material = m /\ editions[f].version = a
      BY <2>5, WriterFacts DEF NewestInv
    <3>2. \E f \in DOMAIN editions : editions[f].material = m /\ editions[f].version = 1
      BY <1>5 DEF IsOf
    <3>3. m \notin past.mixed => x = 1
      BY <1>5, <2>5, <2>7
    <3>4. editions[r.current] \in EditionRow /\ editions[r.current].version >= 1
      BY <1>5, <2>3, WriterFacts DEF RowInv, IsOf
    <3>5. x # 0 => \E f \in DOMAIN editions : editions[f].material = m /\ editions[f].version = x
      BY <2>7, <3>1, <3>2, SMTT(60)
    <3> QED
      BY <1>5, <2>3, <2>11, <2>12, <2>15, <3>3, <3>4, <3>5 DEF NewestInv
  <2> QED
    BY <1>1, <1>2, <1>5, <2>2, <2>3, <2>4, <2>12, <2>13, <2>14, <2>16, NoCallWaits, RowMoves DEF SameCall, Writer
<1>7. CASE l # <<>>
  <2>1. PICK t \in Seq(0..MaxEditions) : t = Tail(l) /\ \A i \in DOMAIN t : t[i] = e
    <3>1. Tail(l) \in Seq(0..MaxEditions)
      BY <1>7
    <3>2. \A i \in DOMAIN Tail(l) : i + 1 \in DOMAIN l /\ Tail(l)[i] = l[i + 1]
      BY <1>7
    <3> QED
      BY <1>5, <3>1, <3>2
  <2>2. Head(l) = e
    BY <1>5, <1>7
  <2>3. PICK x : x = [edition |-> e, valid |-> TRUE]
    OBVIOUS
  <2>4. PICK q : q = [materialCall[c] EXCEPT !.left = t]
    OBVIOUS
  <2>5. /\ citations' = Append(citations, x) /\ materialCall' = [materialCall EXCEPT ![c] = q] /\ UNCHANGED <<materials, editions, past>>
    BY <1>1, <1>4, <1>7, <2>1, <2>2, <2>3, <2>4, MaterialFacts DEF AddSource
  <2>6. /\ q \in MaterialCallType /\ q.pc = "cite" /\ q.op = "create" /\ q.key = materialCall[c].key /\ q.material = m
        /\ q.edition = e /\ q.left = t
    BY <1>1, <1>2, <1>3, <2>1, <2>4 DEF MaterialCallType
  <2>7. x \in CitationRow /\ x.edition = e
    <3>1. e \in Edition
      BY <1>5, MaterialFacts, MaterialsAssumption DEF IsOf, MaterialsData, EditionsInv, Edition
    <3> QED
      BY <2>3, <3>1 DEF CitationRow
  <2>8. CitationInv(x, materials, editions)
    BY <1>5, <2>7 DEF CitationInv, IsOf
  <2>9. PICK k \in Nat : k = Len(citations)
    BY WriterFacts
  <2>10. /\ citations' \in Seq(CitationRow) /\ DOMAIN citations' = 1..(k + 1) /\ DOMAIN citations = 1..k
         /\ citations'[k + 1] = x /\ \A i \in 1..k : citations'[i] = citations[i]
    BY <2>5, <2>7, <2>9, WriterFacts
  <2>11. \A i \in DOMAIN citations' : i \in DOMAIN citations \/ i = k + 1
    BY <2>9, <2>10
  <2>12. \A i \in DOMAIN citations' : CitationInv(citations'[i], materials, editions)
    BY <2>8, <2>10, <2>11, WriterFacts
  <2>13. \A i \in DOMAIN citations' : citations'[i].valid /\ materials[editions[citations'[i].edition].material].whole =>
           i \in DOMAIN citations /\ citations[i].valid /\ citations[i].edition = citations'[i].edition
    BY <1>5, <2>7, <2>10, <2>11 DEF IsOf
  <2>14. MaterialCallInv(q, materials, editions, citations', past)
    BY <1>1, <1>2, <1>5, <2>1, <2>6 DEF MaterialCallInv, CreatorInv
  <2> QED
    BY <1>1, <1>2, <2>5, <2>6, <2>10, <2>12, <2>13, <2>14, CitationsMove DEF SameCall
<1> QED
  BY <1>6, <1>7

LEMMA InvalidateSourcesStep == ASSUME MaterialsInv, NEW c \in MaterialCall, InvalidateSources(c) PROVE MaterialsInv'
<1>1. /\ materialCall[c].op = "delete" /\ materialCall[c].pc = "invalidate" /\ UNCHANGED <<editions, past>>
      /\ materialCall[c] \in MaterialCallType /\ MaterialCallInv(materialCall[c], materials, editions, citations, past)
  BY CallFacts DEF InvalidateSources, At2
<1>2. PICK m \in DOMAIN materials : m = materialCall[c].material
  BY <1>1, CallFacts
<1>3. PICK l \in Seq(0..MaxEditions) : l = materialCall[c].left
  BY <1>1 DEF MaterialCallType
<1>4. /\ materials[m].deleted
      /\ materials[m].whole =>
           \A i \in DOMAIN citations : citations[i].valid /\ IsOf(editions, citations[i].edition, m) =>
             \E j \in DOMAIN l : l[j] = citations[i].edition
  BY <1>1, <1>2, <1>3 DEF MaterialCallInv, DeleterInv
<1>5. CASE l = <<>>
  <2>1. PICK r : r = [materials[m] EXCEPT !.swept = TRUE]
    OBVIOUS
  <2>2. materials' = [materials EXCEPT ![m] = r] /\ UNCHANGED citations /\ materialCall' = [materialCall EXCEPT ![c] = NoMaterialCall]
    BY <1>2, <1>3, <1>5, <2>1, MaterialFacts DEF InvalidateSources, MaterialOf, IsOver
  <2>3. /\ r \in MaterialRow /\ r.current = materials[m].current /\ r.key = materials[m].key /\ r.deleted = materials[m].deleted
        /\ r.status = materials[m].status /\ r.whole = materials[m].whole /\ r.created = materials[m].created
    BY <2>1, WriterFacts DEF MaterialRow
  <2>4. RowInv(r, editions, m)
    BY <1>4, <2>3, WriterFacts DEF RowInv
  <2>5. materials'[m] = r /\ DOMAIN materials' = DOMAIN materials
    BY <2>2, WriterFacts
  <2>6. NewestInv(materials', editions, past'.newest, past.mixed, m)
    BY <1>1, <2>3, <2>5, WriterFacts DEF NewestInv
  <2>7. r.whole /\ r.swept => \A i \in DOMAIN citations : editions[citations[i].edition].material = m => ~citations[i].valid
    <3>1. \A i \in DOMAIN citations : citations[i].edition \in DOMAIN editions
      BY WriterFacts DEF CitationInv
    <3>2. DOMAIN l = {}
      BY <1>5
    <3> QED
      BY <1>4, <2>3, <3>1, <3>2 DEF IsOf
  <2>8. \A n \in Material : past.newest[n] <= past'.newest[n] /\ (n # m => past'.newest[n] = past.newest[n])
    BY <1>1, WriterFacts, MaterialsAssumption, SMTT(60)
  <2> QED
    BY <1>1, <1>2, <2>2, <2>3, <2>4, <2>6, <2>7, <2>8, NoCallWaits, WriterFacts, RowMoves, ZenonT(60) DEF SameCall, Writer
<1>6. CASE l # <<>>
  <2>1. PICK t \in Seq(0..MaxEditions) : t = Tail(l)
    <3>1. Tail(l) \in Seq(0..MaxEditions)
      BY <1>6
    <3> QED
      BY <3>1
  <2>2. \A j \in DOMAIN l : j = 1 \/ (j - 1 \in DOMAIN t /\ t[j - 1] = l[j])
    BY <1>6, <2>1
  <2>3. PICK x : x = Head(l) /\ x = l[1]
    BY <1>6
  <2>4. PICK q : q = [materialCall[c] EXCEPT !.left = t]
    OBVIOUS
  <2>5. /\ citations' = [i \in DOMAIN citations |-> [citations[i] EXCEPT !.valid = citations[i].valid /\ citations[i].edition # x]]
        /\ materialCall' = [materialCall EXCEPT ![c] = q] /\ UNCHANGED <<materials, editions, past>>
    BY <1>1, <1>3, <1>6, <2>1, <2>3, <2>4, MaterialFacts DEF InvalidateSources
  <2>6. /\ q \in MaterialCallType /\ q.pc = "invalidate" /\ q.op = "delete" /\ q.key = materialCall[c].key /\ q.material = m /\ q.left = t
    BY <1>1, <1>2, <2>1, <2>4 DEF MaterialCallType
  <2>7. DOMAIN citations' = DOMAIN citations /\ \A i \in DOMAIN citations :
          /\ citations'[i] \in CitationRow /\ citations'[i].edition = citations[i].edition
          /\ citations'[i].valid => citations[i].valid /\ citations[i].edition # x
    <3>1. ASSUME NEW i \in DOMAIN citations
          PROVE  /\ citations'[i] \in CitationRow /\ citations'[i].edition = citations[i].edition
                 /\ citations'[i].valid => citations[i].valid /\ citations[i].edition # x
      <4>1. PICK b \in BOOLEAN : b <=> (citations[i].valid /\ citations[i].edition # x)
        OBVIOUS
      <4>2. citations'[i] = [citations[i] EXCEPT !.valid = b]
        BY <2>5, <4>1
      <4>3. citations[i] \in CitationRow
        BY <1>2, WriterFacts
      <4> QED
        BY <4>1, <4>2, <4>3 DEF CitationRow
    <3> QED
      BY <2>5, <3>1
  <2>8. citations' \in Seq(CitationRow)
    <3>1. PICK k \in Nat : DOMAIN citations = 1..k
      <4>1. citations \in Seq(CitationRow)
        BY <1>2, WriterFacts
      <4> QED
        BY <4>1
    <3>2. citations' \in [1..k -> CitationRow]
      BY <2>5, <2>7, <3>1
    <3> QED
      BY <3>1, <3>2
  <2>9. \A i \in DOMAIN citations' : CitationInv(citations'[i], materials, editions)
    BY <1>2, <2>7, WriterFacts DEF CitationInv
  <2>10. MaterialCallInv(q, materials, editions, citations', past)
    <3>1. ASSUME materials[m].whole, NEW i \in DOMAIN citations', citations'[i].valid, IsOf(editions, citations'[i].edition, m)
          PROVE  \E j \in DOMAIN t : t[j] = citations'[i].edition
      <4>1. PICK j \in DOMAIN l : l[j] = citations[i].edition
        BY <1>4, <2>7, <3>1
      <4>2. j # 1
        BY <2>3, <2>7, <3>1, <4>1
      <4> QED
        BY <2>2, <2>7, <3>1, <4>1, <4>2
    <3> QED
      BY <1>1, <1>2, <1>4, <2>6, <3>1 DEF MaterialCallInv, DeleterInv
  <2>11. \A i \in DOMAIN citations' : citations'[i].valid /\ materials[editions[citations'[i].edition].material].whole =>
           i \in DOMAIN citations /\ citations[i].valid /\ citations[i].edition = citations'[i].edition
    BY <2>7
  <2> QED
    BY <1>1, <1>2, <2>5, <2>6, <2>8, <2>9, <2>10, <2>11, CitationsMove DEF SameCall
<1> QED
  BY <1>5, <1>6

\* A step that writes the versions of its material.
LEMMA EditionsMove ==
  ASSUME MaterialsInv, NEW c \in MaterialCall, NEW m \in DOMAIN materials, NEW q \in MaterialCallType,
         materialCall[c].material = m, materialCall[c].op \in Writer,
         materialCall[c].op # "create" => \E e \in DOMAIN editions : editions[e].material = m,
         materialCall' = [materialCall EXCEPT ![c] = q], SameCall(q, materialCall[c]), UNCHANGED <<materials, citations, past>>,
         editions' \in Seq(EditionRow), Len(editions') <= MaxEditions,
         \A e \in DOMAIN editions :
           /\ e \in DOMAIN editions' /\ editions'[e].material = editions[e].material /\ editions'[e].version = editions[e].version
           /\ editions[e].superseded => editions'[e].superseded
           /\ editions[e].material # m => editions'[e] = editions[e],
         \A e \in DOMAIN editions' : e \in DOMAIN editions \/ (editions'[e].material = m /\ editions'[e].version <= e),
         \E n \in 0..MaxEditions : ChainOf(editions', m, n),
         MaterialCallInv(q, materials, editions', citations, past),
         Stuck(editions', m) =>
           past.died > 0 \/ InsertsNext(q, editions', m) \/ \E d \in MaterialCall : d # c /\ InsertsNext(materialCall[d], editions', m)
  PROVE  MaterialsInv'
<1>1. /\ materials \in Seq(MaterialRow) /\ citations \in Seq(CitationRow) /\ past \in PastType /\ m # 0 /\ m \in Material
      /\ MaterialsData(materials, editions, citations, past) /\ DOMAIN materials \subseteq Material
      /\ \A e \in DOMAIN editions : editions[e].version \in Nat /\ editions[e].version >= 1
  BY CallFacts, WriterFacts, MaterialFacts
<1>2. PICK es : es = editions'
  OBVIOUS
<1>3. /\ es \in Seq(EditionRow) /\ Len(es) <= MaxEditions
      /\ \A e \in DOMAIN editions :
           /\ e \in DOMAIN es /\ es[e].material = editions[e].material /\ es[e].version = editions[e].version
           /\ editions[e].superseded => es[e].superseded
           /\ editions[e].material # m => es[e] = editions[e]
      /\ \A e \in DOMAIN es : e \in DOMAIN editions \/ (es[e].material = m /\ es[e].version <= e)
      /\ \E n \in 0..MaxEditions : ChainOf(es, m, n)
  BY <1>2
<1>4. ASSUME NEW n, n # m
      PROVE  /\ \A k : ChainOf(editions, n, k) => ChainOf(es, n, k)
             /\ \A v : Below(editions, n, v) => Below(es, n, v)
             /\ Stuck(es, n) => Stuck(editions, n)
  <2>1. \A e \in DOMAIN es : es[e].material = n => e \in DOMAIN editions /\ es[e] = editions[e]
    BY <1>3, <1>4
  <2>2. \A e \in DOMAIN editions : editions[e].material = n => e \in DOMAIN es /\ es[e] = editions[e]
    BY <1>3, <1>4
  <2>3. \A k : ChainOf(editions, n, k) => ChainOf(es, n, k)
    BY <2>1, <2>2 DEF ChainOf
  <2>4. \A v : Below(editions, n, v) => Below(es, n, v)
    BY <2>1 DEF Below
  <2>5. Stuck(es, n) => Stuck(editions, n)
    BY <2>1, <2>2 DEF Stuck
  <2> QED
    BY <2>3, <2>4, <2>5
<1>5. MaterialsData(materials', editions', citations', past')
  <2>1. EditionsInv(materials, es)
    BY <1>1, <1>3, <1>4 DEF MaterialsData, EditionsInv
  <2>2. \A n \in DOMAIN materials : RowInv(materials[n], es, n)
    BY <1>1, <1>3 DEF MaterialsData, RowInv, IsOf
  <2>3. ASSUME NEW n \in Material PROVE NewestInv(materials, es, past.newest, past.mixed, n)
    <3>1. NewestInv(materials, editions, past.newest, past.mixed, n)
      BY <1>1 DEF MaterialsData
    <3>2. n \in DOMAIN materials /\ materials[n].current # 0 => materials[n].current \in DOMAIN editions
      BY <1>1 DEF MaterialsData, RowInv, IsOf
    <3>3. \A e \in DOMAIN editions : e \in DOMAIN es /\ es[e].material = editions[e].material /\ es[e].version = editions[e].version
      BY <1>3
    <3> QED
      BY <3>1, <3>2, <3>3 DEF NewestInv
  <2>4. \A i \in DOMAIN citations : CitationInv(citations[i], materials, es)
    BY <1>1, <1>3 DEF MaterialsData, CitationInv
  <2> QED
    BY <1>1, <1>2, <2>1, <2>2, <2>3, <2>4 DEF MaterialsData
<1>6. Evolves(m)
  <2>1. \A n \in Material : past.newest[n] <= past.newest[n]
    BY <1>1, MaterialsAssumption DEF PastType
  <2> QED
    BY <1>1, <1>2, <1>3, <2>1 DEF Evolves
<1>7. ASSUME NEW d \in MaterialCall, d # c
      PROVE  MaterialCallInv(materialCall[d], materials', editions', citations', past') /\ Apart(q, materialCall[d], past')
  <2>1. Apart(materialCall[c], materialCall[d], past)
    BY <1>7, MaterialFacts
  <2>2. Unharmed(materialCall[d], m)
    <3>1. materialCall[d].op = "create" => CreatorInv(materialCall[d], materials, editions, past)
      BY CallFacts DEF MaterialCallInv
    <3>2. materialCall[d].op \in Writer /\ materialCall[d].material = m => m \in past.mixed
      BY <1>1, <2>1 DEF Apart
    <3>3. materialCall[d].op = "create" /\ materialCall[d].material = m => ~materials[m].created /\ materialCall[d].pc \notin {"number", "insert"}
      BY <1>1, <2>1, <3>1, SMTT(60) DEF Apart, CreatorInv, Below
    <3>4. materialCall[d].op = "create" /\ materialCall[d].pc = "row" /\ materialCall[d].key # NoKey /\ materialCall[d].key \notin past.keys =>
            \A n \in DOMAIN materials : materials[n].key # materialCall[d].key
      BY <3>1 DEF CreatorInv
    <3> QED
      BY <3>2, <3>3, <3>4 DEF Unharmed
  <2>3. MaterialCallInv(materialCall[d], materials', editions', citations', past')
    BY <1>1, <1>6, <2>2, CallFacts, OtherStays
  <2>4. Apart(q, materialCall[d], past')
    BY <2>1, ApartStays
  <2> QED
    BY <2>3, <2>4
<1>8. \A n \in DOMAIN materials' : Stuck(editions', n) =>
        past'.died > 0 \/ InsertsNext(q, editions', n) \/ \E d \in MaterialCall : d # c /\ InsertsNext(materialCall[d], editions', n)
  <2>1. ASSUME NEW n \in DOMAIN materials, n # m, Stuck(es, n)
        PROVE  past.died > 0 \/ \E d \in MaterialCall : d # c /\ InsertsNext(materialCall[d], es, n)
    <3>1. past.died > 0 \/ \E d \in MaterialCall : InsertsNext(materialCall[d], editions, n)
      BY <1>4, <2>1, MaterialFacts
    <3> QED
      BY <1>4, <2>1, <3>1 DEF InsertsNext
  <2> QED
    BY <1>2, <2>1
<1>9. MaterialCallInv(q, materials', editions', citations', past')
  OBVIOUS
<1> QED
  BY <1>1, <1>5, <1>7, <1>8, <1>9, MaterialMoves

LEMMA SupersedeVersionStep == ASSUME MaterialsInv, NEW c \in MaterialCall, SupersedeVersion(c) PROVE MaterialsInv'
<1>1. /\ materialCall[c].op = "edit" /\ materialCall[c].pc = "supersede" /\ UNCHANGED <<materials, citations, past>>
      /\ materialCall[c] \in MaterialCallType /\ MaterialCallInv(materialCall[c], materials, editions, citations, past)
      /\ \A n \in DOMAIN materials : ~InsertsNext(materialCall[c], editions, n)
  BY CallFacts DEF SupersedeVersion, At2
<1>2. PICK m \in DOMAIN materials : m = materialCall[c].material
  BY <1>1, CallFacts
<1>3. PICK e : e = materialCall[c].edition
  OBVIOUS
<1>4. PICK v : v = materialCall[c].version
  OBVIOUS
<1>5. IsOf(editions, e, m) /\ editions[e].version = v /\ (m \notin past.mixed => Below(editions, m, v + 1))
  BY <1>1, <1>2, <1>3, <1>4 DEF MaterialCallInv, EditorInv
<1>6. /\ editions \in Seq(EditionRow) /\ Len(editions) <= MaxEditions /\ editions[e] \in EditionRow /\ v \in 1..MaxEditions
      /\ \A f \in DOMAIN editions : editions[f].version \in Nat
  BY <1>2, <1>5, WriterFacts, MaterialFacts DEF MaterialsData, EditionsInv, IsOf, EditionRow, Edition
<1>7. PICK r : r = [editions[e] EXCEPT !.superseded = TRUE]
  OBVIOUS
<1>8. PICK q : q = [materialCall[c] EXCEPT !.version = v + 1, !.pc = "insert"]
  OBVIOUS
<1>9. editions' = [editions EXCEPT ![e] = r] /\ materialCall' = [materialCall EXCEPT ![c] = q]
  BY <1>1, <1>3, <1>4, <1>7, <1>8, MaterialFacts DEF SupersedeVersion
<1>10. r \in EditionRow /\ r.material = m /\ r.version = v /\ r.superseded = TRUE
  BY <1>5, <1>6, <1>7 DEF EditionRow, IsOf
<1>11. PICK es : es = editions'
  OBVIOUS
<1>12. /\ es \in Seq(EditionRow) /\ Len(es) = Len(editions) /\ DOMAIN es = DOMAIN editions /\ es[e] = r
       /\ \A f \in DOMAIN editions : f # e => es[f] = editions[f]
  BY <1>5, <1>6, <1>9, <1>10, <1>11, SeqUpdate DEF IsOf
<1>13. v + 1 \in 0..(MaxEditions + 1) /\ v \in Nat
  BY <1>6, MaterialsAssumption
<1>14. /\ q \in MaterialCallType /\ q.pc = "insert" /\ q.op = "edit" /\ q.key = materialCall[c].key /\ q.material = m
       /\ q.edition = e /\ q.version = v + 1
  BY <1>1, <1>2, <1>3, <1>8, <1>13 DEF MaterialCallType
<1>15. \A f \in DOMAIN editions :
         /\ f \in DOMAIN es /\ es[f].material = editions[f].material /\ es[f].version = editions[f].version
         /\ editions[f].superseded => es[f].superseded
         /\ editions[f].material # m => es[f] = editions[f]
  BY <1>5, <1>10, <1>12 DEF IsOf
<1>16. PICK n \in 0..MaxEditions : ChainOf(editions, m, n)
  BY <1>2, WriterFacts, MaterialFacts DEF MaterialsData, EditionsInv
<1>17. ChainOf(es, m, n)
  <2>1. \A f \in DOMAIN es : es[f].material = editions[f].material /\ es[f].version = editions[f].version
    BY <1>12, <1>15
  <2>2. \A f \in DOMAIN es : editions[f].superseded => es[f].superseded
    BY <1>12, <1>15
  <2>3. DOMAIN es = DOMAIN editions
    BY <1>12
  <2> QED
    BY <1>16, <2>1, <2>2, <2>3 DEF ChainOf
<1>18. \A w : Below(editions, m, w) => Below(es, m, w)
  BY <1>12, <1>15 DEF Below
<1>19. MaterialCallInv(q, materials, es, citations, past)
  BY <1>1, <1>2, <1>5, <1>10, <1>12, <1>14, <1>18 DEF MaterialCallInv, EditorInv, IsOf
<1>20. ASSUME Stuck(es, m)
       PROVE  past.died > 0 \/ InsertsNext(q, es, m) \/ \E d \in MaterialCall : d # c /\ InsertsNext(materialCall[d], es, m)
  <2>1. CASE editions[e].superseded
    <3>1. Stuck(editions, m)
      BY <1>5, <1>12, <1>15, <1>20, <2>1 DEF Stuck, IsOf
    <3>2. past.died > 0 \/ \E d \in MaterialCall : InsertsNext(materialCall[d], editions, m)
      BY <3>1, MaterialFacts
    <3> QED
      BY <1>1, <1>18, <3>2 DEF InsertsNext
  <2>2. CASE ~editions[e].superseded
    <3>1. n = v
      BY <1>5, <1>16, <2>2 DEF ChainOf, IsOf
    <3>2. Below(es, m, v + 1)
      BY <1>17, <3>1, <1>13 DEF ChainOf, Below
    <3> QED
      BY <1>14, <3>2 DEF InsertsNext
  <2> QED
    BY <2>1, <2>2
<1>21. \E f \in DOMAIN editions : editions[f].material = m
  BY <1>5 DEF IsOf
<1>22. \A f \in DOMAIN es : f \in DOMAIN editions \/ (es[f].material = m /\ es[f].version <= f)
  BY <1>12
<1>23. \E k \in 0..MaxEditions : ChainOf(es, m, k)
  BY <1>16, <1>17
<1>24. /\ editions' \in Seq(EditionRow) /\ Len(editions') <= MaxEditions
       /\ \A f \in DOMAIN editions :
            /\ f \in DOMAIN editions' /\ editions'[f].material = editions[f].material /\ editions'[f].version = editions[f].version
            /\ editions[f].superseded => editions'[f].superseded
            /\ editions[f].material # m => editions'[f] = editions[f]
       /\ \A f \in DOMAIN editions' : f \in DOMAIN editions \/ (editions'[f].material = m /\ editions'[f].version <= f)
       /\ \E k \in 0..MaxEditions : ChainOf(editions', m, k)
  BY <1>6, <1>11, <1>12, <1>15, <1>22, <1>23
<1>25. Stuck(editions', m) =>
         past.died > 0 \/ InsertsNext(q, editions', m) \/ \E d \in MaterialCall : d # c /\ InsertsNext(materialCall[d], editions', m)
  BY <1>11, <1>20
<1>26. MaterialCallInv(q, materials, editions', citations, past)
  BY <1>11, <1>19
<1>27. SameCall(q, materialCall[c]) /\ materialCall[c].op \in Writer
  BY <1>1, <1>2, <1>14 DEF SameCall, Writer
<1> QED
  BY <1>1, <1>2, <1>9, <1>14, <1>21, <1>24, <1>25, <1>26, <1>27, EditionsMove, ZenonT(60)

LEMMA InsertVersionStep == ASSUME MaterialsInv, NEW c \in MaterialCall, InsertVersion(c) PROVE MaterialsInv'
<1>1. /\ materialCall[c].op \in {"create", "edit"} /\ materialCall[c].pc = "insert" /\ UNCHANGED <<materials, citations, past>>
      /\ materialCall[c] \in MaterialCallType /\ MaterialCallInv(materialCall[c], materials, editions, citations, past)
      /\ Len(editions) < MaxEditions
  BY CallFacts DEF InsertVersion, At2
<1>2. PICK m \in DOMAIN materials : m = materialCall[c].material
  BY <1>1, CallFacts
<1>3. PICK v \in Nat : v = materialCall[c].version
  BY <1>1, MaterialsAssumption DEF MaterialCallType
<1>4. /\ editions \in Seq(EditionRow) /\ m \in Material /\ m # 0
      /\ \A f \in DOMAIN editions : editions[f].version \in Nat /\ editions[f].version >= 1 /\ editions[f].version <= f
  BY <1>2, WriterFacts, MaterialFacts DEF MaterialsData, EditionsInv
<1>5. CASE v \in VersionsOf(m)
  <2>1. IsOver(c) /\ UNCHANGED editions
    BY <1>2, <1>3, <1>5 DEF InsertVersion, MaterialOf
  <2>2. \A n \in DOMAIN materials : ~InsertsNext(materialCall[c], editions, n)
    BY <1>2, <1>3, <1>4, <1>5 DEF InsertsNext, Below, VersionsOf, EditionsOf
  <2> QED
    BY <1>1, <2>1, <2>2, MaterialEnds
<1>6. CASE v \notin VersionsOf(m)
  <2>1. PICK k \in Nat : k = Len(editions)
    BY <1>4
  <2>2. PICK n \in 0..MaxEditions : ChainOf(editions, m, n)
    BY <1>4, MaterialFacts DEF MaterialsData, EditionsInv
  <2>3. \A f \in DOMAIN editions : editions[f].material = m => editions[f].version # v
    BY <1>6 DEF VersionsOf, EditionsOf
  <2>4. v \notin 1..n /\ n \in Nat
    BY <2>2, <2>3, MaterialsAssumption DEF ChainOf
  <2>5. v = n + 1 /\ \A f \in DOMAIN editions : editions[f].material = m => editions[f].superseded
    <3>1. CASE materialCall[c].op = "create"
      <4>1. Below(editions, m, 1) /\ v = 1
        BY <1>1, <1>2, <1>3, <3>1 DEF MaterialCallInv, CreatorInv
      <4>2. \A f \in DOMAIN editions : editions[f].material # m
        BY <1>4, <4>1 DEF Below
      <4>3. n = 0
        BY <2>2, <2>4, <4>2 DEF ChainOf
      <4> QED
        BY <4>1, <4>2, <4>3
    <3>2. CASE materialCall[c].op = "edit"
      <4>1. PICK e : IsOf(editions, e, m) /\ editions[e].version + 1 = v /\ editions[e].superseded
        BY <1>1, <1>2, <1>3, <3>2 DEF MaterialCallInv, EditorInv
      <4>2. editions[e].version \in 1..n
        BY <2>2, <4>1 DEF ChainOf, IsOf
      <4>3. v = n + 1
        BY <2>4, <4>1, <4>2
      <4>4. editions[e].version = n
        BY <2>4, <4>1, <4>2, <4>3
      <4>5. \A f \in DOMAIN editions : editions[f].material = m => editions[f].superseded
        BY <2>2, <4>1, <4>4 DEF ChainOf, IsOf
      <4> QED
        BY <4>3, <4>5
    <3> QED
      BY <1>1, <3>1, <3>2
  <2>6. n <= k
    <3>1. n = 0 \/ \E f \in DOMAIN editions : editions[f].version = n
      BY <2>2, <2>4 DEF ChainOf
    <3> QED
      BY <1>4, <2>1, <2>4, <3>1
  <2>7. PICK r : r = [material |-> m, version |-> v, superseded |-> FALSE]
    OBVIOUS
  <2>8. r \in EditionRow /\ r.material = m /\ r.version = v /\ r.superseded = FALSE
    <3>1. v \in Edition
      BY <1>1, <2>1, <2>4, <2>5, <2>6, MaterialsAssumption DEF Edition
    <3> QED
      BY <1>4, <2>7, <3>1 DEF EditionRow
  <2>9. PICK q : q = [materialCall[c] EXCEPT !.edition = k + 1, !.pc = "current"]
    OBVIOUS
  <2>10. editions' = Append(editions, r) /\ materialCall' = [materialCall EXCEPT ![c] = q]
    BY <1>2, <1>3, <1>6, <2>1, <2>7, <2>9, MaterialFacts DEF InsertVersion, MaterialOf
  <2>11. PICK es : es = editions'
    OBVIOUS
  <2>12. /\ es \in Seq(EditionRow) /\ Len(es) = k + 1 /\ DOMAIN es = 1..(k + 1) /\ DOMAIN editions = 1..k
         /\ es[k + 1] = r /\ \A f \in 1..k : es[f] = editions[f]
    BY <1>4, <2>1, <2>8, <2>10, <2>11
  <2>13. /\ k + 1 \in DOMAIN es /\ k + 1 \notin DOMAIN editions /\ k + 1 # 0
         /\ \A f \in DOMAIN editions : f \in DOMAIN es /\ es[f] = editions[f]
         /\ \A f \in DOMAIN es : f \in DOMAIN editions \/ f = k + 1
    BY <2>1, <2>12
  <2>14. k + 1 \in 0..MaxEditions
    BY <1>1, <2>1, MaterialsAssumption
  <2>15. /\ q \in MaterialCallType /\ q.pc = "current" /\ q.op = materialCall[c].op /\ q.key = materialCall[c].key /\ q.material = m
         /\ q.edition = k + 1 /\ q.version = v
    BY <1>1, <1>2, <1>3, <2>9, <2>14 DEF MaterialCallType
  <2>16. ChainOf(es, m, n + 1)
    <3>1. \A f \in DOMAIN es : es[f].material = m => es[f].version \in 1..(n + 1) /\ (es[f].superseded \/ es[f].version = n + 1)
      <4>1. \A f \in DOMAIN editions : editions[f].material = m => editions[f].version \in 1..n
        BY <2>2 DEF ChainOf
      <4> QED
        BY <2>4, <2>5, <2>8, <2>12, <2>13, <4>1
    <3>2. \A w \in 1..(n + 1) : \E f \in DOMAIN es : es[f].material = m /\ es[f].version = w
      <4>1. \A w \in 1..(n + 1) : w \in 1..n \/ w = n + 1
        BY <2>4
      <4>2. \A w \in 1..n : \E f \in DOMAIN editions : editions[f].material = m /\ editions[f].version = w
        BY <2>2 DEF ChainOf
      <4> QED
        BY <2>5, <2>8, <2>12, <2>13, <4>1, <4>2
    <3>3. \A f, g \in DOMAIN es : es[f].material = m /\ es[g].material = m /\ es[f].version = es[g].version => f = g
      BY <2>2, <2>3, <2>8, <2>12, <2>13, SMTT(60) DEF ChainOf
    <3> QED
      BY <3>1, <3>2, <3>3 DEF ChainOf
  <2>17. MaterialCallInv(q, materials, es, citations, past)
    <3>1. IsOf(es, k + 1, m) /\ es[k + 1].version = v
      BY <2>8, <2>12, <2>13 DEF IsOf
    <3>2. Below(es, m, v + 1)
      BY <2>4, <2>5, <2>16 DEF ChainOf, Below
    <3>3. materialCall[c].op = "create" => v = 1
      BY <1>1, <1>3 DEF MaterialCallInv, CreatorInv
    <3> QED
      BY <1>1, <1>2, <2>15, <3>1, <3>2, <3>3 DEF MaterialCallInv, CreatorInv, EditorInv
  <2>18. ~Stuck(es, m)
    BY <2>8, <2>12, <2>13 DEF Stuck
  <2>19. materialCall[c].op # "create" => \E e \in DOMAIN editions : editions[e].material = m
    BY <1>1, <1>2 DEF MaterialCallInv, EditorInv, IsOf
  <2>20. \A f \in DOMAIN es : f \in DOMAIN editions \/ (es[f].material = m /\ es[f].version <= f)
    BY <2>1, <2>4, <2>5, <2>6, <2>8, <2>12, <2>13
  <2>21. n + 1 \in 0..MaxEditions
    BY <1>1, <2>1, <2>4, <2>6, MaterialsAssumption
  <2>22. \E j \in 0..MaxEditions : ChainOf(es, m, j)
    BY <2>16, <2>21
  <2>23. Len(es) <= MaxEditions
    BY <1>1, <2>1, <2>12, MaterialsAssumption
  <2>24. /\ editions' \in Seq(EditionRow) /\ Len(editions') <= MaxEditions
         /\ \A f \in DOMAIN editions :
              /\ f \in DOMAIN editions' /\ editions'[f].material = editions[f].material /\ editions'[f].version = editions[f].version
              /\ editions[f].superseded => editions'[f].superseded
              /\ editions[f].material # m => editions'[f] = editions[f]
         /\ \A f \in DOMAIN editions' : f \in DOMAIN editions \/ (editions'[f].material = m /\ editions'[f].version <= f)
         /\ \E j \in 0..MaxEditions : ChainOf(editions', m, j)
    BY <2>11, <2>12, <2>13, <2>20, <2>22, <2>23
  <2>25. MaterialCallInv(q, materials, editions', citations, past) /\ ~Stuck(editions', m)
    BY <2>11, <2>17, <2>18
  <2>26. SameCall(q, materialCall[c]) /\ materialCall[c].op \in Writer
    BY <1>1, <1>2, <2>15 DEF SameCall, Writer
  <2> QED
    BY <1>1, <1>2, <2>10, <2>15, <2>19, <2>24, <2>25, <2>26, EditionsMove
<1> QED
  BY <1>5, <1>6

LEMMA MaterialApiDiesStep == ASSUME MaterialsInv, MaterialApiDies PROVE MaterialsInv'
<1>1. /\ materials \in Seq(MaterialRow) /\ editions \in Seq(EditionRow) /\ citations \in Seq(CitationRow) /\ past \in PastType
      /\ MaterialsData(materials, editions, citations, past) /\ UNCHANGED <<materials, editions, citations>>
      /\ past.died < MaxMaterialDeaths /\ materialCall' = [c \in MaterialCall |-> NoMaterialCall]
  BY MaterialFacts DEF MaterialApiDies
<1>2. DOMAIN materials \subseteq Material
  BY <1>1, MaterialsAssumption DEF MaterialsData, EditionsInv, Material
<1>3. PICK X : X = past.mixed \cup {m \in DOMAIN materials : \E c \in MaterialCall : MaterialOf(c) = m /\ materialCall[c].op # "read"}
  OBVIOUS
<1>4. X \in SUBSET Material /\ past.mixed \subseteq X
  BY <1>1, <1>2, <1>3 DEF PastType
<1>5. past' = [past EXCEPT !.died = past.died + 1, !.mixed = X]
  BY <1>3 DEF MaterialApiDies
<1>6. past.died + 1 \in 0..MaxMaterialDeaths /\ past.died + 1 > 0
  BY <1>1, MaterialsAssumption DEF PastType
<1>7. past' \in PastType /\ past'.newest = past.newest /\ past'.keys = past.keys /\ past'.mixed = X /\ past'.died > 0
  BY <1>1, <1>4, <1>5, <1>6 DEF PastType
<1>8. MaterialsData(materials', editions', citations', past')
  BY <1>1, <1>4, <1>7, DataOfThePast
<1>9. \A c \in MaterialCall : materialCall'[c] = NoMaterialCall
  BY <1>1
<1>10. MaterialsTypeOK'
  <2>1. materialCall' \in [MaterialCall -> MaterialCallType]
    BY <1>1, NoCallWaits
  <2> QED
    BY <1>1, <1>7, <2>1 DEF MaterialsTypeOK, MaterialCallType, PastType
<1>11. \A c, d \in MaterialCall : Apart(materialCall'[c], materialCall'[d], past')
  BY <1>9, NoCallWaits DEF Apart, Writer
<1>12. \A c \in MaterialCall : MaterialCallInv(materialCall'[c], materials', editions', citations', past')
  BY <1>9, NoCallWaits
<1> QED
  BY <1>7, <1>8, <1>10, <1>11, <1>12 DEF MaterialsInv

LEMMA MaterialsStep == MaterialsInv /\ [MaterialsNext]_materialVars => MaterialsInv'
<1> SUFFICES ASSUME MaterialsInv, [MaterialsNext]_materialVars PROVE MaterialsInv'
  OBVIOUS
<1>1. CASE UNCHANGED materialVars
  BY <1>1 DEF materialVars, MaterialsInv, MaterialsTypeOK
<1> QED
  BY <1>1, AskMaterialStep, FindByKeyStep, CreateMaterialStep, NumberVersionStep, InsertVersionStep, SetCurrentVersionStep,
     AddSourceStep, FindMaterialStep, FindActiveVersionStep, SupersedeVersionStep, SoftDeleteStep, ListVersionsStep,
     InvalidateSourcesStep, ReadMaterialStep, MaterialShownStep, MaterialApiDiesStep DEF MaterialsNext

\* The versions of a material are as many as the last number says.
LEMMA ChainCounts ==
  ASSUME MaterialsInv, NEW m, NEW n \in Nat, ChainOf(editions, m, n)
  PROVE  Cardinality(EditionsOf(m)) = n /\ VersionsOf(m) = 1..n
<1>1. PICK f : f = [e \in EditionsOf(m) |-> editions[e].version]
  OBVIOUS
<1>2. f \in [EditionsOf(m) -> 1..n]
  BY <1>1 DEF ChainOf, EditionsOf
<1>3. \A a, b \in EditionsOf(m) : f[a] = f[b] => a = b
  BY <1>1 DEF ChainOf, EditionsOf
<1>4. \A v \in 1..n : \E e \in EditionsOf(m) : f[e] = v
  BY <1>1 DEF ChainOf, EditionsOf
<1>5. f \in Bijection(EditionsOf(m), 1..n)
  <2>1. f \in Injection(EditionsOf(m), 1..n)
    BY <1>2, <1>3 DEF Injection, IsInjective
  <2>2. f \in Surjection(EditionsOf(m), 1..n)
    BY <1>2, <1>4 DEF Surjection
  <2> QED
    BY <2>1, <2>2 DEF Bijection
<1>6. IsFiniteSet(EditionsOf(m))
  <2>1. PICK k \in Nat : DOMAIN editions = 1..k
    BY MaterialFacts
  <2>2. EditionsOf(m) \in SUBSET (1..k) /\ IsFiniteSet(1..k)
    BY <2>1, FS_Interval DEF EditionsOf
  <2> QED
    BY <2>2, FS_Subset
<1>7. Cardinality(1..n) = Cardinality(EditionsOf(m))
  BY <1>5, <1>6, FS_Bijection DEF ExistsBijection
<1>8. Cardinality(1..n) = n
  BY FS_Interval
<1>9. VersionsOf(m) = 1..n
  BY DEF VersionsOf, ChainOf, EditionsOf
<1> QED
  BY <1>7, <1>8, <1>9

LEMMA MaterialsHolds == MaterialsInv => MaterialsInvariant
<1> SUFFICES ASSUME MaterialsInv PROVE MaterialsInvariant
  OBVIOUS
<1>1. /\ MaterialsTypeOK /\ MaterialsData(materials, editions, citations, past)
      /\ \A c \in MaterialCall : MaterialCallInv(materialCall[c], materials, editions, citations, past)
      /\ \A m \in DOMAIN materials : Stuck(editions, m) =>
           past.died > 0 \/ \E c \in MaterialCall : InsertsNext(materialCall[c], editions, m)
  BY DEF MaterialsInv
<1>2. DOMAIN materials \subseteq Material
  BY MaterialFacts, MaterialsAssumption DEF MaterialsData, EditionsInv, Material
<1>3. EditionsAreOneChain
  <2>1. ASSUME NEW m \in DOMAIN materials
        PROVE  /\ VersionsOf(m) = 1..Cardinality(EditionsOf(m))
               /\ \A e \in ActiveEditions(m) : editions[e].version = Cardinality(EditionsOf(m))
    <3>1. PICK n \in 0..MaxEditions : ChainOf(editions, m, n)
      BY <1>1, <1>2 DEF MaterialsData, EditionsInv
    <3>2. n \in Nat
      BY MaterialsAssumption
    <3>3. Cardinality(EditionsOf(m)) = n /\ VersionsOf(m) = 1..n
      BY <3>1, <3>2, ChainCounts
    <3>4. \A e \in ActiveEditions(m) : editions[e].version = n
      BY <3>1 DEF ActiveEditions, EditionsOf, ChainOf
    <3> QED
      BY <3>3, <3>4
  <2> QED
    BY <2>1 DEF EditionsAreOneChain
<1>4. StaysEditable
  <2>1. ASSUME NEW m \in DOMAIN materials, EditionsOf(m) # {}, ActiveEditions(m) = {}
        PROVE  past.died > 0 \/ \E c \in MaterialCall :
                 At2(c, {"edit"}, "insert") /\ MaterialOf(c) = m /\ materialCall[c].version \notin VersionsOf(m)
    <3>1. Stuck(editions, m)
      BY <2>1 DEF Stuck, EditionsOf, ActiveEditions
    <3>2. \A e \in DOMAIN editions : editions[e].version \in Nat
      <4>1. \A e \in DOMAIN editions : editions[e] \in EditionRow
        BY MaterialFacts, ElementsOf
      <4> QED
        BY <4>1, MaterialsAssumption DEF EditionRow, Edition
    <3>3. ASSUME NEW c \in MaterialCall, InsertsNext(materialCall[c], editions, m)
          PROVE  At2(c, {"edit"}, "insert") /\ MaterialOf(c) = m /\ materialCall[c].version \notin VersionsOf(m)
      BY <3>2, <3>3 DEF InsertsNext, At2, MaterialOf, VersionsOf, EditionsOf, Below
    <3> QED
      BY <1>1, <2>1, <3>1, <3>3
  <2> QED
    BY <2>1 DEF StaysEditable
<1>5. SavedIsShown
  BY <1>1 DEF SavedIsShown, At2, MaterialOf, MaterialCallInv, ReaderInv
<1>6. SourcesFallWithTheMaterial
  BY <1>1 DEF SourcesFallWithTheMaterial, MaterialsData, CitationInv
<1>7. DeletedIsNotReady
  BY <1>1 DEF DeletedIsNotReady, MaterialsData, RowInv
<1>8. OneMaterialPerKey
  <2>1. ASSUME NEW k \in MaterialKey \ past.keys PROVE Cardinality({m \in DOMAIN materials : materials[m].key = k}) <= 1
    <3> DEFINE S == {m \in DOMAIN materials : materials[m].key = k}
    <3>1. k # NoKey
      BY MaterialsAssumption
    <3>2. \A m, n \in S : m = n
      BY <1>1, <2>1, <3>1 DEF MaterialsData, KeysInv
    <3> HIDE DEF S
    <3>3. CASE S = {}
      BY <3>3, FS_EmptySet DEF S
    <3>4. CASE S # {}
      <4>1. PICK m \in S : TRUE
        BY <3>4
      <4>2. S = {m}
        BY <3>2, <4>1
      <4>3. Cardinality(S) = 1
        BY <4>2, FS_Singleton, Zenon
      <4> QED
        BY <4>3 DEF S
    <3> QED
      BY <3>3, <3>4
  <2> QED
    BY <2>1 DEF OneMaterialPerKey
<1> QED
  BY <1>1, <1>3, <1>4, <1>5, <1>6, <1>7, <1>8 DEF MaterialsInvariant

(***************************************************************************)
(* The five parts of studying, one after the other.                        *)
(***************************************************************************)
StudyInv == LearningInv /\ PlanInv /\ PracticeInv /\ MaterialsInv /\ VoiceModelInv

(* Whoever studies is told the truth (learning-repository.ts, routes.ts of *)
(* practice and study-materials, asr-providers.ts): what an answer is worth *)
(* and what is asked next, what the plan says, who may go on with which    *)
(* session, which material is shown and which model hears the answers; for *)
(* any questions, tasks, materials, sessions, requests and deaths.         *)
THEOREM StudyIsTrue == RecordsSpec => []StudyInvariant
<1>1. RecordsInit => StudyInv
  <2> SUFFICES ASSUME RecordsInit PROVE StudyInv
    OBVIOUS
  <2>1. LearningInit /\ PlanInit /\ PracticeInit /\ MaterialsInit /\ VoiceModelInit
    BY DEF RecordsInit
  <2> QED
    BY <2>1, LearningInitInv, PlanInitInv, PracticeInitInv, MaterialsInitInv, VoiceModelInitInv DEF StudyInv
<1>2. StudyInv /\ [RecordsNext]_recordsVars => StudyInv'
  <2> SUFFICES ASSUME StudyInv, [RecordsNext]_recordsVars PROVE StudyInv'
    OBVIOUS
  <2>1. /\ [LearningNext]_learningVars /\ [PlanNext]_planVars /\ [PracticeNext]_practiceVars
        /\ [MaterialsNext]_materialVars /\ [VoiceModelNext]_voiceModelVars
    BY DEF RecordsNext, recordsVars
  <2> QED
    BY <2>1, LearningStep, PlanStep, PracticeStep, MaterialsStep, VoiceModelStep DEF StudyInv
<1>3. StudyInv => StudyInvariant
  BY LearningHolds, PlanHolds, PracticeHolds, MaterialsHolds, VoiceModelHolds DEF StudyInv, StudyInvariant
<1> QED
  BY <1>1, <1>2, <1>3, PTL DEF RecordsSpec
=============================================================================
