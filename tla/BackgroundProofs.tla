-------------------------- MODULE BackgroundProofs --------------------------
(***************************************************************************)
(* The cycles of the worker process, each for any number of rows, requests *)
(* and crashes: the outbox, the diary, the intelligence cycle and the      *)
(* deletion requests.                                                      *)
(***************************************************************************)
EXTENDS Outbox, Diary, Intelligence, Deletion, FiniteSetTheorems, TLAPS

-----------------------------------------------------------------------------
(* The outbox.  Neither invariant is inductive by itself: a cycle that is  *)
(* past its work publishes without looking, so it has to be known that the *)
(* event in hand was consumed, and the audit cycle takes what it fetched,  *)
(* so it has to be known that the fetch left out nothing older.            *)
RowsMatch ==
  /\ \A i, j \in DOMAIN queue : queue[i] = queue[j] => i = j
  /\ \A m \in Message : row[m] # "absent" => \E i \in DOMAIN queue : queue[i] = m
  /\ \A m \in Message : audited[m] => row[m] # "absent"
  /\ \A t \in Task : \A m \in job[t].batch : row[m] # "absent"

(* Past its work, the audit cycle has audited the event in hand and the    *)
(* marker cycle has marked it.                                             *)
InHandWasConsumed ==
  \A t \in Task, m \in Message : Doing(t, "done") /\ Current(t, m) =>
    IF t = "audit" THEN audited[m] ELSE marked[m]

(* What waits, is older than an event of the batch and was there when that *)
(* was fetched, is in the batch.                                           *)
NothingOlderIsLeft ==
  \A m \in Message : \A n \in job["audit"].batch :
    Before(m, n) /\ row[m] = "pending" /\ ~audited[m] /\ <<m, n>> \notin late => m \in job["audit"].batch

OutboxInv ==
  OutboxInvariant /\ RowsMatch /\ InHandWasConsumed /\ NothingOlderIsLeft

-----------------------------------------------------------------------------
(* The diary.  What the two writers of a day rely on from step to step: a  *)
(* rewrite began when there was a diary, has its text in the ledger before *)
(* it reads the row, and has read a version of a diary that was there.     *)
DiaryShapes ==
  /\ worker = [pc |-> worker.pc, todo |-> worker.todo]
  /\ DOMAIN request = Request
  /\ \A r \in Request :
       request[r] = [pc |-> request[r].pc, rewrite |-> request[r].rewrite, seen |-> request[r].seen]

RewriteIsFounded ==
  \A r \in Request :
    /\ request[r].pc \in {"regenerate", "keep", "read", "write"} => Published
    /\ request[r].pc \in {"read", "write"} => r \in ledger
    /\ request[r].pc = "write" => request[r].seen \in Nat /\ request[r].seen >= 1

DiaryCore == DiaryTypeOK /\ AnnouncedOnce /\ RewriteIsKept /\ DiaryShapes /\ RewriteIsFounded
DiaryInv == DiaryCore /\ FirstIsKept

-----------------------------------------------------------------------------
(* The intelligence cycle: it is about to notify of an event of the day    *)
(* that was not notified of.                                               *)
FiringIsNew ==
  cycle.pc = "notify" => cycle.firing \in events /\ notified[cycle.firing] = 0

IntelligenceInv == IntelligenceInvariant /\ FiringIsNew

(* The deletion requests: type correctness carries the rest, since a       *)
(* request is completed only by the judgement that read no target left.    *)
LEMMA DeletionInitInv == DeletionInit => DeletionInvariant
<1> SUFFICES ASSUME DeletionInit PROVE DeletionInvariant
  OBVIOUS
<1>1. DeletionTypeOK
  BY DeletionAssumption DEF DeletionInit, DeletionTypeOK, Resting
<1>2. CompletedIsClear
  BY DEF DeletionInit, CompletedIsClear
<1> QED
  BY <1>1, <1>2 DEF DeletionInvariant

LEMMA DeletionStep == DeletionInvariant /\ [DeletionNext]_deletionVars => DeletionInvariant'
<1> SUFFICES ASSUME DeletionInvariant, [DeletionNext]_deletionVars PROVE DeletionInvariant'
  OBVIOUS
<1> USE DEF DeletionInvariant, DeletionTypeOK, CompletedIsClear
<1>1. ASSUME NEW d \in Deletion, NEW targets \in SUBSET Target, PostDeletion(d, targets)
      PROVE  DeletionInvariant'
  BY <1>1 DEF PostDeletion
<1>2. ASSUME NEW w \in Eraser, TakeDeletions(w) PROVE DeletionInvariant'
  <2>1. PICK chosen \in SUBSET Deletion :
          eraser' = [eraser EXCEPT ![w] = [at |-> "next", todo |-> chosen, hand |-> {}]]
    BY <1>2 DEF TakeDeletions, kSubset, Open
  <2> QED
    BY <1>2, <2>1 DEF TakeDeletions, Resting
<1>3. ASSUME NEW w \in Eraser, NextDeletion(w) PROVE DeletionInvariant'
  <2>1. CASE eraser[w].todo = {}
    BY <1>3, <2>1 DEF NextDeletion, Resting
  <2>2. CASE eraser[w].todo # {}
    <3>1. PICK d \in eraser[w].todo :
            /\ deletion' = [deletion EXCEPT ![d].status = "in_progress"]
            /\ eraser' = [eraser EXCEPT ![w] = [at |-> "clear", todo |-> eraser[w].todo \ {d}, hand |-> {d}]]
      BY <1>3, <2>2 DEF NextDeletion, SetStatus
    <3>2. mishaps' = mishaps
      BY <1>3 DEF NextDeletion
    <3> QED
      BY <3>1, <3>2
  <2> QED
    BY <2>1, <2>2
<1>4. ASSUME NEW w \in Eraser, ClearTarget(w) PROVE DeletionInvariant'
  <2>1. PICK d \in eraser[w].hand :
          IF deletion[d].left = {}
            THEN eraser' = [eraser EXCEPT ![w].at = "judge"] /\ UNCHANGED deletion
            ELSE /\ \E t \in deletion[d].left : deletion' = [deletion EXCEPT ![d].left = @ \ {t}]
                 /\ UNCHANGED eraser
    BY <1>4 DEF ClearTarget
  <2>2. CASE deletion[d].left = {}
    BY <1>4, <2>1, <2>2, SMTT(60) DEF ClearTarget
  <2>3. CASE deletion[d].left # {}
    BY <1>4, <2>1, <2>3, SMTT(60) DEF ClearTarget
  <2> QED
    BY <2>2, <2>3
<1>5. ASSUME NEW w \in Eraser, Judge(w) PROVE DeletionInvariant'
  BY <1>5, SMTT(60) DEF Judge, SetStatus
<1>6. ASSUME NEW w \in Eraser, AuditDeletion(w) PROVE DeletionInvariant'
  BY <1>6, ZenonT(60) DEF AuditDeletion
<1>7. ASSUME NEW w \in Eraser, DeletionThrows(w) PROVE DeletionInvariant'
  <2>1. PICK d \in Deletion : deletion' = [deletion EXCEPT ![d].status = "failed"]
    BY <1>7 DEF DeletionThrows, Catch, SetStatus
  <2>2. eraser' \in [Eraser -> [at : {"rest", "next", "clear", "judge", "audit"},
                               todo : SUBSET Deletion, hand : SUBSET Deletion]]
    BY <1>7, ZenonT(60) DEF DeletionThrows
  <2>3. mishaps' \in 0..MaxMishaps
    BY <1>7, DeletionAssumption DEF DeletionThrows
  <2> QED
    BY <2>1, <2>2, <2>3, SMTT(60)
<1>8. ASSUME NEW w \in Eraser, EraserDies(w) PROVE DeletionInvariant'
  BY <1>8, DeletionAssumption DEF EraserDies, Resting
<1>9. CASE UNCHANGED deletionVars
  BY <1>9 DEF deletionVars
<1> QED
  BY <1>1, <1>2, <1>3, <1>4, <1>5, <1>6, <1>7, <1>8, <1>9 DEF DeletionNext, EraserStep

(* Completed means cleared (deletion-worker.ts): a request the user was    *)
(* told is completed has no target left, for any requests, targets,        *)
(* workers that overlap, statements that throw and workers that die.       *)
THEOREM CompletedMeansCleared == DeletionSpec => []DeletionInvariant
BY DeletionInitInv, DeletionStep, PTL DEF DeletionSpec

-----------------------------------------------------------------------------
(* The diary, in three parts a step disturbs separately.                   *)
RequestPlace ==
  {"idle", "plan", "insertPlan", "look", "generate", "cycle", "publish", "version",
   "regenerate", "keep", "read", "write", "done", "failed"}
WorkerPlace == {"idle", "look", "skip", "cycle", "generate", "publish", "version", "advance"}

DayInv ==
  /\ entry \in [text : Author, version : Nat]
  /\ ledger \subseteq Author /\ shown \in [first : Author, later : SUBSET Author]
  /\ announced \in Nat /\ faults \in 0..MaxFaults
  /\ schedule \in [Schedule -> {"none", "due", "later"}]
  /\ AnnouncedOnce /\ RewriteIsKept

WorkerInv ==
  /\ worker.todo \subseteq Schedule /\ worker.pc \in WorkerPlace
  /\ worker = [pc |-> worker.pc, todo |-> worker.todo]

RequestInv(r) ==
  /\ request[r].pc \in RequestPlace
  /\ request[r] = [pc |-> request[r].pc, rewrite |-> request[r].rewrite, seen |-> request[r].seen]
  /\ request[r].pc \in {"regenerate", "keep", "read", "write"} => Published
  /\ request[r].pc \in {"read", "write"} => r \in ledger
  /\ request[r].pc = "write" => request[r].seen \in Nat /\ request[r].seen >= 1

RequestsInv == DOMAIN request = Request /\ \A r \in Request : RequestInv(r)

LEMMA DiaryParts ==
  /\ DiaryCore <=> DayInv /\ WorkerInv /\ RequestsInv
  /\ DiaryCore' <=> DayInv' /\ WorkerInv' /\ RequestsInv'
<1>1. DiaryCore <=> DayInv /\ WorkerInv /\ RequestsInv
  BY DEF DiaryCore, DiaryInvariant, DiaryTypeOK, DiaryShapes, RewriteIsFounded, DayInv, WorkerInv,
         RequestInv, RequestsInv, RequestPlace, WorkerPlace
<1>2. DiaryCore' <=> DayInv' /\ WorkerInv' /\ RequestsInv'
  BY DEF DiaryCore, DiaryInvariant, DiaryTypeOK, DiaryShapes, RewriteIsFounded, DayInv, WorkerInv,
         RequestInv, RequestsInv, RequestPlace, WorkerPlace
<1> QED
  BY <1>1, <1>2

(* Other requests rely on the row being there and on the ledger, which no  *)
(* step takes back.                                                        *)
LEMMA RequestGoes ==
  ASSUME RequestsInv, NEW r \in Request, NEW pc \in RequestPlace, NEW w, NEW n,
         request' = [request EXCEPT ![r] = [pc |-> pc, rewrite |-> w, seen |-> n]],
         Published => Published', ledger \subseteq ledger',
         pc \in {"regenerate", "keep", "read", "write"} => Published',
         pc \in {"read", "write"} => r \in ledger',
         pc = "write" => n \in Nat /\ n >= 1
  PROVE  RequestsInv'
<1>1. DOMAIN request' = Request
  BY DEF RequestsInv
<1>2. ASSUME NEW q \in Request PROVE RequestInv(q)'
  <2>1. CASE q = r
    <3>1. request'[q] = [pc |-> pc, rewrite |-> w, seen |-> n]
      BY <2>1 DEF RequestsInv
    <3> QED
      BY <2>1, <3>1 DEF RequestInv
  <2>2. CASE q # r
    <3>1. request'[q] = request[q]
      BY <2>2 DEF RequestsInv
    <3> QED
      BY <3>1 DEF RequestsInv, RequestInv
  <2> QED
    BY <2>1, <2>2
<1> QED
  BY <1>1, <1>2 DEF RequestsInv

LEMMA RequestAtIs ==
  ASSUME RequestsInv, NEW r \in Request, NEW pc, RequestAt(r, pc)
  PROVE  request' = [request EXCEPT ![r] = [pc |-> pc, rewrite |-> request[r].rewrite,
                                                       seen |-> request[r].seen]]
<1>1. request[r] = [pc |-> request[r].pc, rewrite |-> request[r].rewrite, seen |-> request[r].seen]
  BY DEF RequestsInv, RequestInv
<1>2. [request[r] EXCEPT !.pc = pc] = [pc |-> pc, rewrite |-> request[r].rewrite, seen |-> request[r].seen]
  BY <1>1
<1>3. request' = [request EXCEPT ![r] = [request[r] EXCEPT !.pc = pc]]
  BY DEF RequestAt
<1> QED
  BY <1>2, <1>3

(* The requests when the step is not one of theirs. *)
LEMMA RequestsStay ==
  ASSUME RequestsInv, request' = request, Published => Published', ledger \subseteq ledger'
  PROVE  RequestsInv'
BY DEF RequestsInv, RequestInv

LEMMA DayStays ==
  ASSUME DayInv, UNCHANGED <<entry, announced, schedule, shown>>,
         ledger \subseteq ledger', ledger' \subseteq Author, faults' \in 0..MaxFaults
  PROVE  DayInv' /\ (Published <=> Published')
BY DEF DayInv, AnnouncedOnce, RewriteIsKept, Published

LEMMA Faulty == ASSUME DayInv, Fault PROVE faults' \in 0..MaxFaults
BY DiaryAssumption DEF DayInv, Fault

LEMMA PublishInv ==
  ASSUME DayInv, NEW a \in Author, PublishEntry(a), UNCHANGED <<ledger, schedule, faults>>
  PROVE  DayInv' /\ (Published => Published')
BY DEF DayInv, PublishEntry, Published, AnnouncedOnce, RewriteIsKept

LEMMA WorkerGoes ==
  ASSUME WorkerInv, NEW pc \in WorkerPlace, WorkerAt(pc)
  PROVE  WorkerInv'
BY DEF WorkerInv, WorkerAt

LEMMA WorkerNext ==
  ASSUME WorkerInv, NEW s, NextSchedule(s)
  PROVE  WorkerInv'
BY DEF WorkerInv, NextSchedule, WorkerPlace

LEMMA DiaryCoreInit == DiaryInit => DiaryCore
<1> SUFFICES ASSUME DiaryInit PROVE DiaryCore
  OBVIOUS
<1>1. DayInv
  BY DiaryAssumption DEF DiaryInit, DayInv, NoDiary, Author, AnnouncedOnce, RewriteIsKept, Published
<1>2. WorkerInv
  BY DEF DiaryInit, WorkerInv, WorkerPlace
<1>3. RequestsInv
  BY DEF DiaryInit, RequestsInv, RequestInv, RequestPlace
<1> QED
  BY <1>1, <1>2, <1>3, DiaryParts

LEMMA WorkerStepInv == ASSUME DiaryCore, WorkerStep PROVE DiaryCore'
<1>0. DayInv /\ WorkerInv /\ RequestsInv /\ Worker \in Author
  BY DiaryParts DEF Author
<1>1. CASE FetchSchedules
  <2>1. DayInv' /\ RequestsInv'
    BY <1>0, <1>1, DayStays, RequestsStay DEF FetchSchedules, DayInv
  <2>2. WorkerInv'
    BY <1>1 DEF FetchSchedules, WorkerInv, WorkerPlace
  <2> QED
    BY <2>1, <2>2, DiaryParts
<1>2. ASSUME NEW s \in Schedule, LookForDiary(s) PROVE DiaryCore'
  <2>1. DayInv' /\ RequestsInv'
    BY <1>0, <1>2, DayStays, RequestsStay DEF LookForDiary, DayInv
  <2>2. WorkerInv'
    BY <1>0, <1>2, WorkerGoes DEF LookForDiary, AfterLook, WorkerPlace
  <2> QED
    BY <2>1, <2>2, DiaryParts
<1>3. ASSUME NEW s \in Schedule, AdvanceCursor(s) PROVE DiaryCore'
  <2>1. DayInv' /\ (Published <=> Published')
    BY <1>0, <1>3 DEF AdvanceCursor, DayInv, AnnouncedOnce, RewriteIsKept, Published
  <2>2. RequestsInv'
    BY <1>0, <1>3, <2>1, RequestsStay DEF AdvanceCursor
  <2>3. WorkerInv'
    BY <1>0, <1>3, WorkerNext DEF AdvanceCursor
  <2> QED
    BY <2>1, <2>2, <2>3, DiaryParts
<1>4. ASSUME NEW s \in Schedule, WorkerCycleRow(s) PROVE DiaryCore'
  <2>1. DayInv' /\ RequestsInv'
    BY <1>0, <1>4, DayStays, RequestsStay DEF WorkerCycleRow, DayInv
  <2>2. WorkerInv'
    BY <1>0, <1>4, WorkerGoes DEF WorkerCycleRow, WorkerPlace
  <2> QED
    BY <2>1, <2>2, DiaryParts
<1>5. ASSUME NEW s \in Schedule, WorkerGenerate(s) PROVE DiaryCore'
  <2>1. faults' \in 0..MaxFaults /\ WorkerInv'
    BY <1>0, <1>5, Faulty, WorkerGoes, WorkerNext DEF WorkerGenerate, DayInv, WorkerPlace
  <2>2. UNCHANGED <<entry, announced, schedule, shown, ledger, request>>
    BY <1>5 DEF WorkerGenerate
  <2>3. DayInv' /\ (Published <=> Published')
    BY <1>0, <2>1, <2>2, DayStays DEF DayInv
  <2>4. RequestsInv'
    BY <1>0, <2>2, <2>3, RequestsStay
  <2> QED
    BY <2>1, <2>3, <2>4, DiaryParts
<1>6. ASSUME NEW s \in Schedule, WorkerPublish(s) PROVE DiaryCore'
  <2>1. DayInv' /\ (Published => Published')
    BY <1>0, <1>6, PublishInv DEF WorkerPublish
  <2>2. RequestsInv'
    BY <1>0, <1>6, <2>1, RequestsStay DEF WorkerPublish
  <2>3. NextSchedule(s) \/ WorkerAt("version")
    BY <1>6 DEF WorkerPublish
  <2>4. WorkerInv'
    BY <1>0, <2>3, WorkerGoes, WorkerNext DEF WorkerPlace
  <2> QED
    BY <2>1, <2>2, <2>4, DiaryParts
<1>7. ASSUME NEW s \in Schedule, WorkerVersion(s) PROVE DiaryCore'
  <2>1. DayInv' /\ (Published <=> Published')
    BY <1>0, <1>7, DayStays DEF WorkerVersion, DayInv
  <2>2. RequestsInv'
    BY <1>0, <1>7, <2>1, RequestsStay DEF WorkerVersion
  <2>3. WorkerInv'
    BY <1>0, <1>7, WorkerGoes DEF WorkerVersion, WorkerPlace
  <2> QED
    BY <2>1, <2>2, <2>3, DiaryParts
<1> QED
  BY <1>1, <1>2, <1>3, <1>4, <1>5, <1>6, <1>7 DEF WorkerStep

LEMMA RequestStepInv == ASSUME DiaryCore, NEW r \in Request, RequestStep(r) PROVE DiaryCore'
<1>0. DayInv /\ WorkerInv /\ RequestsInv /\ r \in Author /\ RequestInv(r)
  BY DiaryParts DEF Author, RequestsInv
<1> DEFINE At(pc) == [pc |-> pc, rewrite |-> request[r].rewrite, seen |-> request[r].seen]
(* A step that moves the request and writes at most the schedules. *)
<1>a. ASSUME UNCHANGED <<entry, ledger, announced, worker, shown>>,
             schedule' \in [Schedule -> {"none", "due", "later"}], faults' \in 0..MaxFaults,
             NEW pc \in RequestPlace, NEW w, NEW n,
             request' = [request EXCEPT ![r] = [pc |-> pc, rewrite |-> w, seen |-> n]],
             pc \in {"regenerate", "keep", "read", "write"} => Published,
             pc \in {"read", "write"} => r \in ledger,
             pc = "write" => n \in Nat /\ n >= 1
      PROVE  DiaryCore'
  <2>1. DayInv' /\ (Published <=> Published')
    BY <1>0, <1>a DEF DayInv, AnnouncedOnce, RewriteIsKept, Published
  <2>2. RequestsInv'
    BY <1>0, <1>a, <2>1, RequestGoes
  <2>3. WorkerInv'
    BY <1>0, <1>a DEF WorkerInv
  <2> QED
    BY <2>1, <2>2, <2>3, DiaryParts
<1>b. ASSUME UNCHANGED <<entry, ledger, announced, worker, shown>>,
             schedule' \in [Schedule -> {"none", "due", "later"}], faults' \in 0..MaxFaults,
             NEW pc \in RequestPlace, RequestAt(r, pc),
             pc \in {"regenerate", "keep", "read"} => Published,
             pc = "read" => r \in ledger, pc # "write"
      PROVE  DiaryCore'
  <2>1. request' = [request EXCEPT ![r] = At(pc)]
    BY <1>0, <1>b, RequestAtIs
  <2> QED
    BY <1>a, <1>b, <2>1
<1>c. schedule \in [Schedule -> {"none", "due", "later"}] /\ faults \in 0..MaxFaults
  BY <1>0 DEF DayInv
<1>1. CASE PostGenerateToday(r)
  <2>1. PICK w \in BOOLEAN :
          request' = [request EXCEPT ![r] = [pc |-> "plan", rewrite |-> w, seen |-> request[r].seen]]
    BY <1>1 DEF PostGenerateToday
  <2> QED
    BY <1>1, <1>a, <1>c, <2>1, ZenonT(60) DEF PostGenerateToday, RequestPlace
<1>2. CASE CallWriteTool(r)
  <2>1. request' = [request EXCEPT ![r] = [pc |-> "look", rewrite |-> TRUE, seen |-> request[r].seen]]
    BY <1>2 DEF CallWriteTool
  <2> QED
    BY <1>2, <1>a, <1>c, <2>1 DEF CallWriteTool, RequestPlace
<1>3. CASE LookForPlan(r)
  BY <1>3, <1>b, <1>c DEF LookForPlan, RequestPlace
<1>4. CASE InsertPlan(r)
  <2>1. schedule' \in [Schedule -> {"none", "due", "later"}]
    BY <1>4, <1>c DEF InsertPlan
  <2> QED
    BY <1>4, <1>b, <1>c, <2>1 DEF InsertPlan, RequestPlace
<1>5. CASE Look(r)
  BY <1>5, <1>b, <1>c DEF Look, RequestPlace
<1>6. CASE Generate(r)
  <2>1. faults' \in 0..MaxFaults
    BY <1>0, <1>6, <1>c, Faulty DEF Generate
  <2>2. \E pc \in {"cycle", "keep", "failed"} :
          RequestAt(r, pc) /\ (pc = "keep" => request[r].pc = "regenerate")
    BY <1>6 DEF Generate, AfterRewrite
  <2>3. request[r].pc = "regenerate" => Published
    BY <1>0 DEF RequestInv
  <2> QED
    BY <1>6, <1>b, <1>c, <2>1, <2>2, <2>3 DEF Generate, RequestPlace
<1>7. CASE CycleRow(r)
  BY <1>7, <1>b, <1>c DEF CycleRow, RequestPlace
<1>8. CASE PublishOnDemand(r)
  <2>1. DayInv' /\ (Published => Published')
    BY <1>0, <1>8, PublishInv DEF PublishOnDemand
  <2>2. PICK pc \in {"failed", "version"} : RequestAt(r, pc)
    BY <1>8 DEF PublishOnDemand
  <2>3. request' = [request EXCEPT ![r] = At(pc)]
    BY <1>0, <2>2, RequestAtIs
  <2>4. RequestsInv'
    BY <1>0, <1>8, <2>1, <2>3, RequestGoes, ZenonT(60) DEF PublishOnDemand, RequestPlace
  <2>5. WorkerInv'
    BY <1>0, <1>8 DEF PublishOnDemand, WorkerInv
  <2> QED
    BY <2>1, <2>4, <2>5, DiaryParts
<1>9. CASE KeepVersion(r)
  <2>1. DayInv' /\ (Published <=> Published') /\ r \in ledger' /\ ledger \subseteq ledger'
    BY <1>0, <1>9, DayStays DEF KeepVersion, DayInv
  <2>2. PICK pc \in {"done", "read"} :
          RequestAt(r, pc) /\ (pc = "read" => request[r].pc = "keep")
    BY <1>9 DEF KeepVersion, AfterRewrite
  <2>3. request' = [request EXCEPT ![r] = At(pc)] /\ (pc = "read" => Published)
    BY <1>0, <2>2, RequestAtIs DEF RequestInv
  <2>4. RequestsInv'
    BY <1>0, <2>1, <2>3, RequestGoes DEF RequestPlace
  <2>5. WorkerInv'
    BY <1>0, <1>9 DEF KeepVersion, WorkerInv
  <2> QED
    BY <2>1, <2>4, <2>5, DiaryParts
<1>10. CASE ReadRow(r)
  <2>1. request' = [request EXCEPT ![r] = [pc |-> "write", rewrite |-> request[r].rewrite, seen |-> entry.version]]
    BY <1>10 DEF ReadRow, AfterRewrite
  <2>3. Published /\ r \in ledger
    BY <1>0, <1>10 DEF ReadRow, RequestInv
  <2>4. entry.version \in Nat /\ entry.version >= 1
    BY <1>0, <2>3 DEF DayInv, Published
  <2> QED
    BY <1>10, <1>a, <1>c, <2>1, <2>3, <2>4 DEF ReadRow, RequestPlace
<1>11. CASE WriteRow(r)
  <2>1. entry' = [text |-> r, version |-> request[r].seen + 1] /\ RequestAt(r, "done")
    BY <1>11 DEF WriteRow, AfterRewrite
  <2>2. request[r].seen \in Nat /\ request[r].seen >= 1 /\ r \in ledger /\ Published
    BY <1>0, <1>11 DEF WriteRow, RequestInv
  <2>3. DayInv' /\ Published'
    <3>1. entry'.version = request[r].seen + 1 /\ entry'.text = r
      BY <2>1
    <3>2. Published'
      BY <2>2, <3>1 DEF Published
    <3>3. UNCHANGED <<ledger, announced, schedule, faults>> /\ shown' = [shown EXCEPT !.later = shown.later \cup {r}]
      BY <1>11 DEF WriteRow
    <3>4. AnnouncedOnce'
      BY <1>0, <2>2, <3>2, <3>3 DEF DayInv, AnnouncedOnce
    <3>5. RewriteIsKept'
      BY <1>0, <2>2, <3>3 DEF DayInv, RewriteIsKept
    <3>6. entry' \in [text : Author, version : Nat]
      BY <1>0, <2>1, <2>2
    <3>7. /\ ledger' \subseteq Author /\ shown' \in [first : Author, later : SUBSET Author]
          /\ announced' \in Nat /\ faults' \in 0..MaxFaults
          /\ schedule' \in [Schedule -> {"none", "due", "later"}]
      BY <1>0, <3>3 DEF DayInv
    <3> QED
      BY <3>2, <3>4, <3>5, <3>6, <3>7 DEF DayInv
  <2>4. request' = [request EXCEPT ![r] = At("done")]
    BY <1>0, <2>1, RequestAtIs
  <2>5. RequestsInv'
    BY <1>0, <1>11, <2>3, <2>4, RequestGoes DEF WriteRow, RequestPlace
  <2>6. WorkerInv'
    BY <1>0, <1>11 DEF WriteRow, WorkerInv
  <2> QED
    BY <2>3, <2>5, <2>6, DiaryParts
<1>12. CASE ApiCrash(r)
  <2>1. faults' \in 0..MaxFaults
    BY <1>0, <1>12, Faulty DEF ApiCrash
  <2> QED
    BY <1>12, <1>b, <1>c, <2>1 DEF ApiCrash, RequestPlace
<1> QED
  BY <1>1, <1>2, <1>3, <1>4, <1>5, <1>6, <1>7, <1>8, <1>9, <1>10, <1>11, <1>12 DEF RequestStep

LEMMA DiaryCoreStep == DiaryCore /\ [DiaryNext]_diaryVars => DiaryCore'
<1> SUFFICES ASSUME DiaryCore, [DiaryNext]_diaryVars PROVE DiaryCore'
  OBVIOUS
<1>0. DayInv /\ WorkerInv /\ RequestsInv
  BY DiaryParts
<1>1. CASE WorkerStep
  BY <1>1, WorkerStepInv
<1>2. CASE WorkerCrash
  <2>1. faults' \in 0..MaxFaults /\ WorkerInv'
    BY <1>0, <1>2, Faulty DEF WorkerCrash, WorkerInv, WorkerPlace
  <2>2. DayInv' /\ RequestsInv'
    BY <1>0, <1>2, <2>1, DayStays, RequestsStay DEF WorkerCrash, DayInv
  <2> QED
    BY <2>1, <2>2, DiaryParts
<1>3. ASSUME NEW r \in Request, RequestStep(r) PROVE DiaryCore'
  BY <1>3, RequestStepInv
<1>4. ASSUME NEW s \in Schedule, PostSchedule(s) PROVE DiaryCore'
  <2>1. DayInv' /\ (Published <=> Published')
    BY <1>0, <1>4 DEF PostSchedule, DayInv, AnnouncedOnce, RewriteIsKept, Published
  <2>2. RequestsInv' /\ WorkerInv'
    BY <1>0, <1>4, <2>1, RequestsStay DEF PostSchedule, WorkerInv
  <2> QED
    BY <2>1, <2>2, DiaryParts
<1>5. CASE UNCHANGED diaryVars
  <2>1. DayInv' /\ RequestsInv' /\ WorkerInv'
    BY <1>0, <1>5, DayStays, RequestsStay DEF diaryVars, DayInv, WorkerInv
  <2> QED
    BY <2>1, DiaryParts
<1> QED
  BY <1>1, <1>2, <1>3, <1>4, <1>5 DEF DiaryNext

(* The text published first: its author, if it died not, is about to keep  *)
(* it or has done so.                                                      *)
LEMMA FirstGoesOn ==
  ASSUME DiaryInv, Published' => Published, shown'.first = shown.first, ledger \subseteq ledger',
         faults > 0 => faults' > 0,
         worker.pc = "version" => worker'.pc = "version" \/ faults' > 0 \/ Worker \in ledger',
         \A q \in Request : request[q].pc = "version" =>
           request'[q].pc = "version" \/ q \in ledger' \/ (request'[q].pc = "failed" /\ faults' > 0),
         \A q \in Request : request[q].pc = "failed" => request'[q].pc = "failed"
  PROVE  FirstIsKept'
<1>1. PICK a \in Author : a = shown.first
  BY DEF DiaryInv, DiaryCore, DiaryTypeOK
<1>2. Published => a \in ledger \/ AboutToKeep(a) \/ Died(a)
  BY <1>1 DEF DiaryInv, FirstIsKept
<1>3. Published => a \in ledger' \/ AboutToKeep(a)' \/ Died(a)'
  <2>1. CASE a = Worker
    BY <1>2, <2>1 DEF AboutToKeep, Died
  <2>2. CASE a # Worker
    BY <1>2, <2>2 DEF AboutToKeep, Died, Author
  <2> QED
    BY <2>1, <2>2
<1> QED
  BY <1>1, <1>3 DEF FirstIsKept, AboutToKeep, Died

LEMMA FirstStep == DiaryInv /\ [DiaryNext]_diaryVars => FirstIsKept'
<1> SUFFICES ASSUME DiaryInv, [DiaryNext]_diaryVars PROVE FirstIsKept'
  OBVIOUS
<1>0. /\ DOMAIN request = Request /\ faults \in Nat
      /\ worker = [pc |-> worker.pc, todo |-> worker.todo]
      /\ shown \in [first : Author, later : SUBSET Author]
  BY DiaryAssumption DEF DiaryInv, DiaryCore, DiaryShapes, DiaryTypeOK
<1>f. Fault => faults' > 0
  BY <1>0 DEF Fault
(* A step that publishes nothing and is no one's last before it keeps. *)
<1>a. ASSUME UNCHANGED <<entry, ledger, shown>>, faults' = faults \/ Fault,
             request' = request, worker.pc # "version" \/ Fault \/ worker' = worker
      PROVE  FirstIsKept'
  BY <1>0, <1>f, <1>a, FirstGoesOn DEF Published
<1>b. ASSUME NEW r \in Request, NEW rec, request' = [request EXCEPT ![r] = rec], worker' = worker,
             shown'.first = shown.first, Published' => Published, ledger \subseteq ledger', faults' = faults \/ Fault,
             request[r].pc # "failed",
             request[r].pc = "version" => r \in ledger' \/ (rec.pc = "failed" /\ Fault)
      PROVE  FirstIsKept'
  <2>1. \A q \in Request : request'[q] = IF q = r THEN rec ELSE request[q]
    BY <1>0, <1>b
  <2> QED
    BY <1>0, <1>f, <1>b, <2>1, FirstGoesOn
(* The steps that publish. *)
<1>c. ASSUME NEW a \in Author, PublishEntry(a), Published \/ announced' # announced, UNCHANGED <<ledger, faults>>,
             announced' # announced => AboutToKeep(a)'
      PROVE  FirstIsKept' \/ UNCHANGED <<entry, shown>>
  <2>1. CASE Published
    BY <1>c, <2>1 DEF PublishEntry
  <2>2. CASE ~Published
    <3>1. shown'.first = a /\ AboutToKeep(a)'
      BY <1>0, <1>c, <2>2 DEF PublishEntry
    <3> QED
      BY <3>1 DEF FirstIsKept
  <2> QED
    BY <2>1, <2>2
<1>d. announced \in Nat
  BY DEF DiaryInv, DiaryCore, DiaryTypeOK
<1>1. CASE FetchSchedules \/ WorkerCrash \/ \E s \in Schedule : PostSchedule(s)
  BY <1>1, <1>a DEF FetchSchedules, WorkerCrash, PostSchedule
<1>2. ASSUME NEW s \in Schedule, LookForDiary(s) \/ AdvanceCursor(s) \/ WorkerCycleRow(s) \/ WorkerGenerate(s)
      PROVE  FirstIsKept'
  BY <1>2, <1>a DEF LookForDiary, AdvanceCursor, WorkerCycleRow, WorkerGenerate
<1>3. ASSUME NEW s \in Schedule, WorkerPublish(s) PROVE FirstIsKept'
  <2>1. /\ PublishEntry(Worker) /\ UNCHANGED <<ledger, request, faults>> /\ Worker \in Author
        /\ announced' # announced => worker'.pc = "version"
        /\ worker.pc = "publish"
    BY <1>0, <1>3 DEF WorkerPublish, WorkerAt, Author
  <2>2. ~Published => announced' = announced + 1
    BY <2>1 DEF PublishEntry
  <2>3. FirstIsKept' \/ UNCHANGED <<entry, shown>>
    BY <1>c, <1>d, <2>1, <2>2 DEF AboutToKeep
  <2> QED
    BY <1>a, <2>1, <2>3
<1>4. ASSUME NEW s \in Schedule, WorkerVersion(s) PROVE FirstIsKept'
  <2>1. ledger' = ledger \cup {Worker} /\ UNCHANGED <<entry, request, faults, shown>>
    BY <1>4 DEF WorkerVersion
  <2> QED
    BY <1>0, <2>1, FirstGoesOn DEF Published
<1>5. ASSUME NEW r \in Request, RequestStep(r) PROVE FirstIsKept'
  <2>0. \A pc : RequestAt(r, pc) => \E rec : rec.pc = pc /\ request' = [request EXCEPT ![r] = rec]
    <3>1. request[r] = [pc |-> request[r].pc, rewrite |-> request[r].rewrite, seen |-> request[r].seen]
      BY DEF DiaryInv, DiaryCore, DiaryShapes
    <3>2. \A pc : [request[r] EXCEPT !.pc = pc].pc = pc
      BY <3>1
    <3> QED
      BY <3>2 DEF RequestAt
  <2>1. CASE PostGenerateToday(r) \/ CallWriteTool(r) \/ LookForPlan(r) \/ InsertPlan(r) \/ Look(r) \/ CycleRow(r)
             \/ ReadRow(r)
    <3>1. /\ UNCHANGED <<entry, ledger, worker, faults, shown>> /\ \E rec : request' = [request EXCEPT ![r] = rec]
          /\ request[r].pc \notin {"failed", "version"}
      BY <2>0, <2>1 DEF PostGenerateToday, CallWriteTool, LookForPlan, InsertPlan, Look, CycleRow, ReadRow, RequestAt
    <3> QED
      BY <1>b, <3>1 DEF Published
  <2>2. CASE Generate(r)
    <3>1. /\ UNCHANGED <<entry, ledger, worker, shown>> /\ \E rec : request' = [request EXCEPT ![r] = rec]
          /\ request[r].pc \notin {"failed", "version"} /\ (faults' = faults \/ Fault)
      BY <2>0, <2>2 DEF Generate, RequestAt
    <3> QED
      BY <1>b, <3>1 DEF Published
  <2>3. CASE PublishOnDemand(r)
    <3>1. /\ PublishEntry(r) /\ UNCHANGED <<ledger, worker, faults>> /\ r \in Author /\ request[r].pc = "publish"
          /\ RequestAt(r, IF announced' = announced THEN "failed" ELSE "version")
      BY <2>3 DEF PublishOnDemand, Author
    <3>2. PICK rec : rec.pc = (IF announced' = announced THEN "failed" ELSE "version")
                     /\ request' = [request EXCEPT ![r] = rec]
      BY <2>0, <3>1
    <3>3. request'[r] = rec /\ r # Worker
      BY <1>0, <3>2, DiaryAssumption
    <3>4. ~Published => announced' = announced + 1
      BY <3>1 DEF PublishEntry
    <3>5. FirstIsKept' \/ UNCHANGED <<entry, shown>>
      BY <1>c, <1>d, <3>1, <3>2, <3>3, <3>4 DEF AboutToKeep
    <3> QED
      BY <1>b, <3>1, <3>2, <3>5 DEF Published
  <2>4. CASE KeepVersion(r)
    <3>1. /\ ledger' = ledger \cup {r} /\ UNCHANGED <<entry, worker, faults, shown>>
          /\ \E rec : request' = [request EXCEPT ![r] = rec] /\ request[r].pc # "failed"
      BY <2>0, <2>4 DEF KeepVersion, RequestAt
    <3> QED
      BY <1>b, <3>1 DEF Published
  <2>5. CASE WriteRow(r)
    <3>1. /\ UNCHANGED <<ledger, worker, faults>> /\ request[r].pc = "write"
          /\ \E rec : request' = [request EXCEPT ![r] = rec]
          /\ shown' = [shown EXCEPT !.later = shown.later \cup {r}]
      BY <2>0, <2>5 DEF WriteRow, RequestAt
    <3>2. Published /\ shown'.first = shown.first
      BY <1>0, <3>1 DEF DiaryInv, DiaryCore, RewriteIsFounded
    <3> QED
      BY <1>b, <3>1, <3>2
  <2>6. CASE ApiCrash(r)
    <3>1. /\ UNCHANGED <<entry, ledger, worker, shown>> /\ Fault /\ request[r].pc # "failed"
          /\ RequestAt(r, "failed")
      BY <2>6 DEF ApiCrash
    <3>2. PICK rec : rec.pc = "failed" /\ request' = [request EXCEPT ![r] = rec]
      BY <2>0, <3>1
    <3> QED
      BY <1>b, <3>1, <3>2 DEF Published
  <2> QED
    BY <1>5, <2>1, <2>2, <2>3, <2>4, <2>5, <2>6 DEF RequestStep
<1>6. CASE UNCHANGED diaryVars
  BY <1>6, <1>a DEF diaryVars
<1> QED
  BY <1>1, <1>2, <1>3, <1>4, <1>5, <1>6 DEF DiaryNext, WorkerStep

LEMMA DiaryStep == DiaryInv /\ [DiaryNext]_diaryVars => DiaryInv'
BY DiaryCoreStep, FirstStep DEF DiaryInv

(* One diary a day (diary-generator.ts, DiaryApplicationService): for any  *)
(* schedules, requests and crashes the day is announced exactly when its   *)
(* diary is there, every text a rewrite put into the row is in the ledger, *)
(* and of the text published first only its author's death loses the copy. *)
THEOREM OneDiaryADay == DiarySpec => []DiaryInvariant
<1>1. DiaryInv => DiaryInvariant
  BY DEF DiaryInv, DiaryCore, DiaryInvariant
<1>2. DiaryInit => DiaryInv
  BY DiaryCoreInit DEF DiaryInv, DiaryInit, FirstIsKept, Published, NoDiary
<1> QED
  BY <1>1, <1>2, DiaryStep, PTL DEF DiarySpec

-----------------------------------------------------------------------------
(* The intelligence cycle. *)
CycleType ==
  [pc : {"idle", "conflicts", "verify", "rules", "known", "fire", "notify"},
   pairs : SUBSET Pair, action : [Action -> {"none", "executed", "failed"}],
   due : SUBSET Commitment, other : BOOLEAN, known : SUBSET Trigger,
   firing : Trigger \cup {"none"}]

ProfileTyped ==
  /\ claims \in [Claim -> Nat] /\ commitment \subseteq Commitment
  /\ action \in [Action -> {"none", "executed", "failed"}]
  /\ disabled \in BOOLEAN /\ edits \in 0..MaxEdits

DerivedTyped ==
  /\ conflict \in [Pair -> {"none", "open", "resolved"}]
  /\ verdict \in [Action -> {"none", "verified", "failed"}]
  /\ review \in BOOLEAN /\ cycleCrashes \in 0..MaxCycleCrashes

Told ==
  /\ events \subseteq Trigger /\ notified \in [Trigger -> Nat]
  /\ NotifiedOnce /\ FiringIsNew

LEMMA IntelligenceParts ==
  /\ IntelligenceInv <=> ProfileTyped /\ DerivedTyped /\ cycle \in CycleType /\ Told
  /\ IntelligenceInv' <=> ProfileTyped' /\ DerivedTyped' /\ cycle' \in CycleType /\ Told'
<1>1. IntelligenceInv <=> ProfileTyped /\ DerivedTyped /\ cycle \in CycleType /\ Told
  BY DEF IntelligenceInv, IntelligenceInvariant, IntelligenceTypeOK, ProfileTyped, DerivedTyped,
         CycleType, Told
<1>2. IntelligenceInv' <=> ProfileTyped' /\ DerivedTyped' /\ cycle' \in CycleType /\ Told'
  BY DEF IntelligenceInv, IntelligenceInvariant, IntelligenceTypeOK, ProfileTyped, DerivedTyped,
         CycleType, Told
<1> QED
  BY <1>1, <1>2

LEMMA ProfileStays == ASSUME ProfileTyped, UNCHANGED user PROVE ProfileTyped'
BY DEF ProfileTyped, user

LEMMA DerivedStays ==
  ASSUME DerivedTyped, UNCHANGED <<conflict, verdict, review, cycleCrashes>> PROVE DerivedTyped'
BY DEF DerivedTyped

(* Nothing new is told while the cycle does not fire. *)
LEMMA ToldStays ==
  ASSUME Told, UNCHANGED <<events, notified>>, cycle'.pc # "notify" \/ UNCHANGED cycle
  PROVE  Told'
BY DEF Told, NotifiedOnce, FiringIsNew

LEMMA NoCycleTyped == NoCycle \in CycleType /\ NoCycle.pc # "notify"
BY DEF NoCycle, CycleType, Pair

LEMMA GotoTyped ==
  ASSUME cycle \in CycleType, NEW pc \in {"verify", "known"}, Goto(pc)
  PROVE  cycle' \in CycleType /\ cycle'.pc # "notify"
BY DEF CycleType, Goto

LEMMA DropTyped ==
  ASSUME cycle \in CycleType, NEW t \in Trigger
  PROVE  DropCandidate(t) \in CycleType /\ DropCandidate(t).pc = cycle.pc
BY DEF CycleType, DropCandidate

LEMMA IntelligenceInitInv == IntelligenceInit => IntelligenceInv
<1> SUFFICES ASSUME IntelligenceInit PROVE IntelligenceInv
  OBVIOUS
<1>0. disabled \in BOOLEAN /\ review \in BOOLEAN
  BY DEF IntelligenceInit
<1>1. ProfileTyped
  <2>1. claims \in [Claim -> Nat]
    <3>1. claims \in [Claim -> 1..Cardinality(Claim)]
      BY DEF IntelligenceInit
    <3>2. Cardinality(Claim) \in Nat
      BY IntelligenceAssumption, FS_CardinalityType
    <3> QED
      BY <3>1, <3>2
  <2> QED
    BY <1>0, <2>1, IntelligenceAssumption DEF IntelligenceInit, ProfileTyped
<1>2. DerivedTyped /\ cycle \in CycleType /\ cycle.pc # "notify"
  <2>1. cycle \in CycleType /\ cycle.pc # "notify"
    BY NoCycleTyped DEF IntelligenceInit
  <2>2. conflict \in [Pair -> {"none", "open", "resolved"}] /\ verdict \in [Action -> {"none", "verified", "failed"}]
    BY DEF IntelligenceInit
  <2>3. cycleCrashes \in 0..MaxCycleCrashes
    BY IntelligenceAssumption DEF IntelligenceInit
  <2> QED
    BY <1>0, <2>1, <2>2, <2>3 DEF DerivedTyped
<1>3. Told
  BY <1>2 DEF IntelligenceInit, Told, NotifiedOnce, FiringIsNew
<1> QED
  BY <1>1, <1>2, <1>3, IntelligenceParts

LEMMA CycleStepInv == ASSUME IntelligenceInv, CycleStep PROVE IntelligenceInv'
<1>0. ProfileTyped /\ DerivedTyped /\ cycle \in CycleType /\ Told
  BY IntelligenceParts
<1>a. ASSUME UNCHANGED user, DerivedTyped', UNCHANGED <<events, notified>>, cycle' \in CycleType,
             cycle'.pc # "notify" \/ UNCHANGED cycle
      PROVE  IntelligenceInv'
  BY <1>0, <1>a, ProfileStays, ToldStays, IntelligenceParts
<1>1. CASE ReadProfileRows
  <2> DEFINE pairs == {p \in Pair : claims[p[1]] > claims[p[2]] /\ claims[p[2]] > 0}
  <2>1. cycle' = [NoCycle EXCEPT !.pc = "conflicts", !.action = action, !.pairs = pairs]
    BY <1>1 DEF ReadProfileRows
  <2>2. pairs \in SUBSET Pair /\ action \in [Action -> {"none", "executed", "failed"}]
    BY <1>0 DEF ProfileTyped
  <2> HIDE DEF pairs
  <2>3. cycle' \in CycleType /\ cycle'.pc # "notify"
    BY <2>1, <2>2, NoCycleTyped DEF CycleType
  <2> QED
    BY <1>0, <1>1, <1>a, <2>3, DerivedStays DEF ReadProfileRows, outcomes
<1>2. CASE AllCompared
  BY <1>0, <1>2, <1>a, GotoTyped, DerivedStays DEF AllCompared, outcomes
<1>3. ASSUME NEW p \in Pair, CompareClaims(p) PROVE IntelligenceInv'
  <2>1. cycle' \in CycleType /\ cycle'.pc # "notify"
    BY <1>0, <1>3 DEF CompareClaims, CycleType
  <2>2. DerivedTyped'
    BY <1>0, <1>3 DEF CompareClaims, InsertConflict, DerivedTyped, outcomes
  <2> QED
    BY <1>3, <1>a, <2>1, <2>2 DEF CompareClaims, outcomes
<1>4. ASSUME NEW a \in Action, VerifyAction(a) PROVE IntelligenceInv'
  <2>1. DerivedTyped'
    BY <1>0, <1>4 DEF VerifyAction, DerivedTyped, outcomes
  <2> QED
    BY <1>0, <1>4, <1>a, <2>1 DEF VerifyAction, outcomes
<1>5. CASE ReadCommitments
  <2>1. PICK o \in BOOLEAN : cycle' = [cycle EXCEPT !.pc = "rules", !.due = commitment, !.other = o]
    BY <1>5 DEF ReadCommitments
  <2>2. commitment \subseteq Commitment
    BY <1>0 DEF ProfileTyped
  <2>3. cycle' \in CycleType /\ cycle'.pc # "notify"
    BY <1>0, <2>1, <2>2 DEF CycleType
  <2> QED
    BY <1>0, <1>5, <1>a, <2>3, DerivedStays DEF ReadCommitments, outcomes
<1>6. CASE WriteRules
  <2>1. ProfileTyped'
    BY <1>0, <1>6 DEF WriteRules, ProfileTyped
  <2>2. cycle' \in CycleType /\ cycle'.pc # "notify"
    BY <1>0, <1>6, GotoTyped DEF WriteRules
  <2> QED
    BY <1>0, <1>6, <2>1, <2>2, DerivedStays, ToldStays, IntelligenceParts DEF WriteRules, outcomes
<1>7. CASE ListTriggerEvents
  <2>1. cycle' \in CycleType /\ cycle'.pc # "notify"
    BY <1>0, <1>7 DEF ListTriggerEvents, Known, CycleType, Told
  <2> QED
    BY <1>0, <1>7, <1>a, <2>1, DerivedStays DEF ListTriggerEvents, outcomes
<1>8. ASSUME NEW t \in Trigger, SkipTrigger(t) PROVE IntelligenceInv'
  <2>1. cycle' \in CycleType /\ cycle'.pc # "notify"
    BY <1>0, <1>8, DropTyped DEF SkipTrigger
  <2> QED
    BY <1>0, <1>8, <1>a, <2>1, DerivedStays DEF SkipTrigger, outcomes
<1>9. ASSUME NEW t \in Trigger, RecordTrigger(t) PROVE IntelligenceInv'
  <2>1. CASE t \in events
    BY <1>0, <1>9, <1>a, <2>1, DerivedStays, NoCycleTyped DEF RecordTrigger
  <2>2. CASE t \notin events
    <3>1. cycle' \in CycleType /\ cycle'.firing = t
      <4>1. cycle' = [DropCandidate(t) EXCEPT !.pc = "notify", !.firing = t]
        BY <1>9, <2>2 DEF RecordTrigger
      <4> QED
        BY <1>0, <4>1, DropTyped DEF CycleType
    <3>2. events' = events \cup {t} /\ notified' = notified
      BY <1>9, <2>2 DEF RecordTrigger
    <3>3. notified[t] = 0
      BY <1>0, <2>2 DEF Told, NotifiedOnce
    <3>4. Told'
      BY <1>0, <3>1, <3>2, <3>3 DEF Told, NotifiedOnce, FiringIsNew
    <3> QED
      BY <1>0, <1>9, <3>1, <3>4, DerivedStays, ProfileStays, IntelligenceParts DEF RecordTrigger
  <2> QED
    BY <2>1, <2>2
<1>10. CASE Notify
  <2>1. cycle' \in CycleType /\ cycle'.pc # "notify"
    BY <1>0, <1>10 DEF Notify, CycleType
  <2>2. cycle.firing \in events /\ notified[cycle.firing] = 0 /\ events' = events
    BY <1>0, <1>10 DEF Notify, Told, FiringIsNew
  <2>3. Told'
    <3>1. notified' = notified \/ notified' = [notified EXCEPT ![cycle.firing] = notified[cycle.firing] + 1]
      BY <1>10 DEF Notify
    <3> QED
      BY <1>0, <2>1, <2>2, <3>1 DEF Told, NotifiedOnce, FiringIsNew
  <2> QED
    BY <1>0, <1>10, <2>1, <2>3, DerivedStays, ProfileStays, IntelligenceParts DEF Notify
<1>11. CASE WriteReview
  <2>1. DerivedTyped'
    BY <1>0, <1>11 DEF WriteReview, DerivedTyped
  <2> QED
    BY <1>11, <1>a, <2>1, NoCycleTyped DEF WriteReview
<1> QED
  BY <1>1, <1>2, <1>3, <1>4, <1>5, <1>6, <1>7, <1>8, <1>9, <1>10, <1>11 DEF CycleStep

LEMMA IntelligenceStep ==
  IntelligenceInv /\ [IntelligenceNext]_intelligenceVars => IntelligenceInv'
<1> SUFFICES ASSUME IntelligenceInv, [IntelligenceNext]_intelligenceVars PROVE IntelligenceInv'
  OBVIOUS
<1>0. ProfileTyped /\ DerivedTyped /\ cycle \in CycleType /\ Told
  BY IntelligenceParts
<1>a. ASSUME ProfileTyped', DerivedTyped', UNCHANGED <<events, notified, cycle>>
      PROVE  IntelligenceInv'
  BY <1>0, <1>a, ToldStays, IntelligenceParts
<1>b. ASSUME Edit PROVE edits' \in 0..MaxEdits
  BY <1>0, <1>b, IntelligenceAssumption DEF Edit, ProfileTyped
<1>1. CASE CycleStep
  BY <1>1, CycleStepInv
<1>2. CASE IntelligenceCrash
  <2>1. DerivedTyped'
    BY <1>0, <1>2, IntelligenceAssumption DEF IntelligenceCrash, DerivedTyped
  <2> QED
    BY <1>0, <1>2, <2>1, NoCycleTyped, ProfileStays, ToldStays, IntelligenceParts
    DEF IntelligenceCrash
<1>3. ASSUME NEW c \in Claim, NEW r \in BOOLEAN, UpdateClaim(c, r) PROVE IntelligenceInv'
  <2>1. Cardinality(Claim) \in Nat
    BY IntelligenceAssumption, FS_CardinalityType
  <2>2. ProfileTyped'
    BY <1>0, <1>3, <1>b, <2>1 DEF UpdateClaim, ProfileTyped
  <2> QED
    BY <1>0, <1>3, <1>a, <2>2, DerivedStays DEF UpdateClaim, outcomes
<1>4. ASSUME NEW p \in Pair, ResolveConflict(p) PROVE IntelligenceInv'
  <2>1. ProfileTyped' /\ DerivedTyped'
    BY <1>0, <1>4, <1>b DEF ResolveConflict, ProfileTyped, DerivedTyped, outcomes
  <2> QED
    BY <1>4, <1>a, <2>1 DEF ResolveConflict, outcomes
<1>5. ASSUME NEW c \in Commitment, CloseCommitment(c) PROVE IntelligenceInv'
  <2>1. ProfileTyped'
    BY <1>0, <1>5, <1>b DEF CloseCommitment, ProfileTyped
  <2> QED
    BY <1>0, <1>5, <1>a, <2>1, DerivedStays DEF CloseCommitment, outcomes
<1>6. CASE DisableRule
  <2>1. ProfileTyped'
    BY <1>0, <1>6, <1>b DEF DisableRule, ProfileTyped
  <2> QED
    BY <1>0, <1>6, <1>a, <2>1, DerivedStays DEF DisableRule, outcomes
<1>7. ASSUME NEW a \in Action, NEW s \in {"executed", "failed"}, FinishAction(a, s)
      PROVE  IntelligenceInv'
  <2>1. ProfileTyped'
    BY <1>0, <1>7 DEF FinishAction, ProfileTyped
  <2> QED
    BY <1>0, <1>7, <1>a, <2>1, DerivedStays DEF FinishAction, outcomes
<1>8. CASE UNCHANGED intelligenceVars
  BY <1>0, <1>8, <1>a, ProfileStays, DerivedStays DEF intelligenceVars, user
<1> QED
  BY <1>1, <1>2, <1>3, <1>4, <1>5, <1>6, <1>7, <1>8 DEF IntelligenceNext, UserEdits

(* Nobody is told twice on a day (proactive-intelligence-worker.ts:283),   *)
(* for any commitments due, calls and crashes.                             *)
THEOREM ToldOnceADay == IntelligenceSpec => []IntelligenceInvariant
<1>1. IntelligenceInv => IntelligenceInvariant
  BY DEF IntelligenceInv
<1> QED
  BY <1>1, IntelligenceInitInv, IntelligenceStep, PTL DEF IntelligenceSpec

(* What the user settled is not asked again                                *)
(* (proactive-intelligence-repository.ts:502): a conflict keeps its        *)
(* resolution, for any claims and however late a cycle finds the pair.     *)
THEOREM SettledIsNotAskedAgain == IntelligenceSpec => ResolutionIsKept
<1> DEFINE Kept == \A p \in Pair : conflict[p] = "resolved" => conflict'[p] = "resolved"
<1>1. IntelligenceInv /\ [IntelligenceNext]_intelligenceVars => [Kept]_intelligenceVars
  <2> SUFFICES ASSUME IntelligenceInv, IntelligenceNext PROVE Kept
    OBVIOUS
  <2>0. DOMAIN conflict = Pair
    BY IntelligenceParts DEF DerivedTyped
  <2>1. ASSUME NEW q \in Pair, CompareClaims(q) \/ ResolveConflict(q) PROVE Kept
    BY <2>0, <2>1, SMTT(60) DEF CompareClaims, InsertConflict, ResolveConflict
  <2>2. (\E q \in Pair : CompareClaims(q) \/ ResolveConflict(q)) \/ UNCHANGED conflict
    BY DEF IntelligenceNext, CycleStep, UserEdits, ReadProfileRows, AllCompared, VerifyAction,
           ReadCommitments, WriteRules, ListTriggerEvents, SkipTrigger, RecordTrigger, Notify,
           WriteReview, IntelligenceCrash, UpdateClaim, CloseCommitment, DisableRule, FinishAction
  <2> QED
    BY <2>1, <2>2
<1> QED
  BY <1>1, IntelligenceInitInv, IntelligenceStep, PTL DEF IntelligenceSpec, ResolutionIsKept

-----------------------------------------------------------------------------
(* The outbox: the order of creation, and what a fetch takes of it. *)
JobType == [pc : {"idle", "work", "done", "caught"}, batch : SUBSET Message]
RowStatus == {"absent", "pending", "published", "failed"}

LEMMA BeforeOrders ==
  ASSUME OutboxInv
  PROVE  /\ \A a, b \in Message : Before(a, b) => ~Before(b, a) /\ a # b
         /\ \A a, b, c \in Message : Before(a, b) /\ Before(b, c) => Before(a, c)
<1>1. queue \in Seq(Message) /\ \A i, j \in DOMAIN queue : queue[i] = queue[j] => i = j
  BY DEF OutboxInv, OutboxInvariant, OutboxTypeOK, RowsMatch
<1>2. \A i \in DOMAIN queue : i \in Nat
  BY <1>1
<1> QED
  BY <1>1, <1>2 DEF Before

LEMMA OlderAreFinitelyMany ==
  ASSUME OutboxInv, NEW m \in Message, NEW S
  PROVE  IsFiniteSet({n \in S : Before(n, m)})
<1>1. queue \in Seq(Message)
  BY DEF OutboxInv, OutboxInvariant, OutboxTypeOK
<1> DEFINE rows == {queue[i] : i \in 1..Len(queue)}
<1>2. IsFiniteSet(1..Len(queue))
  BY <1>1, FS_Interval
<1>3. IsFiniteSet(rows)
  <2> DEFINE place == [i \in 1..Len(queue) |-> queue[i]]
  <2>1. place \in Surjection(1..Len(queue), rows)
    BY DEF Surjection
  <2> QED
    BY <1>2, <2>1, FS_Surjection
<1>4. {n \in S : Before(n, m)} \subseteq rows
  BY <1>1 DEF Before
<1> QED
  BY <1>3, <1>4, FS_Subset

(* A fetch leaves out nothing older than what it takes. *)
LEMMA FetchIsOldest ==
  ASSUME OutboxInv, NEW m \in Pending, NEW n \in Fetch, Before(m, n)
  PROVE  m \in Fetch
<1> DEFINE older(x) == {k \in Pending : Before(k, x)}
<1>1. m \in Message /\ n \in Message /\ Pending \subseteq Message
  BY DEF Pending, Fetch
<1>2. older(m) \subseteq older(n)
  BY <1>1, BeforeOrders
<1>3. IsFiniteSet(older(n)) /\ IsFiniteSet(older(m))
  BY <1>1, OlderAreFinitelyMany
<1>4. Cardinality(older(m)) <= Cardinality(older(n))
  BY <1>2, <1>3, FS_Subset
<1>5. Cardinality(older(m)) \in Nat /\ Cardinality(older(n)) \in Nat
  BY <1>3, FS_CardinalityType
<1>6. Cardinality(older(n)) < Limit
  BY DEF Fetch
<1>7. Cardinality(older(m)) < Limit
  BY <1>4, <1>5, <1>6, OutboxAssumption
<1> QED
  BY <1>7 DEF Fetch

(* Steps that move cycles to places that are not past their work, or leave *)
(* them alone, and settle rows that were consumed or have failed.          *)
LEMMA Moves ==
  ASSUME OutboxInv, UNCHANGED <<queue, late, audited, marked>>, crashes' \in 0..MaxCrash,
         row' \in [Message -> RowStatus],
         \A m \in Message : row'[m] = "absent" <=> row[m] = "absent",
         \A m \in Message : row'[m] = "pending" => row[m] = "pending",
         \A m \in Message : row'[m] = "published" => row[m] = "published" \/ audited[m] \/ marked[m],
         job' \in [Task -> JobType],
         \A t \in Task : \A m \in job'[t].batch : row[m] # "absent",
         \A t \in Task : job'[t].pc = "done" => job'[t] = job[t],
         \A m \in Message : \A n \in job'["audit"].batch :
           Before(m, n) /\ row'[m] = "pending" /\ ~audited[m] /\ <<m, n>> \notin late => m \in job'["audit"].batch
  PROVE  OutboxInv'
<1>1. \A m, n \in Message : Before(m, n)' <=> Before(m, n)
  BY DEF Before
<1>2. OutboxTypeOK'
  BY DEF OutboxInv, OutboxInvariant, OutboxTypeOK, JobType, RowStatus
<1>3. RowsMatch'
  <2>1. job' \in [Task -> JobType]
    OBVIOUS
  <2>2. \A t \in Task : job'[t].batch \subseteq Message
    BY <2>1 DEF JobType
  <2>3. \A t \in Task : \A m \in job'[t].batch : row'[m] # "absent"
    BY <2>2
  <2> QED
    BY <2>3 DEF OutboxInv, RowsMatch
<1>4. InHandWasConsumed'
  <2> SUFFICES ASSUME NEW t \in Task, NEW m \in Message, Doing(t, "done")', Current(t, m)'
               PROVE  IF t = "audit" THEN audited[m] ELSE marked[m]
    BY DEF InHandWasConsumed
  <2>1. job'[t] = job[t] /\ job[t].batch \subseteq Message
    BY DEF Doing, JobType
  <2>2. Doing(t, "done") /\ Current(t, m)
    BY <1>1, <2>1 DEF Doing, Current
  <2> QED
    BY <2>2 DEF OutboxInv, InHandWasConsumed
<1>5. NothingOlderIsLeft'
  BY <1>1, <1>2 DEF NothingOlderIsLeft, OutboxTypeOK, Task
<1>6. PublishedWasConsumed'
  BY DEF OutboxInv, OutboxInvariant, PublishedWasConsumed
<1>7. AuditedInOrder'
  BY <1>1 DEF OutboxInv, OutboxInvariant, AuditedInOrder
<1> QED
  BY <1>2, <1>3, <1>4, <1>5, <1>6, <1>7 DEF OutboxInv, OutboxInvariant

LEMMA OutboxTyped ==
  ASSUME OutboxInv
  PROVE  /\ queue \in Seq(Message) /\ row \in [Message -> RowStatus]
         /\ job \in [Task -> JobType] /\ crashes \in 0..MaxCrash
         /\ audited \in [Message -> BOOLEAN] /\ marked \in [Message -> BOOLEAN]
         /\ late \subseteq Message \X Message
BY DEF OutboxInv, OutboxInvariant, OutboxTypeOK, JobType, RowStatus

LEMMA OutboxInitInv == OutboxInit => OutboxInv
<1> SUFFICES ASSUME OutboxInit PROVE OutboxInv
  OBVIOUS
<1>1. DOMAIN queue = {} /\ \A t \in Task : job[t] = [pc |-> "idle", batch |-> {}]
  BY DEF OutboxInit, Idle
<1>2. OutboxTypeOK
  <2>1. audited \in [Message -> BOOLEAN] /\ marked \in [Message -> BOOLEAN]
    BY DEF OutboxInit
  <2>2. row \in [Message -> {"absent", "pending", "published", "failed"}] /\ queue \in Seq(Message)
    BY DEF OutboxInit
  <2>3. job \in [Task -> [pc : {"idle", "work", "done", "caught"}, batch : SUBSET Message]]
    BY DEF OutboxInit, Idle
  <2>4. crashes \in 0..MaxCrash /\ late = {}
    BY OutboxAssumption DEF OutboxInit
  <2> QED
    BY <2>1, <2>2, <2>3, <2>4 DEF OutboxTypeOK
<1>3. RowsMatch
  BY <1>1 DEF OutboxInit, RowsMatch
<1>4. InHandWasConsumed /\ NothingOlderIsLeft
  BY <1>1 DEF InHandWasConsumed, NothingOlderIsLeft, Doing, Before
<1>5. PublishedWasConsumed /\ AuditedInOrder
  BY <1>1 DEF OutboxInit, PublishedWasConsumed, AuditedInOrder, Before
<1> QED
  BY <1>2, <1>3, <1>4, <1>5 DEF OutboxInv, OutboxInvariant

(* A new stamp is younger than every other, and has no row. *)
LEMMA StampInv ==
  ASSUME OutboxInv, NEW x \in Message, Stamp(x) PROVE OutboxInv'
<1>1. /\ queue' = Append(queue, x) /\ \A i \in DOMAIN queue : queue[i] # x
      /\ UNCHANGED <<row, late, audited, marked, job, crashes>>
  BY DEF Stamp
<1>2. /\ queue' \in Seq(Message) /\ DOMAIN queue = 1..Len(queue)
      /\ DOMAIN queue' = 1..(Len(queue) + 1) /\ Len(queue) \in Nat
      /\ queue'[Len(queue) + 1] = x /\ \A i \in DOMAIN queue : queue'[i] = queue[i]
  BY <1>1, OutboxTyped
<1>3. \A i \in DOMAIN queue' : i \in DOMAIN queue \/ i = Len(queue) + 1
  BY <1>2
<1>4. \A m, n \in Message : n # x => (Before(m, n)' <=> Before(m, n))
  BY <1>2 DEF Before
<1>5. row[x] = "absent" /\ ~audited[x] /\ \A t \in Task : x \notin job[t].batch
  BY <1>1 DEF OutboxInv, RowsMatch
<1>6. OutboxTypeOK'
  BY <1>1, <1>2 DEF OutboxInv, OutboxInvariant, OutboxTypeOK
<1>7. \A t \in Task : job[t].batch \subseteq Message
  BY OutboxTyped DEF JobType
<1>8. RowsMatch'
  <2>1. \A i, j \in DOMAIN queue' : queue'[i] = queue'[j] => i = j
    <3>1. \A i, j \in DOMAIN queue : queue[i] = queue[j] => i = j
      BY DEF OutboxInv, RowsMatch
    <3> QED
      BY <1>1, <1>2, <1>3, <3>1
  <2>2. \A m \in Message : row[m] # "absent" => \E i \in DOMAIN queue' : queue'[i] = m
    <3>1. \A m \in Message : row[m] # "absent" => \E i \in DOMAIN queue : queue[i] = m
      BY DEF OutboxInv, RowsMatch
    <3>2. DOMAIN queue \subseteq DOMAIN queue'
      BY <1>2
    <3> QED
      BY <1>2, <3>1, <3>2
  <2> QED
    BY <1>1, <2>1, <2>2 DEF OutboxInv, RowsMatch
<1>9. InHandWasConsumed'
  <2> SUFFICES ASSUME NEW t \in Task, NEW m \in Message, Doing(t, "done")', Current(t, m)'
               PROVE  IF t = "audit" THEN audited[m] ELSE marked[m]
    BY <1>1 DEF InHandWasConsumed
  <2>1. Doing(t, "done") /\ Current(t, m)
    BY <1>1, <1>4, <1>5, <1>7 DEF Doing, Current
  <2> QED
    BY <2>1 DEF OutboxInv, InHandWasConsumed
<1>10. NothingOlderIsLeft'
  <2>1. \A n \in job["audit"].batch : n # x /\ n \in Message
    BY <1>5, <1>7 DEF Task
  <2> QED
    BY <1>1, <1>4, <2>1 DEF OutboxInv, NothingOlderIsLeft
<1>11. PublishedWasConsumed' /\ AuditedInOrder'
  BY <1>1, <1>4, <1>5 DEF OutboxInv, OutboxInvariant, PublishedWasConsumed, AuditedInOrder
<1> QED
  BY <1>6, <1>8, <1>9, <1>10, <1>11 DEF OutboxInv, OutboxInvariant

(* A row that appears is late for all that is younger and was fetched. *)
LEMMA InsertInv ==
  ASSUME OutboxInv, NEW x \in Message, Insert(x) PROVE OutboxInv'
<1>1. /\ row[x] = "absent" /\ row' = [row EXCEPT ![x] = "pending"] /\ \E i \in DOMAIN queue : queue[i] = x
      /\ UNCHANGED <<queue, audited, marked, job, crashes>>
      /\ late' = late \cup {<<x, n>> : n \in {k \in Message : Before(x, k) /\ Fetched(k)}}
  BY DEF Insert
<1>2. \A m, n \in Message : Before(m, n)' <=> Before(m, n)
  BY <1>1 DEF Before
<1>3. late \subseteq late' /\ late' \subseteq Message \X Message
  BY <1>1, OutboxTyped
<1>4. \A n \in Message : Before(x, n) /\ Fetched(n) => <<x, n>> \in late'
  BY <1>1
<1>5. /\ row' \in [Message -> RowStatus]
      /\ \A m \in Message : row'[m] = IF m = x THEN "pending" ELSE row[m]
  BY <1>1, OutboxTyped DEF RowStatus
<1>6. OutboxTypeOK'
  BY <1>1, <1>3, <1>5 DEF OutboxInv, OutboxInvariant, OutboxTypeOK, RowStatus
<1>7. \A t \in Task : job[t].batch \subseteq Message
  BY OutboxTyped DEF JobType
<1>8. RowsMatch'
  BY <1>1, <1>5, <1>7 DEF OutboxInv, RowsMatch
<1>9. InHandWasConsumed'
  <2> SUFFICES ASSUME NEW t \in Task, NEW m \in Message, Doing(t, "done")', Current(t, m)'
               PROVE  IF t = "audit" THEN audited[m] ELSE marked[m]
    BY <1>1 DEF InHandWasConsumed
  <2>1. Doing(t, "done") /\ Current(t, m)
    BY <1>1, <1>2, <1>7 DEF Doing, Current
  <2> QED
    BY <2>1 DEF OutboxInv, InHandWasConsumed
<1>10. NothingOlderIsLeft'
  <2> SUFFICES ASSUME NEW m \in Message, NEW n \in job["audit"].batch,
                      Before(m, n), row'[m] = "pending", ~audited[m], <<m, n>> \notin late'
               PROVE  m \in job["audit"].batch
    BY <1>1, <1>2, <1>7 DEF NothingOlderIsLeft, Task
  <2>1. n \in Message /\ Fetched(n)
    BY <1>7 DEF Fetched, Task
  <2>2. m # x /\ <<m, n>> \notin late
    BY <1>3, <1>4, <2>1
  <2> QED
    BY <1>5, <2>2 DEF OutboxInv, NothingOlderIsLeft
<1>11. PublishedWasConsumed'
  BY <1>1, <1>5 DEF OutboxInv, OutboxInvariant, PublishedWasConsumed
<1>12. AuditedInOrder'
  <2> SUFFICES ASSUME NEW m \in Message, NEW n \in Message, Before(m, n), audited[n], <<m, n>> \notin late'
               PROVE  audited[m] \/ row'[m] # "pending"
    BY <1>1, <1>2 DEF AuditedInOrder
  <2>1. m # x /\ <<m, n>> \notin late
    BY <1>3, <1>4 DEF Fetched
  <2> QED
    BY <1>5, <2>1 DEF OutboxInv, OutboxInvariant, AuditedInOrder
<1> QED
  BY <1>6, <1>8, <1>9, <1>10, <1>11, <1>12 DEF OutboxInv, OutboxInvariant

LEMMA BeginInv ==
  ASSUME OutboxInv, NEW t \in Task, Begin(t) PROVE OutboxInv'
<1> DEFINE mine == Fetch \cap Mine(t)
<1>1. job' = [job EXCEPT ![t] = [pc |-> "work", batch |-> mine]]
  BY DEF Begin
<1>2. UNCHANGED <<queue, row, late, audited, marked, crashes>>
  BY DEF Begin
<1>3. mine \subseteq Message /\ \A m \in mine : row[m] = "pending"
  BY DEF Fetch, Pending
<1>4. t = "audit" => mine = Fetch
  BY DEF Mine, Fetch, Pending
<1>5. ASSUME NEW m \in Message, NEW n \in Fetch, Before(m, n), row[m] = "pending"
      PROVE  m \in Fetch
  <2>1. m \in Pending
    BY <1>5 DEF Pending
  <2> QED
    BY <1>5, <2>1, FetchIsOldest
<1> HIDE DEF mine
<1>6. job' \in [Task -> JobType]
  BY <1>1, <1>3, OutboxTyped DEF JobType
<1>7. \A u \in Task : job'[u] = IF u = t THEN [pc |-> "work", batch |-> mine] ELSE job[u]
  BY <1>1, OutboxTyped
<1>8. \A u \in Task : \A m \in job'[u].batch : row[m] # "absent"
  BY <1>3, <1>7 DEF OutboxInv, RowsMatch
<1>9. \A u \in Task : job'[u].pc = "done" => job'[u] = job[u]
  BY <1>7
<1>10. \A m \in Message : \A n \in job'["audit"].batch :
         Before(m, n) /\ row[m] = "pending" /\ ~audited[m] /\ <<m, n>> \notin late => m \in job'["audit"].batch
  <2>1. CASE t = "audit"
    <3>1. job'["audit"].batch = Fetch
      BY <1>4, <1>7, <2>1
    <3> QED
      BY <1>5, <3>1
  <2>2. CASE t # "audit"
    <3>1. job'["audit"] = job["audit"]
      BY <1>7, <2>2 DEF Task
    <3> QED
      BY <3>1 DEF OutboxInv, NothingOlderIsLeft
  <2> QED
    BY <2>1, <2>2
<1> QED
  BY <1>2, <1>6, <1>8, <1>9, <1>10, OutboxTyped, Moves

LEMMA ThrowInv ==
  ASSUME OutboxInv, NEW t \in Task, Throw(t) PROVE OutboxInv'
<1>1. UNCHANGED <<queue, row, late, audited, marked, crashes>> /\ job' = [job EXCEPT ![t].pc = "caught"]
  BY DEF Throw, Become
<1>2. job' \in [Task -> JobType]
  BY <1>1, OutboxTyped, ZenonT(60) DEF JobType
<1>3. \A u \in Task : job'[u].batch = job[u].batch
  BY <1>1, OutboxTyped DEF JobType
<1>4. \A u \in Task : job'[u].pc = "done" => job'[u] = job[u]
  BY <1>1, OutboxTyped DEF JobType
<1>5. job'["audit"].batch = job["audit"].batch
  BY <1>3 DEF Task
<1>6. \A u \in Task : \A m \in job'[u].batch : row[m] # "absent"
  BY <1>3 DEF OutboxInv, RowsMatch
<1>7. \A m \in Message : \A n \in job'["audit"].batch :
        Before(m, n) /\ row[m] = "pending" /\ ~audited[m] /\ <<m, n>> \notin late => m \in job'["audit"].batch
  BY <1>5 DEF OutboxInv, NothingOlderIsLeft
<1> QED
  BY <1>1, <1>2, <1>4, <1>6, <1>7, OutboxTyped, Moves

(* A status update of the event in hand, and on to the next one. *)
LEMMA UpdateInv ==
  ASSUME OutboxInv, NEW t \in Task, NEW c \in Message, NEW s, s = "published" \/ s = "failed",
         Current(t, c), row' = [row EXCEPT ![c] = s], Advance(t, c),
         UNCHANGED <<queue, late, audited, marked, crashes>>,
         s = "published" => Doing(t, "done")
  PROVE  OutboxInv'
<1>0. c \in job[t].batch /\ row[c] # "absent"
  BY DEF Current, OutboxInv, RowsMatch
<1>1. PICK pc \in {"idle", "work"} :
        job' = [job EXCEPT ![t] = [pc |-> pc, batch |-> job[t].batch \ {c}]]
  <2>1. CASE job[t].batch = {c}
    <3>1. job' = [job EXCEPT ![t] = [pc |-> "idle", batch |-> {}]]
      BY <2>1 DEF Advance, Idle
    <3>2. job[t].batch \ {c} = {}
      BY <2>1
    <3> QED
      BY <3>1, <3>2
  <2>2. CASE job[t].batch # {c}
    BY <2>2 DEF Advance
  <2> QED
    BY <2>1, <2>2
<1>2. row' \in [Message -> RowStatus] /\ \A m \in Message : row'[m] = IF m = c THEN s ELSE row[m]
  BY OutboxTyped DEF RowStatus
<1>3. job' \in [Task -> JobType]
  BY <1>1, OutboxTyped DEF JobType
<1>4. \A u \in Task :
        job'[u] = IF u = t THEN [pc |-> pc, batch |-> job[t].batch \ {c}] ELSE job[u]
  BY <1>1, OutboxTyped
<1>5. \A u \in Task : \A m \in job'[u].batch : row[m] # "absent"
  BY <1>4 DEF OutboxInv, RowsMatch
<1>6. \A u \in Task : job'[u].pc = "done" => job'[u] = job[u]
  BY <1>4
<1>7. \A m \in Message : \A n \in job'["audit"].batch :
        Before(m, n) /\ row'[m] = "pending" /\ ~audited[m] /\ <<m, n>> \notin late => m \in job'["audit"].batch
  <2>1. "audit" \in Task
    BY DEF Task
  <2>2. \A n \in job'["audit"].batch : n \in job["audit"].batch
    BY <1>4, <2>1
  <2>3. \A m \in job["audit"].batch : m # c => m \in job'["audit"].batch
    BY <1>4, <2>1
  <2>4. \A m \in Message : row'[m] = "pending" => m # c /\ row[m] = "pending"
    BY <1>2
  <2> QED
    BY <2>2, <2>3, <2>4 DEF OutboxInv, NothingOlderIsLeft
<1>8. s = "published" => audited[c] \/ marked[c]
  BY DEF OutboxInv, InHandWasConsumed
<1>9. /\ \A m \in Message : row'[m] = "absent" <=> row[m] = "absent"
      /\ \A m \in Message : row'[m] = "pending" => row[m] = "pending"
      /\ \A m \in Message : row'[m] = "published" => row[m] = "published" \/ audited[m] \/ marked[m]
  BY <1>0, <1>2, <1>8
<1> QED
  BY <1>2, <1>3, <1>5, <1>6, <1>7, <1>9, OutboxTyped, Moves

LEMMA AbandonInv ==
  ASSUME OutboxInv, NEW tasks, Abandon(tasks) PROVE OutboxInv'
<1>1. /\ UNCHANGED <<queue, row, late, audited, marked>> /\ crashes' \in 0..MaxCrash
      /\ job' = [t \in Task |-> IF t \in tasks THEN [pc |-> "idle", batch |-> {}] ELSE job[t]]
  BY OutboxTyped, OutboxAssumption DEF Abandon, Idle
<1>2. job' \in [Task -> JobType]
  BY <1>1, OutboxTyped DEF JobType
<1>3. \A u \in Task : job'[u] = [pc |-> "idle", batch |-> {}] \/ job'[u] = job[u]
  BY <1>1
<1>4. \A u \in Task : \A m \in job'[u].batch : row[m] # "absent"
  BY <1>3 DEF OutboxInv, RowsMatch
<1>5. \A u \in Task : job'[u].pc = "done" => job'[u] = job[u]
  BY <1>3
<1>6. \A m \in Message : \A n \in job'["audit"].batch :
        Before(m, n) /\ row[m] = "pending" /\ ~audited[m] /\ <<m, n>> \notin late => m \in job'["audit"].batch
  BY <1>3 DEF OutboxInv, NothingOlderIsLeft, Task
<1> QED
  BY <1>1, <1>2, <1>4, <1>5, <1>6, OutboxTyped, Moves

(* The event in hand is one. *)
LEMMA OneInHand ==
  ASSUME OutboxInv, NEW t \in Task, NEW m \in Message, NEW n \in Message,
         Current(t, m), Current(t, n)
  PROVE  m = n
BY BeforeOrders DEF Current

(* The work itself: the event in hand is consumed by the task that holds   *)
(* it, and consumption is only added.                                      *)
LEMMA WorkInv ==
  ASSUME OutboxInv, NEW t \in Task, NEW c \in Message, Current(t, c),
         UNCHANGED <<queue, row, late, crashes>>, job' = [job EXCEPT ![t].pc = "done"],
         audited' \in [Message -> BOOLEAN], marked' \in [Message -> BOOLEAN],
         \A m \in Message : (audited[m] => audited'[m]) /\ (marked[m] => marked'[m]),
         \A m \in Message : audited'[m] => audited[m] \/ (m = c /\ t = "audit"),
         IF t = "audit" THEN audited'[c] ELSE marked'[c]
  PROVE  OutboxInv'
<1>1. \A m, n \in Message : Before(m, n)' <=> Before(m, n)
  BY DEF Before
<1>2. job' \in [Task -> JobType] /\ \A u \in Task : job'[u].batch = job[u].batch /\ (u # t => job'[u] = job[u])
  BY OutboxTyped DEF JobType
<1>3. OutboxTypeOK'
  BY <1>2 DEF OutboxInv, OutboxInvariant, OutboxTypeOK, JobType
<1>4. c \in job[t].batch
  BY DEF Current
<1>5. RowsMatch'
  <2>1. \A m \in Message : audited'[m] => row[m] # "absent"
    BY <1>4 DEF OutboxInv, RowsMatch
  <2> QED
    BY <1>2, <2>1 DEF OutboxInv, RowsMatch
<1>6. \A u \in Task, m \in Message : Current(u, m)' <=> Current(u, m)
  <2> SUFFICES ASSUME NEW u \in Task, NEW m \in Message PROVE Current(u, m)' <=> Current(u, m)
    OBVIOUS
  <2>1. job'[u].batch = job[u].batch /\ job[u].batch \subseteq Message
    BY <1>2, OutboxTyped DEF JobType
  <2> QED
    BY <1>1, <2>1 DEF Current
<1>7. InHandWasConsumed'
  <2> SUFFICES ASSUME NEW u \in Task, NEW m \in Message, Doing(u, "done")', Current(u, m)'
               PROVE  IF u = "audit" THEN audited'[m] ELSE marked'[m]
    BY DEF InHandWasConsumed
  <2>1. CASE u = t
    BY <1>6, <2>1, OneInHand
  <2>2. CASE u # t
    <3>1. Doing(u, "done") /\ Current(u, m)
      BY <1>2, <1>6, <2>2 DEF Doing
    <3> QED
      BY <3>1 DEF OutboxInv, InHandWasConsumed
  <2> QED
    BY <2>1, <2>2
<1>8. NothingOlderIsLeft'
  <2>1. job'["audit"].batch = job["audit"].batch /\ job["audit"].batch \subseteq Message
    BY <1>2, OutboxTyped DEF Task, JobType
  <2> QED
    BY <1>1, <2>1 DEF OutboxInv, NothingOlderIsLeft
<1>9. PublishedWasConsumed'
  BY DEF OutboxInv, OutboxInvariant, PublishedWasConsumed
<1>10. AuditedInOrder'
  <2> SUFFICES ASSUME NEW m \in Message, NEW n \in Message, Before(m, n), audited'[n],
                      row[m] = "pending", ~audited[m], <<m, n>> \notin late
               PROVE  FALSE
    BY <1>1 DEF AuditedInOrder
  <2>1. CASE audited[n]
    BY <2>1 DEF OutboxInv, OutboxInvariant, AuditedInOrder
  <2>2. CASE n = c /\ t = "audit"
    <3>1. m \in job["audit"].batch
      BY <1>4, <2>2 DEF OutboxInv, NothingOlderIsLeft
    <3>2. m = c \/ Before(c, m)
      BY <2>2, <3>1 DEF Current
    <3> QED
      BY <2>2, <3>2, BeforeOrders
  <2> QED
    BY <2>1, <2>2
<1> QED
  BY <1>3, <1>5, <1>7, <1>8, <1>9, <1>10 DEF OutboxInv, OutboxInvariant

LEMMA AuditInv == ASSUME OutboxInv, Audit PROVE OutboxInv'
<1>1. PICK c \in Message : Current("audit", c) /\ audited' = [audited EXCEPT ![c] = TRUE]
  BY DEF Audit
<1>2. UNCHANGED <<queue, row, late, crashes>> /\ marked' = marked /\ job' = [job EXCEPT !["audit"].pc = "done"]
  BY DEF Audit, Become
<1>3. audited' \in [Message -> BOOLEAN] /\ audited'[c]
      /\ \A m \in Message : (audited[m] => audited'[m]) /\ (audited'[m] => audited[m] \/ m = c)
  BY <1>1, OutboxTyped
<1> QED
  BY <1>1, <1>2, <1>3, OutboxTyped, WorkInv DEF Task

LEMMA MarkInv == ASSUME OutboxInv, Mark PROVE OutboxInv'
<1>1. PICK c \in Message : Current("marker", c) /\ marked' = [marked EXCEPT ![c] = TRUE]
  BY DEF Mark
<1>2. UNCHANGED <<queue, row, late, crashes>> /\ audited' = audited /\ job' = [job EXCEPT !["marker"].pc = "done"]
  BY DEF Mark, Become
<1>3. marked' \in [Message -> BOOLEAN] /\ marked'[c] /\ \A m \in Message : marked[m] => marked'[m]
  BY <1>1, OutboxTyped
<1> QED
  BY <1>1, <1>2, <1>3, OutboxTyped, WorkInv DEF Task

LEMMA OutboxStep == OutboxInv /\ [OutboxNext]_outboxVars => OutboxInv'
<1> SUFFICES ASSUME OutboxInv, [OutboxNext]_outboxVars PROVE OutboxInv'
  OBVIOUS
<1>1. ASSUME NEW m \in Message, Insert(m) PROVE OutboxInv'
  BY <1>1, InsertInv
<1>10. ASSUME NEW m \in Message, Stamp(m) PROVE OutboxInv'
  BY <1>10, StampInv
<1>2. ASSUME NEW t \in Task, Begin(t) PROVE OutboxInv'
  BY <1>2, BeginInv
<1>3. ASSUME NEW t \in Task, Throw(t) PROVE OutboxInv'
  BY <1>3, ThrowInv
<1>4. ASSUME NEW t \in Task, Publish(t) PROVE OutboxInv'
  <2>1. PICK m \in Message :
          Current(t, m) /\ row' = [row EXCEPT ![m] = "published"] /\ Advance(t, m)
    BY <1>4 DEF Publish
  <2>2. Doing(t, "done") /\ UNCHANGED <<queue, late, audited, marked, crashes>>
    BY <1>4 DEF Publish
  <2> QED
    BY <2>1, <2>2, UpdateInv
<1>5. ASSUME NEW t \in Task, Fail(t) PROVE OutboxInv'
  <2>1. PICK m \in Message :
          Current(t, m) /\ row' = [row EXCEPT ![m] = "failed"] /\ Advance(t, m)
    BY <1>5 DEF Fail
  <2>2. UNCHANGED <<queue, late, audited, marked, crashes>>
    BY <1>5 DEF Fail
  <2> QED
    BY <2>1, <2>2, UpdateInv
<1>6. ASSUME Audit PROVE OutboxInv'
  BY <1>6, AuditInv
<1>7. ASSUME Mark PROVE OutboxInv'
  BY <1>7, MarkInv
<1>8. ASSUME NEW tasks \in SUBSET Task, Abandon(tasks) PROVE OutboxInv'
  BY <1>8, AbandonInv
<1>9. CASE UNCHANGED outboxVars
  <2>1. UNCHANGED <<queue, row, late, audited, marked, job, crashes>>
    BY <1>9 DEF outboxVars
  <2>2. /\ \A t \in Task : \A m \in job[t].batch : row[m] # "absent"
        /\ \A m \in Message : \A n \in job["audit"].batch :
             Before(m, n) /\ row[m] = "pending" /\ ~audited[m] /\ <<m, n>> \notin late => m \in job["audit"].batch
    BY DEF OutboxInv, RowsMatch, NothingOlderIsLeft
  <2> QED
    BY <2>1, <2>2, OutboxTyped, Moves
<1> QED
  BY <1>1, <1>2, <1>3, <1>4, <1>5, <1>6, <1>7, <1>8, <1>9, <1>10 DEF OutboxNext, Cycle

(* At least once and in order (outbox-worker.ts, compaction-marker.ts): a  *)
(* published event was audited or marked, and when an event is audited     *)
(* every older one that was there for the fetch was audited or has been    *)
(* settled; for any events, stamps, orders of commit, windows and crashes. *)
THEOREM PublishedAfterConsumed == OutboxSpec => []OutboxInvariant
<1>1. OutboxInv => OutboxInvariant
  BY DEF OutboxInv
<1> QED
  BY <1>1, OutboxInitInv, OutboxStep, PTL DEF OutboxSpec
=============================================================================
