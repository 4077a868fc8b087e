------------------------------- MODULE Diary --------------------------------
(***************************************************************************)
(* One tenant's diary of one day.  The worker writes it for schedules that *)
(* are due (apps/worker/src/diary-generator.ts); requests and the writing  *)
(* tool of a conversation write or rewrite it on demand (DiaryApplication- *)
(* Service).  Both publish through publishDiaryWithCycle, and neither      *)
(* knows of the other.  A text is named after the actor that wrote it.     *)
(***************************************************************************)
EXTENDS Naturals, FiniteSets

CONSTANTS
  Schedule, Request,
  Worker,     \* the author of the texts written for schedules
  MaxFaults   \* bound: failed generations and crashes

ASSUME DiaryAssumption == Worker \notin Request /\ MaxFaults \in Nat

VARIABLES
  entry,     \* the diaries row of the day: text, version; version 0 if there is none
  ledger,    \* the texts of its diary_versions
  announced, \* diary.published events in the outbox
  schedule,  \* each schedule: none, due (nextRunAt passed or NULL), later
  worker,    \* its next await, the schedules of its cycle, the one in hand
  request,   \* each request: next await and the version it read
  faults,
  shown      \* ghost: the text published first, and those that rewrites put into the row

diaryVars == <<entry, ledger, announced, schedule, worker, request, faults, shown>>

Author == Request \cup {Worker}
NoDiary == [text |-> Worker, version |-> 0]

DiaryTypeOK ==
  /\ entry \in [text : Author, version : Nat]
  /\ ledger \subseteq Author /\ shown \in [first : Author, later : SUBSET Author]
  /\ announced \in Nat /\ faults \in 0..MaxFaults
  /\ schedule \in [Schedule -> {"none", "due", "later"}]
  /\ worker.todo \subseteq Schedule
  /\ worker.pc \in {"idle", "look", "skip", "cycle", "generate", "publish", "version", "advance"}
  /\ \A r \in Request : request[r].pc \in
       {"idle", "plan", "insertPlan", "look", "generate", "cycle", "publish", "version",
        "regenerate", "keep", "read", "write", "done", "failed"}

DiaryInit ==
  /\ entry = NoDiary /\ ledger = {} /\ announced = 0
  /\ schedule \in [Schedule -> {"none", "due"}]
  /\ worker = [pc |-> "idle", todo |-> {}]
  /\ request = [r \in Request |-> [pc |-> "idle", rewrite |-> FALSE, seen |-> 0]]
  /\ faults = 0 /\ shown = [first |-> Worker, later |-> {}]

Published == entry.version > 0

(* publishDiaryWithCycle, one transaction: the row (one automatic diary a  *)
(* day), the actor's own fresh cycle, the outbox event.  The second form   *)
(* has no unique index.                                                    *)
PublishEntryAgain(a) ==
  /\ entry' = [text |-> a, version |-> 1]
  /\ shown' = [shown EXCEPT !.first = a] /\ announced' = announced + 1
PublishEntry(a) ==
  IF Published THEN UNCHANGED <<entry, shown, announced>>
  ELSE /\ entry' = [text |-> a, version |-> 1]
       /\ shown' = [shown EXCEPT !.first = a] /\ announced' = announced + 1

Fault == faults < MaxFaults /\ faults' = faults + 1

-----------------------------------------------------------------------------
(* runDiaryGenerationCycle: the due schedules, one after the other; an     *)
(* exception is logged and the next schedule is taken.                     *)
InHand(s) == worker.pc # "idle" /\ s \in worker.todo /\ s = CHOOSE x \in worker.todo : TRUE
WorkerAt(pc) == worker' = [worker EXCEPT !.pc = pc]
NextSchedule(s) ==
  worker' = [pc |-> IF worker.todo = {s} THEN "idle" ELSE "look", todo |-> worker.todo \ {s}]

FetchSchedules ==
  /\ worker.pc = "idle"
  /\ LET due == {s \in Schedule : schedule[s] = "due"} IN
     due # {} /\ worker' = [pc |-> "look", todo |-> due]
  /\ UNCHANGED <<entry, ledger, announced, schedule, request, faults, shown>>

(* The day has a diary already: only the cursor moves.                     *)
AfterLook == IF Published THEN "skip" ELSE "cycle"

LookForDiary(s) ==
  /\ InHand(s) /\ worker.pc = "look" /\ WorkerAt(AfterLook)
  /\ UNCHANGED <<entry, ledger, announced, schedule, request, faults, shown>>

AdvanceCursor(s) ==
  /\ InHand(s) /\ worker.pc \in {"skip", "advance"}
  /\ schedule' = [schedule EXCEPT ![s] = "later"]
  /\ NextSchedule(s)
  /\ UNCHANGED <<entry, ledger, announced, request, faults, shown>>

WorkerCycleRow(s) ==
  /\ InHand(s) /\ worker.pc = "cycle" /\ WorkerAt("generate")
  /\ UNCHANGED <<entry, ledger, announced, schedule, request, faults, shown>>

WorkerGenerate(s) ==
  /\ InHand(s) /\ worker.pc = "generate"
  /\ \/ WorkerAt("publish") /\ UNCHANGED faults
     \/ NextSchedule(s) /\ Fault
  /\ UNCHANGED <<entry, ledger, announced, schedule, request, shown>>

WorkerPublish(s) ==
  /\ InHand(s) /\ worker.pc = "publish"
  /\ PublishEntry(Worker)
  /\ IF announced' = announced THEN NextSchedule(s) ELSE WorkerAt("version")
  /\ UNCHANGED <<ledger, schedule, request, faults>>

WorkerVersion(s) ==
  /\ InHand(s) /\ worker.pc = "version"
  /\ ledger' = ledger \cup {Worker} /\ WorkerAt("advance")
  /\ UNCHANGED <<entry, announced, schedule, request, faults, shown>>

WorkerCrash ==
  /\ worker.pc # "idle" /\ Fault
  /\ worker' = [pc |-> "idle", todo |-> {}]
  /\ UNCHANGED <<entry, ledger, announced, schedule, request, shown>>

WorkerStep ==
  \/ FetchSchedules
  \/ \E s \in Schedule : LookForDiary(s) \/ AdvanceCursor(s) \/ WorkerCycleRow(s) \/ WorkerGenerate(s)
                         \/ WorkerPublish(s) \/ WorkerVersion(s)

-----------------------------------------------------------------------------
(* POST /v1/diaries/generate-today and aervox_diary_write; the tool always *)
(* rewrites and makes no schedule.                                         *)
RequestAt(r, pc) == request' = [request EXCEPT ![r].pc = pc]

PostGenerateToday(r) ==
  /\ request[r].pc = "idle"
  /\ \E w \in BOOLEAN : request' = [request EXCEPT ![r] = [pc |-> "plan", rewrite |-> w, seen |-> @.seen]]
  /\ UNCHANGED <<entry, ledger, announced, schedule, worker, faults, shown>>

CallWriteTool(r) ==
  /\ request[r].pc = "idle"
  /\ request' = [request EXCEPT ![r] = [pc |-> "look", rewrite |-> TRUE, seen |-> @.seen]]
  /\ UNCHANGED <<entry, ledger, announced, schedule, worker, faults, shown>>

(* ensureDefaultSchedule: due tomorrow, unless there is a schedule. *)
LookForPlan(r) ==
  /\ request[r].pc = "plan"
  /\ RequestAt(r, IF \E s \in Schedule : schedule[s] # "none" THEN "look" ELSE "insertPlan")
  /\ UNCHANGED <<entry, ledger, announced, schedule, worker, faults, shown>>

InsertPlan(r) ==
  /\ request[r].pc = "insertPlan" /\ RequestAt(r, "look")
  /\ \E s \in Schedule : schedule[s] = "none" /\ schedule' = [schedule EXCEPT ![s] = "later"]
  /\ UNCHANGED <<entry, ledger, announced, worker, faults, shown>>

Look(r) ==
  /\ request[r].pc = "look"
  /\ RequestAt(r, IF ~Published THEN "generate" ELSE IF request[r].rewrite THEN "regenerate" ELSE "done")
  /\ UNCHANGED <<entry, ledger, announced, schedule, worker, faults, shown>>

(* rewriteExisting keeps the new text in the ledger before it reads and    *)
(* replaces the row.                                                       *)
AfterRewrite(pc) ==
  CASE pc = "regenerate" -> "keep" [] pc = "keep" -> "read" [] pc = "read" -> "write" [] OTHER -> "done"

Generate(r) ==
  /\ request[r].pc \in {"generate", "regenerate"}
  /\ \/ /\ RequestAt(r, IF request[r].pc = "generate" THEN "cycle" ELSE AfterRewrite("regenerate"))
        /\ UNCHANGED faults
     \/ RequestAt(r, "failed") /\ Fault
  /\ UNCHANGED <<entry, ledger, announced, schedule, worker, shown>>

CycleRow(r) ==
  /\ request[r].pc = "cycle" /\ RequestAt(r, "publish")
  /\ UNCHANGED <<entry, ledger, announced, schedule, worker, faults, shown>>

PublishOnDemand(r) ==
  /\ request[r].pc = "publish"
  /\ PublishEntry(r)
  /\ RequestAt(r, IF announced' = announced THEN "failed" ELSE "version")
  /\ UNCHANGED <<ledger, schedule, worker, faults>>

KeepVersion(r) ==
  /\ request[r].pc \in {"version", "keep"}
  /\ ledger' = ledger \cup {r}
  /\ RequestAt(r, IF request[r].pc = "version" THEN "done" ELSE AfterRewrite("keep"))
  /\ UNCHANGED <<entry, announced, schedule, worker, faults, shown>>

(* updateDiaryContent *)
ReadRow(r) ==
  /\ request[r].pc = "read"
  /\ request' = [request EXCEPT ![r] = [pc |-> AfterRewrite("read"), rewrite |-> @.rewrite,
                                            seen |-> entry.version]]
  /\ UNCHANGED <<entry, ledger, announced, schedule, worker, faults, shown>>

WriteRow(r) ==
  /\ request[r].pc = "write" /\ RequestAt(r, AfterRewrite("write"))
  /\ entry' = [text |-> r, version |-> request[r].seen + 1]
  /\ shown' = [shown EXCEPT !.later = @ \cup {r}]
  /\ UNCHANGED <<ledger, announced, schedule, worker, faults>>

ApiCrash(r) ==
  /\ request[r].pc \notin {"idle", "done", "failed"} /\ RequestAt(r, "failed") /\ Fault
  /\ UNCHANGED <<entry, ledger, announced, schedule, worker, shown>>

(* POST /v1/diaries/schedules: nextRunAt is NULL, so it is due at once. *)
PostSchedule(s) ==
  /\ schedule[s] = "none" /\ schedule' = [schedule EXCEPT ![s] = "due"]
  /\ UNCHANGED <<entry, ledger, announced, worker, request, faults, shown>>

RequestStep(r) ==
  \/ PostGenerateToday(r) \/ CallWriteTool(r) \/ LookForPlan(r) \/ InsertPlan(r) \/ Look(r)
  \/ Generate(r) \/ CycleRow(r) \/ PublishOnDemand(r) \/ KeepVersion(r) \/ ReadRow(r) \/ WriteRow(r)
  \/ ApiCrash(r)

DiaryNext ==
  \/ WorkerStep \/ WorkerCrash
  \/ \E r \in Request : RequestStep(r)
  \/ \E s \in Schedule : PostSchedule(s)

(* The worker's timer calls the cycle again and again (worker/index.ts).   *)
DiaryFairness == WF_diaryVars(WorkerStep)

DiarySpec == DiaryInit /\ [][DiaryNext]_diaryVars /\ DiaryFairness

-----------------------------------------------------------------------------
(* Properties *)

(* The two paths race for the day (diary-generator.ts:9): however they     *)
(* overlap, crash and are repeated, a day's diary is announced once, and   *)
(* never without being there.                                              *)
AnnouncedOnce == announced = IF Published THEN 1 ELSE 0

(* What a rewrite puts into the row is kept (diary-repository.ts:360-363): *)
(* every text a rewrite ever put there is in the ledger, also one that     *)
(* another rewrite has replaced since, and also after a crash between the  *)
(* two writes.                                                             *)
RewriteIsKept == shown.later \subseteq ledger

(* The text published first is kept by a statement of its own, after the   *)
(* transaction.  It is in the ledger, or about to be, or its author died   *)
(* in between - and then the next rewrite overwrites the only copy.        *)
AboutToKeep(a) == IF a = Worker THEN worker.pc = "version" ELSE request[a].pc = "version"
Died(a) == IF a = Worker THEN faults > 0 ELSE request[a].pc = "failed" /\ faults > 0
FirstIsKept ==
  Published => shown.first \in ledger \/ AboutToKeep(shown.first) \/ Died(shown.first)

(* A due schedule is served (diary-generator.ts:74-86): in spite of failed *)
(* generations, crashes and diaries written meanwhile on demand.           *)
ScheduleIsServed == \A s \in Schedule : schedule[s] = "due" ~> schedule[s] = "later"

(* In every state of a day's diary.                                        *)
DiaryInvariant == DiaryTypeOK /\ AnnouncedOnce /\ RewriteIsKept /\ FirstIsKept
=============================================================================
