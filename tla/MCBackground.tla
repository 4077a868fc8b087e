---------------------------- MODULE MCBackground ----------------------------
(* The cycles of the worker process: the outbox and its consumers, the     *)
(* diary, the proactive intelligence and the deletion requests, each with  *)
(* the API calls that meet it.  They share no state here, so a behaviour   *)
(* is one of the four, chosen at the start.                                *)
EXTENDS Outbox, Diary, Intelligence, Deletion

CONSTANTS turn1, turn2, compact

\* Two ordinary events fill a window of two; a compaction request comes before,
\* between or after them.
MCMessage    == {turn1, turn2, compact}
MCCompaction == {compact}

CONSTANTS first, second
MCClaims == [c \in Claim |-> IF c = first THEN 2 ELSE 1]

VARIABLE part

backgroundVars == <<part, outboxVars, diaryVars, intelligenceVars, deletionVars>>

BackgroundInit ==
  /\ part \in {"outbox", "diary", "intelligence", "deletion"}
  /\ OutboxInit /\ DiaryInit /\ IntelligenceInit /\ DeletionInit
  /\ part # "diary" => \A s \in Schedule : schedule[s] = "none"
  /\ part # "intelligence" => claims = MCClaims

BackgroundNext ==
  \/ part = "outbox" /\ OutboxNext /\ UNCHANGED <<part, diaryVars, intelligenceVars, deletionVars>>
  \/ part = "diary" /\ DiaryNext /\ UNCHANGED <<part, outboxVars, intelligenceVars, deletionVars>>
  \/ part = "intelligence" /\ IntelligenceNext /\ UNCHANGED <<part, outboxVars, diaryVars, deletionVars>>
  \/ part = "deletion" /\ DeletionNext /\ UNCHANGED <<part, outboxVars, diaryVars, intelligenceVars>>

(* The fairness of each part, for the part that runs.                      *)
BackgroundFairness ==
  /\ \A t \in Task : WF_outboxVars(part = "outbox" /\ Cycle(t))
  /\ WF_diaryVars(part = "diary" /\ WorkerStep)
  /\ WF_intelligenceVars(part = "intelligence" /\ CycleStep)
  /\ \A w \in Eraser : WF_deletionVars(part = "deletion" /\ EraserStep(w))

BackgroundSpec == BackgroundInit /\ [][BackgroundNext]_backgroundVars /\ BackgroundFairness

-----------------------------------------------------------------------------
(* Every job of the worker that waits is done or given up: outbox events   *)
(* (dispatcher and marker), due diary schedules, the daily review, and     *)
(* deletion requests - although statements throw and the process dies.     *)
EveryJobIsServed ==
  /\ NothingWaitsForEver
  /\ ScheduleIsServed
  /\ part = "intelligence" => ReviewComes
  /\ DeletionEnds
=============================================================================
