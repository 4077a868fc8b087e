------------------------------ MODULE MCRecords ------------------------------
(* What is kept about the user, and what may be done with it: captures and *)
(* their memories, the approvals of tool calls, practice, its plans and    *)
(* study materials, the control state of the desktop, what a skill may be  *)
(* replaced by, and the model that hears what the user says.  They share   *)
(* no state here, so a behaviour is one of them, chosen at the start.      *)
EXTENDS Captures, ToolApprovals, Learning, DesktopHost, Skills, PracticeSessions,
        StudyMaterials, VoiceModel, TLC

CONSTANTS early, late, source,       \* Captures: one source, two captures
          asking, trusted,           \* ToolApprovals: one call in each mode
          taskA, taskB, taskC, taskD,\* Learning: tasks of four milestones
          draftA, draftB,            \* Skills: a candidate that can be synced, and one that cannot
          questionA, questionB       \* PracticeSessions: the first has a knowledge item

MCOrder  == <<early, late>>
MCSource == [c \in {early, late} |-> source]
MCYield  == early :> 1 @@ late :> 2
MCMode   == asking :> "ask" @@ trusted :> "full_access"
MCHome   == taskA :> 1 @@ taskB :> 2 @@ taskC :> 2 @@ taskD :> 4
MCQuestions == <<questionA, questionB>>
MCPayload == draftA :> "text" @@ draftB :> "bad"

VARIABLE part

recordsVars == <<part, capturesVars, approvalVars, learningVars, planVars, desktopVars,
                 skillVars, practiceVars, materialVars, voiceModelVars>>

RecordsInit ==
  /\ part \in {"captures", "approvals", "learning", "plan", "desktop", "skills", "practice", "materials", "model"}
  /\ CapturesInit /\ ApprovalsInit /\ LearningInit /\ PlanInit /\ DesktopInit /\ SkillsInit /\ PracticeInit
  /\ MaterialsInit /\ VoiceModelInit
  /\ part # "approvals" => ~tool.privileged /\ ~profile.fit /\ profile.lease = "active"

RecordsNext ==
  \/ /\ part = "captures" /\ CapturesNext
     /\ UNCHANGED <<part, approvalVars, learningVars, planVars, desktopVars, skillVars, practiceVars, materialVars, voiceModelVars>>
  \/ /\ part = "approvals" /\ ApprovalsNext
     /\ UNCHANGED <<part, capturesVars, learningVars, planVars, desktopVars, skillVars, practiceVars, materialVars, voiceModelVars>>
  \/ /\ part = "learning" /\ LearningNext
     /\ UNCHANGED <<part, capturesVars, approvalVars, planVars, desktopVars, skillVars, practiceVars, materialVars, voiceModelVars>>
  \/ /\ part = "plan" /\ PlanNext
     /\ UNCHANGED <<part, capturesVars, approvalVars, learningVars, desktopVars, skillVars, practiceVars, materialVars, voiceModelVars>>
  \/ /\ part = "desktop" /\ DesktopNext
     /\ UNCHANGED <<part, capturesVars, approvalVars, learningVars, planVars, skillVars, practiceVars, materialVars, voiceModelVars>>
  \/ /\ part = "skills" /\ SkillsNext
     /\ UNCHANGED <<part, capturesVars, approvalVars, learningVars, planVars, desktopVars, practiceVars, materialVars, voiceModelVars>>
  \/ /\ part = "practice" /\ PracticeNext
     /\ UNCHANGED <<part, capturesVars, approvalVars, learningVars, planVars, desktopVars, skillVars, materialVars, voiceModelVars>>
  \/ /\ part = "materials" /\ MaterialsNext
     /\ UNCHANGED <<part, capturesVars, approvalVars, learningVars, planVars, desktopVars, skillVars, practiceVars, voiceModelVars>>
  \/ /\ part = "model" /\ VoiceModelNext
     /\ UNCHANGED <<part, capturesVars, approvalVars, learningVars, planVars, desktopVars, skillVars, practiceVars, materialVars>>

\* Whoever studies: what an answer is worth, what is asked next, what the plan says, which
\* material is shown, and which model hears the answers.
\* What a behaviour leaves alone is still as it began.
StudyInvariant ==
  /\ part = "learning"  => LearningInvariant
  /\ part = "plan"      => PlanInvariant
  /\ part = "practice"  => PracticeInvariant
  /\ part = "materials" => MaterialsInvariant
  /\ part = "model"     => VoiceModelInvariant

RecordsSpec == RecordsInit /\ [][RecordsNext]_recordsVars
=============================================================================
