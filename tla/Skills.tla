-------------------------------- MODULE Skills --------------------------------
(***************************************************************************)
(* One skill: its candidates, their evaluation and promotion to releases,  *)
(* the release that is active in each stage, and the copy that is synced   *)
(* to the local SKILL.md and registered (apps/api/src/modules/skills/      *)
(* lifecycle.ts, skill-manager.ts and the two skill repositories).  Every  *)
(* await of a call is a step of its own: there is no transaction, the      *)
(* unique indexes of skill_releases excepted.                              *)
(***************************************************************************)
EXTENDS Naturals, FiniteSets

CONSTANTS
  Draft,        \* the candidates of the skill
  PayloadOf,    \* each candidate's payload: none, text, or one without skill_markdown
  SkillCall,    \* calls of the API under way at once
  MaxVersion,   \* bound: releases of a stage
  MaxSkillCalls \* bound: calls

ASSUME SkillsAssumption ==
  /\ PayloadOf \in [Draft -> {"none", "text", "bad"}]
  /\ Draft \cap {"upload", "none"} = {}
  /\ MaxVersion \in Nat \ {0} /\ MaxSkillCalls \in Nat

VARIABLES
  verdict,    \* skill_candidates.status
  release,    \* skill_releases: for each stage and version, nothing or a row
  disk,       \* what is in the local SKILL.md: a candidate's text, an upload, nothing
  listed,     \* skill_registrations: the row of the skill, and the text it was made from
  skillCall,  \* the calls under way
  story       \* counts calls; whether two met, one was refused or died, one rolled back, and
              \* whether the text on disk is one a deletion failed to remove

skillVars == <<verdict, release, disk, listed, skillCall, story>>

Stage == {"canary", "stable"}
Version == 1..MaxVersion
Upload == "upload"
NoText == "none"
Text == Draft \cup {Upload, NoText}
NoRelease == [draft |-> NoText, active |-> FALSE, synced |-> FALSE]
AtRest == [op |-> "idle", pc |-> "end", draft |-> NoText, stage |-> "canary", version |-> 0, flag |-> FALSE]
SkillPc == {"end", "read", "write", "list", "look", "deactivate", "insert", "payload", "file", "find",
            "register", "mark", "promoted", "restore", "remove", "unregister", "delete"}

SkillCallType ==
  [op : {"idle", "evaluate", "promote", "rollback", "sync", "delete", "install"}, pc : SkillPc,
   draft : Text, stage : Stage, version : 0..MaxVersion + 1, flag : BOOLEAN]

SkillsTypeOK ==
  /\ verdict \in [Draft -> {"pending", "evaluated", "rejected", "promoted"}]
  /\ release \in [Stage \X Version -> [draft : Draft \cup {NoText}, active : BOOLEAN, synced : BOOLEAN]]
  /\ disk \in Text
  /\ listed \in [text : Text, active : BOOLEAN]
  /\ skillCall \in [SkillCall -> SkillCallType]
  /\ story \in [calls : 0..MaxSkillCalls, met : BOOLEAN, lost : BOOLEAN, back : BOOLEAN, undeleted : BOOLEAN]

SkillsInit ==
  /\ verdict = [d \in Draft |-> "pending"]
  /\ release = [r \in Stage \X Version |-> NoRelease]
  /\ disk = NoText
  /\ listed = [text |-> NoText, active |-> FALSE]
  /\ skillCall = [k \in SkillCall |-> AtRest]
  /\ story = [calls |-> 0, met |-> FALSE, lost |-> FALSE, back |-> FALSE, undeleted |-> FALSE]

-----------------------------------------------------------------------------
Versions(s) == {v \in Version : release[<<s, v>>].draft # NoText}
Newest(V) == IF V = {} THEN 0 ELSE CHOOSE v \in V : \A w \in V : w <= v
Has(s, v) == v \in Version /\ release[<<s, v>>].draft # NoText

Go(k, pc) == skillCall' = [skillCall EXCEPT ![k].pc = pc]
Return(k) == skillCall' = [skillCall EXCEPT ![k] = AtRest]

\* The call throws: the route answers with an error, what was written stays.
Refuse(k) == Return(k) /\ story' = [story EXCEPT !.lost = TRUE]

Begin(k, op, pc, draft, stage, version, flag) ==
  /\ skillCall[k] = AtRest /\ story.calls < MaxSkillCalls
  /\ skillCall' = [skillCall EXCEPT ![k] = [op |-> op, pc |-> pc, draft |-> draft,
                                           stage |-> stage, version |-> version, flag |-> flag]]
  /\ story' = [story EXCEPT !.calls = @ + 1, !.back = @ \/ op = "rollback",
                            !.met = @ \/ \E j \in SkillCall : skillCall[j] # AtRest]
  /\ UNCHANGED <<verdict, release, disk, listed>>

BeginCall(k) ==
  \/ \E d \in Draft, passed \in BOOLEAN : Begin(k, "evaluate", "read", d, "canary", 0, passed)
  \/ \E d \in Draft, s \in Stage, sync \in BOOLEAN : Begin(k, "promote", "read", d, s, 0, sync)
  \/ \E s \in Stage, v \in Version :
       Has(s, v) /\ Begin(k, "rollback", "read", NoText, s, v, FALSE)
  \/ \E v \in Version : Has("stable", v) /\ Begin(k, "sync", "payload", release[<<"stable", v>>].draft, "stable", v, TRUE)
  \/ Begin(k, "delete", "read", NoText, "canary", 0, FALSE)
  \/ \E overwrite \in BOOLEAN : Begin(k, "install", "read", Upload, "canary", 0, overwrite)

\* PATCH /v1/skills/{name}
SetActive ==
  /\ listed.text # NoText
  /\ listed' = [listed EXCEPT !.active = ~@]
  /\ UNCHANGED <<verdict, release, disk, skillCall, story>>

-----------------------------------------------------------------------------
At1(k, op, pc) == skillCall[k].op = op /\ skillCall[k].pc = pc
Own(k) == skillCall[k]

(* evaluateCandidate reads the status, then writes it unconditionally.     *)
Evaluate(k) ==
  \/ /\ At1(k, "evaluate", "read")
     /\ IF verdict[Own(k).draft] \in {"promoted", "rejected"} THEN Return(k) ELSE Go(k, "write")
     /\ UNCHANGED <<verdict, release, disk, listed, story>>
  \/ /\ At1(k, "evaluate", "write")
     /\ verdict' = [verdict EXCEPT ![Own(k).draft] = IF Own(k).flag THEN "evaluated" ELSE "rejected"]
     /\ Return(k)
     /\ UNCHANGED <<release, disk, listed, story>>

\* promoteCandidate: any candidate that is not rejected.
PromoteReads(k) ==
  /\ At1(k, "promote", "read")
  /\ IF verdict[Own(k).draft] = "rejected" THEN Return(k) ELSE Go(k, "list")
  /\ UNCHANGED <<verdict, release, disk, listed, story>>

\* The next version, from the list of the stage's releases, active or not.
NextVersion(k) ==
  /\ At1(k, "promote", "list")
  /\ Newest(Versions(Own(k).stage)) < MaxVersion
  /\ skillCall' = [skillCall EXCEPT ![k] = [@ EXCEPT !.pc = "look", !.version = Newest(Versions(Own(k).stage)) + 1]]
  /\ UNCHANGED <<verdict, release, disk, listed, story>>

\* What follows the release: a copy to the local skill, or the candidate's status.
AfterRelease(k) == IF Own(k).stage = "stable" /\ Own(k).flag /\ PayloadOf[Own(k).draft] # "none"
                   THEN "payload" ELSE "promoted"

\* createRelease: the version is there already, and is taken for the caller's own.
LookForRelease(k) ==
  /\ At1(k, "promote", "look")
  /\ LET r == release[<<Own(k).stage, Own(k).version>>] IN
     IF r.draft = NoText THEN Go(k, "deactivate")
     ELSE Go(k, AfterRelease(k))
  /\ UNCHANGED <<verdict, release, disk, listed, story>>

\* ... or else the active one is deactivated,
Deactivate(k) ==
  /\ At1(k, "promote", "deactivate")
  /\ release' = [r \in DOMAIN release |-> IF r[1] = Own(k).stage THEN [release[r] EXCEPT !.active = FALSE] ELSE release[r]]
  /\ Go(k, "insert")
  /\ UNCHANGED <<verdict, disk, listed, story>>

\* ... and the new one inserted active, unless an index refuses it.
ActiveIn(s) == {v \in Version : release[<<s, v>>].active}
InsertRelease(k) ==
  /\ At1(k, "promote", "insert")
  /\ LET r == <<Own(k).stage, Own(k).version>> IN
     IF release[r].draft # NoText \/ ActiveIn(Own(k).stage) # {}
     THEN Refuse(k) /\ UNCHANGED release
     ELSE /\ release' = [release EXCEPT ![r] = [draft |-> Own(k).draft, active |-> TRUE, synced |-> FALSE]]
          /\ Go(k, AfterRelease(k))
          /\ UNCHANGED story
  /\ UNCHANGED <<verdict, disk, listed>>

\* The candidate is promoted - unless its release was synced, which returns earlier.
MarkPromoted(k) ==
  /\ At1(k, "promote", "promoted")
  /\ verdict' = [verdict EXCEPT ![Own(k).draft] = "promoted"]
  /\ Return(k)
  /\ UNCHANGED <<release, disk, listed, story>>

-----------------------------------------------------------------------------
(* syncReleaseToLocal: the payload of the release is read, written to the  *)
(* file, registered, and the release marked.                               *)
Synced(k) == release[<<Own(k).stage, Own(k).version>>].draft
ReadPayload(k) ==
  /\ Own(k).pc = "payload"
  /\ IF PayloadOf[Synced(k)] = "text" THEN Go(k, "file") /\ UNCHANGED story ELSE Refuse(k)
  /\ UNCHANGED <<verdict, release, disk, listed>>

Written(k) == IF Own(k).op = "install" THEN Upload ELSE Synced(k)
WriteFile(k) ==
  /\ Own(k).pc = "file"
  /\ disk' = Written(k)
  /\ story' = [story EXCEPT !.undeleted = FALSE]
  /\ Go(k, "find")
  /\ UNCHANGED <<verdict, release, listed>>

\* registerSkill looks for the row; install reads the file back for its checksum first.
FindRow(k) ==
  /\ Own(k).pc = "find"
  /\ IF Own(k).op = "install" /\ disk = NoText THEN Refuse(k)
     ELSE /\ skillCall' = [skillCall EXCEPT ![k] = [@ EXCEPT !.pc = "register", !.flag = (listed.text # NoText),
                               !.draft = IF Own(k).op = "install" THEN disk ELSE Synced(k)]]
          /\ UNCHANGED story
  /\ UNCHANGED <<verdict, release, disk, listed>>

\* ... and inserts it unless it is there, whatever text that row was made from.
RegisterOnce(k) ==
  /\ Own(k).pc = "register"
  /\ LET known == Own(k).flag IN
     IF ~known /\ listed.text # NoText THEN Refuse(k) /\ UNCHANGED listed
     ELSE /\ listed' = IF known THEN listed ELSE [text |-> Own(k).draft, active |-> TRUE]
          /\ IF Own(k).op = "install" THEN Return(k) ELSE Go(k, "mark")
          /\ UNCHANGED story
  /\ UNCHANGED <<verdict, release, disk>>

\* ... and updates or inserts it; an update of a row that is gone by now does nothing.
Register(k) ==
  /\ Own(k).pc = "register"
  /\ LET known == Own(k).flag
         after == IF Own(k).op = "install" THEN "end" ELSE "mark"
     IN IF ~known /\ listed.text # NoText THEN Refuse(k) /\ UNCHANGED listed
        ELSE /\ listed' = IF known /\ listed.text = NoText THEN listed
                          ELSE [text |-> Own(k).draft, active |-> known => listed.active]
             /\ IF after = "end" THEN Return(k) ELSE Go(k, "mark")
             /\ UNCHANGED story
  /\ UNCHANGED <<verdict, release, disk>>

MarkSynced(k) ==
  /\ Own(k).pc = "mark"
  /\ release' = [release EXCEPT ![<<Own(k).stage, Own(k).version>>].synced = TRUE]
  /\ Return(k)
  /\ UNCHANGED <<verdict, disk, listed, story>>

-----------------------------------------------------------------------------
(* rollbackRelease: the release is deactivated and the one below it made   *)
(* active again, which the index refuses when another one is.              *)
Rollback(k) ==
  /\ At1(k, "rollback", "read")
  /\ release' = [release EXCEPT ![<<Own(k).stage, Own(k).version>>].active = FALSE]
  /\ Go(k, "restore")
  /\ UNCHANGED <<verdict, disk, listed, story>>

Restore(k) ==
  /\ At1(k, "rollback", "restore")
  /\ LET s == Own(k).stage
         before == Newest({v \in Versions(s) : v < Own(k).version})
     IN IF before # 0 /\ ActiveIn(s) \ {before} # {} THEN Refuse(k) /\ UNCHANGED release
        ELSE /\ release' = IF before = 0 THEN release ELSE [release EXCEPT ![<<s, before>>].active = TRUE]
             /\ Return(k) /\ UNCHANGED story
  /\ UNCHANGED <<verdict, disk, listed>>

\* deleteSkill: the directory, then the row, which is looked up once more.  That the
\* directory cannot be removed is swallowed, and the row goes all the same; an
\* installation, which removes it before it writes, throws.
RemoveDirectory(k) ==
  /\ Own(k).pc = "remove"
  /\ \/ /\ disk' = NoText /\ story' = [story EXCEPT !.undeleted = FALSE]
        /\ Go(k, IF Own(k).op = "install" THEN "file" ELSE "unregister")
     \/ /\ Own(k).op = "delete" /\ disk # NoText
        /\ story' = [story EXCEPT !.undeleted = TRUE] /\ Go(k, "unregister") /\ UNCHANGED disk
     \/ Own(k).op = "install" /\ Refuse(k) /\ UNCHANGED disk
  /\ UNCHANGED <<verdict, release, listed>>

DeleteReads(k) ==
  /\ At1(k, "delete", "read")
  /\ IF listed.text = NoText THEN Return(k) ELSE Go(k, "remove")
  /\ UNCHANGED <<verdict, release, disk, listed, story>>

Unregister(k) ==
  /\ At1(k, "delete", "unregister") /\ Return(k)
  /\ listed' = [text |-> NoText, active |-> FALSE]
  /\ UNCHANGED <<verdict, release, disk, story>>

\* installSkillFolder: a directory that is there is refused or removed.
InstallReads(k) ==
  /\ At1(k, "install", "read")
  /\ IF disk = NoText THEN Go(k, "file") ELSE IF Own(k).flag THEN Go(k, "remove") ELSE Return(k)
  /\ UNCHANGED <<verdict, release, disk, listed, story>>

-----------------------------------------------------------------------------
\* The API process dies with its calls.
ApiDies ==
  /\ ~story.lost /\ \E k \in SkillCall : skillCall[k] # AtRest
  /\ skillCall' = [k \in SkillCall |-> AtRest]
  /\ story' = [story EXCEPT !.lost = TRUE]
  /\ UNCHANGED <<verdict, release, disk, listed>>

SkillStep(k) ==
  \/ Evaluate(k) \/ PromoteReads(k) \/ NextVersion(k) \/ LookForRelease(k) \/ Deactivate(k)
  \/ InsertRelease(k) \/ MarkPromoted(k) \/ ReadPayload(k) \/ WriteFile(k) \/ FindRow(k) \/ Register(k)
  \/ MarkSynced(k) \/ Rollback(k) \/ Restore(k) \/ RemoveDirectory(k) \/ DeleteReads(k)
  \/ Unregister(k) \/ InstallReads(k)

SkillsNext == (\E k \in SkillCall : BeginCall(k) \/ SkillStep(k)) \/ SetActive \/ ApiDies

SkillsSpec == SkillsInit /\ [][SkillsNext]_skillVars

-----------------------------------------------------------------------------
(* Properties *)

Quiet == \A k \in SkillCall : skillCall[k] = AtRest

\* Version numbers of a stage have no gap, however promotions meet: every number stands for
\* one release, and one that was refused left no hole.
VersionsAreDense == \A s \in Stage : Versions(s) = 1..Cardinality(Versions(s))

\* A stage that has a release has an active one, the newest - except while a promotion is
\* between its two statements, or after a rollback, a refusal or a crash.
StageIsServed ==
  \A s \in Stage : Versions(s) # {} /\ ~story.back /\ ~story.lost =>
    \/ ActiveIn(s) = {Newest(Versions(s))}
    \/ \E k \in SkillCall : skillCall[k].op = "promote" /\ skillCall[k].pc = "insert" /\ skillCall[k].stage = s

\* A release marked as synced was stable and had a text to sync.
SyncedHadText ==
  \A v \in Version, s \in Stage : release[<<s, v>>].synced => s = "stable" /\ PayloadOf[release[<<s, v>>].draft] = "text"

\* As long as calls come one after the other and none throws, what is registered is what the
\* file holds: there is a row exactly when there is a file, unless the file is one a deletion
\* failed to remove and nothing was written since.  (The next installation over it, or the
\* next release synced, makes them agree again.)
RowAndFileAgree == listed.text = disk \/ (listed.text = NoText /\ story.undeleted)
RowMatchesFile == Quiet /\ ~story.met /\ ~story.lost => RowAndFileAgree

(* One skill (lifecycle.ts, skill-manager.ts): see the four parts above.   *)
SkillsInvariant ==
  SkillsTypeOK /\ VersionsAreDense /\ StageIsServed /\ SyncedHadText /\ RowMatchesFile
=============================================================================
