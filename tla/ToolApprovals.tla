--------------------------- MODULE ToolApprovals ----------------------------
(***************************************************************************)
(* What a call of a writing tool goes through before it has its effect:    *)
(* createRuntimeToolProvider and createApprovalGatedToolProvider           *)
(* (apps/api/src/modules/conversation/agent-executor.ts), the rows of      *)
(* tool_approvals they share between Turns, and the action ledger of the   *)
(* proactive profile (ProactiveActionAuthorizer).  All calls are of one    *)
(* tool with one set of arguments, because rows are shared by that key;    *)
(* each comes from a Turn in mode "ask" or "full_access".                  *)
(***************************************************************************)
EXTENDS Naturals, FiniteSets, SequencesExt

CONSTANTS
  Call,
  Mode,        \* the toolApprovalMode of each call's Turn
  MaxRows,     \* bound: rows of tool_approvals
  MaxChanges   \* bound: changes of the profile by its user

ASSUME ApprovalsAssumption ==
  /\ Mode \in [Call -> {"ask", "full_access"}]
  /\ MaxRows \in Nat /\ MaxChanges \in Nat

VARIABLES
  tool,      \* the tool_registrations row: enabled; privileged or write_with_approval
  rows,      \* tool_approvals in id order, each with state and decider
  shown,     \* rows a Turn in mode "ask" showed to its user
  profile,   \* desired state and status of the revision, action grants, lease
  setter,    \* setDesiredState between its read and its write
  action,    \* proactive_actions.state of each call
  meddler,   \* updateAction by the user, between its read and its write
  call,      \* each call: next await, row, pending update, what lets it run
  ran,       \* ghost: the calls whose effect took place
  granted,   \* ghost: a user granted this tool with these arguments
  changes

approvalVars == <<tool, rows, shown, profile, setter, action, meddler, call, ran, granted, changes>>

ActionState == {"pending", "approved", "running", "executed", "denied", "failed", "revoked"}
ActionEnd   == {"executed", "denied", "failed", "revoked"}

(* ALLOWED_TRANSITIONS *)
AllowedFrom(s) ==
  CASE s = "pending"  -> {"approved", "denied", "revoked"}
    [] s = "approved" -> {"running", "revoked", "failed"}
    [] s = "running"  -> {"executed", "failed", "revoked"}
    [] s = "failed"   -> {"revoked"}
    [] OTHER          -> {}

CallType ==
  [pc : {"find", "profile", "lease", "limited", "action", "update", "write", "record", "insert", "decide",
         "run", "asked", "left", "thrown"},
   row : 0..MaxRows, to : ActionState \cup {"none"}, basis : {"none", "user", "proactive", "full_access"}]

Desired == {"enabled", "paused", "revoked"}

ApprovalsTypeOK ==
  /\ tool \in [enabled : BOOLEAN, privileged : BOOLEAN]
  /\ rows \in Seq([state : {"pending", "granted", "denied"}, by : {"none", "user", "proactive", "full_access"}])
  /\ Len(rows) <= MaxRows
  /\ shown \subseteq DOMAIN rows
  /\ profile \in [desired : Desired, status : {"active", "revoked"}, grants : BOOLEAN,
                  lease : {"active", "overdue", "expired", "ended"}, fit : BOOLEAN]
  /\ setter \in [to : Desired \cup {"none"}, status : {"active", "revoked"}]
  /\ action \in [Call -> ActionState \cup {"none"}]
  /\ meddler \in [Call -> {"none", "denied", "revoked"}]
  /\ call \in [Call -> CallType]
  /\ ran \subseteq Call /\ granted \in BOOLEAN /\ changes \in 0..MaxChanges

ApprovalsInit ==
  /\ tool \in [enabled : {TRUE}, privileged : BOOLEAN] /\ rows = <<>> /\ shown = {}
  /\ profile \in [desired : {"enabled"}, status : {"active"}, grants : {TRUE},
                  lease : {"active", "ended"}, fit : BOOLEAN]
  /\ setter = [to |-> "none", status |-> "active"]
  /\ action = [c \in Call |-> "none"] /\ meddler = [c \in Call |-> "none"]
  /\ call = [c \in Call |-> [pc |-> "find", row |-> 0, to |-> "none", basis |-> "none"]]
  /\ ran = {} /\ granted = FALSE /\ changes = 0

Step(c, pc) == call' = [call EXCEPT ![c].pc = pc]
Plan(c, to) == call' = [call EXCEPT ![c] = [@ EXCEPT !.pc = "update", !.to = to]]
profileVars == <<profile, setter, changes>>
ghosts      == <<ran, granted>>

-----------------------------------------------------------------------------
(* listTools, then findExplicitToolApproval: a granted row counts unless   *)
(* it was decided by a permission and not by a person.  The faulty form    *)
(* counts every granted row.                                               *)
ExplicitOrNot(r) == rows[r].state = "granted"
Explicit(r) == rows[r].state = "granted" /\ rows[r].by \in {"none", "user"}

Find(c) ==
  /\ call[c].pc = "find"
  /\ IF ~tool.enabled THEN Step(c, "left")
     ELSE IF \E r \in DOMAIN rows : Explicit(r)
     THEN call' = [call EXCEPT ![c] = [@ EXCEPT !.pc = "run", !.basis = "user"]]
     ELSE Step(c, IF Mode[c] = "full_access" THEN "profile" ELSE "record")
  /\ UNCHANGED <<tool, rows, shown, action, meddler, profileVars, ghosts>>

(* Where a call goes that the profile does not authorize: full access is   *)
(* enough for an ordinary tool, a privileged one has to ask.               *)
Fallback(c) == [call EXCEPT ![c] = [@ EXCEPT !.pc = "record", !.basis = IF tool.privileged THEN "none" ELSE "full_access"]]

(* getEffectiveStatus: the revision and its grants, then the newest lease, *)
(* which it expires when its time is over, whatever the former said.       *)
ReadProfile(c) ==
  /\ call[c].pc = "profile"
  /\ Step(c, IF profile.desired = "enabled" /\ profile.status # "revoked" /\ profile.grants
             THEN "lease" ELSE "limited")
  /\ UNCHANGED <<tool, rows, shown, action, meddler, profileVars, ghosts>>

ReadLease(c) ==
  /\ call[c].pc \in {"lease", "limited"}
  /\ profile' = [profile EXCEPT !.lease = IF @ = "overdue" THEN "expired" ELSE @]
  /\ call' = IF call[c].pc = "lease" /\ profile.lease = "active" /\ profile.fit
             THEN [call EXCEPT ![c].pc = "action"] ELSE Fallback(c)
  /\ UNCHANGED <<tool, rows, shown, action, meddler, setter, changes, ghosts>>

(* createAction: looks at the grants again, not at the lease.              *)
CreateAction(c) ==
  /\ call[c].pc = "action"
  /\ IF profile.grants
     THEN action' = [action EXCEPT ![c] = "pending"] /\ Plan(c, "approved")
     ELSE Step(c, "thrown") /\ UNCHANGED action
  /\ UNCHANGED <<tool, rows, shown, meddler, profileVars, ghosts>>

(* updateAction: the transition is checked on a read, the update asks      *)
(* nothing.  A refused approval leaves authorize; a refused start or end   *)
(* goes to the catch block, and a refusal there is swallowed.              *)
ReadAction(c) ==
  /\ call[c].pc = "update"
  /\ call' = IF call[c].to \in AllowedFrom(action[c]) THEN [call EXCEPT ![c].pc = "write"]
             ELSE IF call[c].to = "approved" THEN [call EXCEPT ![c].pc = "thrown"]
             ELSE IF call[c].to = "failed" THEN [call EXCEPT ![c].pc = "left"]
             ELSE [call EXCEPT ![c].to = "failed"]
  /\ UNCHANGED <<tool, rows, shown, action, meddler, profileVars, ghosts>>

AfterWrite(c) ==
  IF call[c].to = "approved" THEN [call EXCEPT ![c] = [@ EXCEPT !.pc = "record", !.basis = "proactive"]]
  ELSE IF call[c].to = "running" THEN [call EXCEPT ![c].pc = "run"]
  ELSE [call EXCEPT ![c].pc = "left"]

WriteAction(c) ==
  /\ call[c].pc = "write"
  /\ action' = [action EXCEPT ![c] = call[c].to]
  /\ call' = AfterWrite(c)
  /\ UNCHANGED <<tool, rows, shown, meddler, profileVars, ghosts>>

(* recordToolApproval: an undecided row of the same key is used again,     *)
(* whichever Turn it came from.                                            *)
Undecided == {r \in DOMAIN rows : rows[r].state = "pending"}

HasRow(c, r) ==
  IF call[c].basis = "none"
  THEN /\ call' = [call EXCEPT ![c] = [@ EXCEPT !.pc = "asked", !.row = r]]
       /\ shown' = shown \cup {r}
  ELSE /\ call' = [call EXCEPT ![c] = [@ EXCEPT !.pc = "decide", !.row = r]]
       /\ UNCHANGED shown

Record(c) ==
  /\ call[c].pc = "record"
  /\ IF Undecided = {} THEN Step(c, "insert") /\ UNCHANGED shown
     ELSE \E r \in Undecided : (\A q \in Undecided : q <= r) /\ HasRow(c, r)
  /\ UNCHANGED <<tool, rows, action, meddler, profileVars, ghosts>>

InsertRow(c) ==
  /\ call[c].pc = "insert" /\ Len(rows) < MaxRows
  /\ rows' = Append(rows, [state |-> "pending", by |-> "none"])
  /\ HasRow(c, Len(rows) + 1)
  /\ UNCHANGED <<tool, action, meddler, profileVars, ghosts>>

(* decideToolApproval by the permission, whatever the row says by now.     *)
DecideByPermission(c) ==
  /\ call[c].pc = "decide"
  /\ rows' = [rows EXCEPT ![call[c].row] = [state |-> "granted", by |-> call[c].basis]]
  /\ IF call[c].basis = "proactive" THEN Plan(c, "running") ELSE Step(c, "run")
  /\ UNCHANGED <<tool, shown, action, meddler, profileVars, ghosts>>

(* callTool looks up the tool once more; the handler succeeds or throws.   *)
AfterRun(c, ok) ==
  IF call[c].basis = "proactive"
  THEN Plan(c, IF ok THEN "executed" ELSE "failed") ELSE Step(c, "left")

RunTool(c) ==
  /\ call[c].pc = "run"
  /\ \E ok \in BOOLEAN :
       /\ ok => tool.enabled
       /\ ran' = IF tool.enabled THEN ran \cup {c} ELSE ran
       /\ AfterRun(c, ok)
  /\ UNCHANGED <<tool, rows, shown, action, meddler, profileVars, granted>>

CallStep(c) ==
  \/ Find(c) \/ ReadProfile(c) \/ ReadLease(c) \/ CreateAction(c) \/ ReadAction(c) \/ WriteAction(c)
  \/ Record(c) \/ InsertRow(c) \/ DecideByPermission(c) \/ RunTool(c)

-----------------------------------------------------------------------------
(* The user, in any number of windows. *)

(* POST tool-approvals, for a row that was shown; an administrator decides *)
(* those of a privileged tool.                                             *)
DecideByUser(r, d) ==
  /\ r \in shown
  /\ rows' = [rows EXCEPT ![r] = [state |-> d, by |-> "user"]]
  /\ granted' = (granted \/ d = "granted")
  /\ UNCHANGED <<tool, shown, action, meddler, call, profileVars, ran>>

(* POST actions/:id/state: a user denies or revokes, the other states are *)
(* the runtime's.                                                          *)
MeddleRead(c, to) ==
  /\ action[c] # "none" /\ meddler[c] = "none"
  /\ to \in AllowedFrom(action[c])
  /\ meddler' = [meddler EXCEPT ![c] = to]
  /\ UNCHANGED <<tool, rows, shown, action, call, profileVars, ghosts>>

MeddleWrite(c) ==
  /\ meddler[c] # "none"
  /\ action' = [action EXCEPT ![c] = meddler[c]]
  /\ meddler' = [meddler EXCEPT ![c] = "none"]
  /\ UNCHANGED <<tool, rows, shown, call, profileVars, ghosts>>

Changes == changes < MaxChanges /\ changes' = changes + 1

(* setDesiredState writes the status it read, unless it revokes. *)
SetRead(to) ==
  /\ setter.to = "none" /\ Changes
  /\ setter' = [to |-> to, status |-> profile.status]
  /\ UNCHANGED <<tool, rows, shown, profile, action, meddler, call, ghosts>>

SetWrite ==
  /\ setter.to # "none"
  /\ profile' = [profile EXCEPT !.desired = setter.to,
                                !.status = IF setter.to = "revoked" THEN "revoked" ELSE setter.status]
  /\ setter' = [setter EXCEPT !.to = "none"]
  /\ UNCHANGED <<tool, rows, shown, action, meddler, call, changes, ghosts>>

(* updateSourceGrant; activation, heartbeat and end of the lease.          *)
ChangeGrant ==
  /\ Changes
  /\ profile' = [profile EXCEPT !.grants = ~@]
  /\ UNCHANGED <<tool, rows, shown, setter, action, meddler, call, ghosts>>

ChangeLease ==
  /\ Changes
  /\ \/ \E f \in BOOLEAN : profile' = [profile EXCEPT !.lease = "active", !.fit = f]
     \/ profile.lease = "active" /\ profile' = [profile EXCEPT !.lease = "ended"]
  /\ UNCHANGED <<tool, rows, shown, setter, action, meddler, call, ghosts>>

LeaseTimePasses ==
  /\ profile.lease = "active"
  /\ profile' = [profile EXCEPT !.lease = "overdue"]
  /\ UNCHANGED <<tool, rows, shown, setter, changes, action, meddler, call, ghosts>>

SetEnabled ==
  /\ Changes
  /\ tool' = [tool EXCEPT !.enabled = ~@]
  /\ UNCHANGED <<rows, shown, profile, setter, action, meddler, call, ghosts>>

UserStep ==
  \/ \E r \in 1..MaxRows, d \in {"granted", "denied"} : DecideByUser(r, d)
  \/ \E c \in Call : MeddleWrite(c) \/ \E to \in {"denied", "revoked"} : MeddleRead(c, to)
  \/ SetWrite \/ \E to \in Desired : SetRead(to)
  \/ ChangeGrant \/ ChangeLease \/ LeaseTimePasses \/ SetEnabled

ApprovalsNext == UserStep \/ \E c \in Call : CallStep(c)

ApprovalsSpec == ApprovalsInit /\ [][ApprovalsNext]_approvalVars

-----------------------------------------------------------------------------
(* Properties *)

(* No permission leaks (agent-executor.ts:53, 62): although Turns share    *)
(* and overwrite the rows, a call of a Turn in mode "ask" has its effect   *)
(* only if a person granted it, and a privileged one without such a grant  *)
(* only if the profile authorized an action for it.                        *)
EffectIsAuthorized ==
  \A c \in ran :
    granted \/ (Mode[c] = "full_access" /\ (tool.privileged => action[c] # "none"))

(* The ledger tells the end (agent-executor.ts:103): whatever the user     *)
(* does to the action meanwhile and however the tool ends, the action of a *)
(* call that came back is not left open.                                   *)
LedgerIsClosed ==
  \A c \in Call : call[c].pc = "left" /\ action[c] # "none" => action[c] \in ActionEnd

(* "running and executed are reached from approved only"                   *)
(* (proactive-profile-repository.ts:1713).                                 *)
ActionMovesForward ==
  [][\A c \in Call : action'[c] = "running" => action[c] \in {"approved", "running"}]_approvalVars

(* In every state: effects are authorized, and the ledger is closed.       *)
ApprovalsInvariant == ApprovalsTypeOK /\ EffectIsAuthorized /\ LedgerIsClosed
=============================================================================
