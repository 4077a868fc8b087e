----------------------------- MODULE DesktopHost -----------------------------
(***************************************************************************)
(* The control state of the proactive mode on the desktop: the state in    *)
(* memory and on disk of apps/desktop/src/main/proactive-host.ts, with the *)
(* calls and timers of apps/desktop/src/main/index.ts that use it.  The    *)
(* commands of the window come one at a time (its buttons are off while    *)
(* one is under way); status requests, heartbeats and polls come at any    *)
(* moment, and they write the state too.  The process may be killed at any *)
(* time.                                                                   *)
(***************************************************************************)
EXTENDS Naturals, FiniteSets

CONSTANTS HostCall,   \* calls under way at once
          MaxCommands \* bound: commands and mode changes of the user

ASSUME DesktopAssumption == MaxCommands \in Nat

VARIABLES up,       \* the process is there
          control,  \* the state in memory
          saved,    \* the state on disk
          hostCall, \* each call: where it is and what it carries
          user,     \* the mode the window shows, and what the user has been told
          commands  \* counts against MaxCommands

desktopVars == <<up, control, saved, hostCall, user, commands>>

ToolMode == {"ask", "full_access"}
Stop == {"paused", "revoked"}
Enable == {"authorize", "enabled"}
ControlState == [desired : {"none", "enabled"} \cup Stop, full : BOOLEAN, authorized : BOOLEAN, lease : BOOLEAN]
EmptyState == [desired |-> "none", full |-> FALSE, authorized |-> FALSE, lease |-> FALSE]
HostCallType == [at : {"none", "ready", "queued", "status", "mkdir", "rename", "probe"},
                 want : {"status", "again", "poll", "capability"} \cup Enable \cup Stop,
                 mode : ToolMode, own : BOOLEAN, copy : ControlState]
NoCall == [at |-> "none", want |-> "status", mode |-> "ask", own |-> FALSE, copy |-> EmptyState]

\* user.stop: "here", the user was told of a stop by this process; "before", by one
\* that was killed since.
DesktopTypeOK ==
  /\ up \in BOOLEAN
  /\ control \in ControlState
  /\ saved \in ControlState
  /\ hostCall \in [HostCall -> HostCallType]
  /\ user \in [mode : ToolMode, ask : BOOLEAN, stop : {"no", "here", "before"}]
  /\ commands \in 0..MaxCommands

DesktopInit ==
  /\ up = TRUE
  /\ control = EmptyState
  /\ saved = EmptyState
  /\ hostCall = [c \in HostCall |-> NoCall]
  /\ user = [mode |-> "ask", ask |-> FALSE, stop |-> "no"]
  /\ commands = 0

\* shouldCollect: what the clipboard and the wide sources are read under.
Collects == up /\ control.full /\ control.desired = "enabled" /\ control.lease

Commanding(c) == hostCall[c].want \in {"capability"} \cup Enable \cup Stop

Enter(c, want, mode, at) ==
  /\ hostCall[c].at = "none"
  /\ hostCall' = [hostCall EXCEPT ![c] = [NoCall EXCEPT !.at = at, !.want = want, !.mode = mode]]

Goto(c, at) == hostCall' = [hostCall EXCEPT ![c].at = at]
Done(c) == hostCall' = [hostCall EXCEPT ![c] = NoCall]

\* The user flips the switch of the tools: the window keeps the mode and asks for the
\* status in it, which waits for the local API first.
ChangeMode(c, mode) ==
  /\ up /\ commands < MaxCommands
  /\ user.mode # mode
  /\ user' = [user EXCEPT !.mode = mode, !.ask = FALSE]
  /\ commands' = commands + 1
  /\ Enter(c, "status", mode, "ready")
  /\ UNCHANGED <<up, control, saved>>

\* A button of the window.  authorize waits for the local API, the others queue at once.
Command(c, want) ==
  /\ up /\ commands < MaxCommands
  /\ \A d \in HostCall : ~Commanding(d)
  /\ want \in Enable => user.mode = "full_access"
  /\ commands' = commands + 1
  /\ user' = [user EXCEPT !.stop = IF want \in Enable THEN "no" ELSE @]
  /\ Enter(c, want, user.mode, IF want = "authorize" THEN "ready" ELSE "queued")
  /\ UNCHANGED <<up, control, saved>>

\* Every minute and after a sleep, always in full access and only while it collects.
Heartbeat(c) ==
  /\ Collects
  /\ Enter(c, "status", "full_access", "ready")
  /\ UNCHANGED <<up, control, saved, user, commands>>

\* The poll of the wide sources asks the host itself.
Poll(c) ==
  /\ Collects
  /\ Enter(c, "poll", "full_access", "status")
  /\ UNCHANGED <<up, control, saved, user, commands>>

\* refreshProactiveLocalReady is back; authorize gives up without a local API.
LocalReady(c) ==
  /\ hostCall[c].at = "ready"
  /\ IF hostCall[c].want = "authorize" THEN Goto(c, "queued") \/ Done(c) ELSE Goto(c, "status")
  /\ UNCHANGED <<up, control, saved, user, commands>>

\* The body of a command: refused when it enables what was never authorized, else the
\* state changes in memory and is saved.
Mutate(c) ==
  /\ hostCall[c].at = "queued"
  /\ LET want == hostCall[c].want IN
     IF want = "enabled" /\ ~control.authorized
       THEN Done(c) /\ UNCHANGED control
       ELSE /\ control' =
                 [control EXCEPT !.full = @ \/ want = "authorize",
                                 !.authorized = @ \/ want = "authorize",
                                 !.desired = CASE want \in Enable -> "enabled" [] want \in Stop -> want [] OTHER -> @,
                                 !.lease = @ /\ want \notin {"revoked", "capability"}]
            /\ hostCall' = [hostCall EXCEPT ![c] = [@ EXCEPT !.at = "mkdir", !.own = TRUE]]
  /\ UNCHANGED <<up, saved, user, commands>>

\* status: the mode of the caller becomes the mode of the host, and is saved.
Status(c) ==
  /\ hostCall[c].at = "status"
  /\ LET full == hostCall[c].mode = "full_access" IN
     IF control.full = full
       THEN Goto(c, "probe") /\ UNCHANGED control
       ELSE control' = [control EXCEPT !.full = full, !.lease = @ /\ full] /\ Goto(c, "mkdir")
  /\ UNCHANGED <<up, saved, user, commands>>

\* persist, first half: the state of this moment goes to a temporary file of its own.
Copy(c) ==
  /\ hostCall[c].at = "mkdir"
  /\ hostCall' = [hostCall EXCEPT ![c] = [@ EXCEPT !.at = "rename", !.copy = control]]
  /\ UNCHANGED <<up, control, saved, user, commands>>

\* The same with the memory read back from the file that was just written.
RenameAndReload(c) ==
  /\ hostCall[c].at = "rename"
  /\ saved' = hostCall[c].copy
  /\ control' = hostCall[c].copy
  /\ hostCall' = [hostCall EXCEPT ![c] = [@ EXCEPT !.at = IF hostCall[c].own THEN "status" ELSE "probe", !.own = FALSE, !.copy = EmptyState]]
  /\ UNCHANGED <<up, user, commands>>

\* persist, second half: the temporary file takes the place of the state file.  A
\* command goes on with the status it answers with.
Rename(c) ==
  /\ hostCall[c].at = "rename"
  /\ saved' = hostCall[c].copy
  /\ hostCall' = [hostCall EXCEPT ![c] = [@ EXCEPT !.at = IF hostCall[c].own THEN "status" ELSE "probe", !.own = FALSE, !.copy = EmptyState]]
  /\ UNCHANGED <<up, control, user, commands>>

\* The capabilities are probed: maybeRefreshActivation, then the answer.  A command asks
\* for the status of host and server once more before it is told; a status asks the
\* host again when the server fails.
Refresh(c) ==
  /\ hostCall[c].at = "probe"
  /\ \E localReady \in BOOLEAN :
       control' = [control EXCEPT !.lease = /\ control.desired = "enabled" /\ control.full
                                            /\ hostCall[c].mode = "full_access" /\ localReady]
  /\ LET own == hostCall[c] IN
     IF Commanding(c)
       THEN /\ hostCall' = [hostCall EXCEPT ![c] = [NoCall EXCEPT !.at = "ready", !.mode = own.mode]]
            /\ user' = [user EXCEPT !.stop = IF own.want \in Stop THEN "here" ELSE @]
       ELSE \/ /\ own.want = "status"
               /\ hostCall' = [hostCall EXCEPT ![c] = [@ EXCEPT !.want = "again", !.at = "status"]]
               /\ UNCHANGED user
            \/ /\ Done(c)
               /\ user' = [user EXCEPT !.ask = @ \/ (own.mode = "ask" /\ user.mode = "ask")]
  /\ UNCHANGED <<up, saved, commands>>

\* The activation runs out between two heartbeats.
LeaseEnds ==
  /\ up /\ control.lease
  /\ control' = [control EXCEPT !.lease = FALSE]
  /\ UNCHANGED <<up, saved, hostCall, user, commands>>

Killed ==
  /\ up
  /\ up' = FALSE
  /\ control' = EmptyState
  /\ hostCall' = [c \in HostCall |-> NoCall]
  /\ user' = [user EXCEPT !.stop = IF @ = "no" THEN "no" ELSE "before"]
  /\ UNCHANGED <<saved, commands>>

\* ensureInitialized reads the file, the activation in it included.
Restart ==
  /\ ~up
  /\ up' = TRUE
  /\ control' = saved
  /\ UNCHANGED <<saved, hostCall, user, commands>>

DesktopNext ==
  \/ \E c \in HostCall :
       \/ \E mode \in ToolMode : ChangeMode(c, mode)
       \/ \E want \in {"capability"} \cup Enable \cup Stop : Command(c, want)
       \/ Heartbeat(c) \/ Poll(c) \/ LocalReady(c) \/ Mutate(c)
       \/ Status(c) \/ Copy(c) \/ Rename(c) \/ Refresh(c)
  \/ LeaseEnds \/ Killed \/ Restart

DesktopSpec == DesktopInit /\ [][DesktopNext]_desktopVars

-----------------------------------------------------------------------------
\* Once the window has shown the user that the profile is paused or revoked, nothing
\* that is still under way - a heartbeat, a poll, a status in another mode - makes this
\* process observe again until the user enables it (setDesiredState, maybeRefreshActivation).
StopHolds == user.stop = "here" => ~Collects

\* SRS BR-PRO-006: a pause or a revocation wins over the resumption after a restart.
StopSurvivesARestart == user.stop # "no" => ~Collects

\* SRS: after full access is switched off, no earlier automatic authorization is used
\* again; here, once the window was answered in ask mode the host does not observe.
AskHolds == user.ask => ~Collects

\* In every state of the desktop.
DesktopInvariant == DesktopTypeOK /\ StopHolds
=============================================================================
