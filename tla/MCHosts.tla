------------------------------- MODULE MCHosts -------------------------------
(* What runs Turns and delegations: the polling loop of an agent host, the *)
(* child process of an external adapter, a Turn executed by an adapter,    *)
(* and subagent delegation.  They share no state here, so a behaviour is   *)
(* one of the four, chosen at the start.                                   *)
EXTENDS AgentHost, AdapterDriver, AdapterTurn, Subagents

CONSTANTS a1, a2, a3
MCOrder == <<a1, a2, a3>>

VARIABLE part

hostsVars == <<part, hostVars, driverVars, adapterVars, subagentVars>>

HostsInit ==
  /\ part \in {"host", "driver", "adapter", "subagents"}
  /\ HostInit /\ DriverInit /\ AdapterInit /\ SubagentsInit

HostsNext ==
  \/ part = "host" /\ HostNext /\ UNCHANGED <<part, driverVars, adapterVars, subagentVars>>
  \/ part = "driver" /\ DriverNext /\ UNCHANGED <<part, hostVars, adapterVars, subagentVars>>
  \/ part = "adapter" /\ AdapterNext /\ UNCHANGED <<part, hostVars, driverVars, subagentVars>>
  \/ part = "subagents" /\ SubagentsNext /\ UNCHANGED <<part, hostVars, driverVars, adapterVars>>

(* The fairness of each part, for the part that runs.                      *)
HostsFairness ==
  /\ WF_hostVars(part = "host" /\ \E t \in Tick : Beat(t))
  /\ \A t \in Tick : WF_hostVars(part = "host" /\ (List(t) \/ Loop(t)))
  /\ \A a \in Attempt : WF_hostVars(part = "host" /\ Execute(a))
  /\ WF_driverVars(part = "driver" /\ ReadLine)
  /\ WF_driverVars(part = "driver" /\ process = "killed" /\ Exit)
  /\ \A r \in Request : /\ WF_driverVars(part = "driver" /\ Pump(r))
                        /\ WF_driverVars(part = "driver" /\ RequestTimeout(r))
  /\ \A e \in Executor : WF_adapterVars(part = "adapter" /\ AdapterStep(e))
  /\ WF_adapterVars(part = "adapter" /\ LeaseExpires /\ UNCHANGED turn)
  /\ WF_adapterVars(part = "adapter" /\ RecoverExpired /\ UNCHANGED turn)

HostsSpec == HostsInit /\ [][HostsNext]_hostsVars /\ HostsFairness

-----------------------------------------------------------------------------
(* An external adapter: its process and the pending requests of the driver,*)
(* and the Turn it is given.                                               *)
ExternalInvariant == DriverInvariant /\ AdapterInvariant

(* Whatever is to be executed is taken up and comes to an end: a claimable *)
(* attempt, a Turn given to an adapter's process, an attempt it runs.      *)
EveryRunEnds == EveryAttemptIsTaken /\ RunEnds /\ AdapterSettles
=============================================================================
