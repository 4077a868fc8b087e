----------------------------- MODULE AgentHost ------------------------------
(***************************************************************************)
(* createAgentHost (packages/host-agent/src/agent-host.ts): a host that    *)
(* polls for executable attempts and runs several at once.  Its fields are *)
(* shared by ticks that may overlap -- the interval does not wait for the  *)
(* listing of the previous tick -- and by start() and stop().              *)
(***************************************************************************)
EXTENDS Naturals, Sequences, FiniteSets, Functions

CONSTANTS
  Attempt,         \* attempts the source may list
  Order,           \* them, in the order of the source
  Tick,            \* activations of tick that can be in flight at once
  maxConcurrency,
  MaxTimers        \* bound: intervals started

ASSUME HostAssumption ==
  /\ Order \in Seq(Attempt) /\ Range(Order) = Attempt
  /\ \A i, j \in DOMAIN Order : Order[i] = Order[j] => i = j
  /\ maxConcurrency \in Nat \ {0}
  /\ MaxTimers \in Nat
  /\ "none" \notin Tick

VARIABLES
  runningCount,  \* the field
  stopped, draining, started,
  intervals,     \* intervals that beat, with and without a reference in "timer"
  timer,         \* whether the field "timer" refers to one of them
  tick,          \* each tick: next await, slots it computed, candidates it got
  starter,       \* start(): its tick, or none
  stopper,       \* stop() is waiting for the drain
  row,           \* each attempt's row: claimable, claimed, settled
  job            \* each attempt: executeOne calls before and after the claim

hostVars == <<runningCount, stopped, draining, started, intervals, timer, tick, starter,
              stopper, row, job>>

HostTypeOK ==
  /\ runningCount \in Nat
  /\ stopped \in BOOLEAN /\ draining \in BOOLEAN /\ started \in BOOLEAN
  /\ intervals \in 0..MaxTimers /\ timer \in BOOLEAN
  /\ tick \in [Tick -> [pc : {"idle", "list", "loop"}, slots : 0..maxConcurrency, list : SUBSET Attempt]]
  /\ starter \in Tick \cup {"none"} /\ stopper \in BOOLEAN
  /\ row \in [Attempt -> {"claimable", "claimed", "settled"}]
  /\ job \in [Attempt -> [new : Nat, claimed : 0..1]]

HostInit ==
  /\ runningCount = 0
  /\ stopped = FALSE /\ draining = FALSE /\ started = FALSE
  /\ intervals = 0 /\ timer = FALSE
  /\ tick = [t \in Tick |-> [pc |-> "idle", slots |-> 0, list |-> {}]]
  /\ starter = "none" /\ stopper = FALSE
  /\ row = [a \in Attempt |-> "claimable"]
  /\ job = [a \in Attempt |-> [new |-> 0, claimed |-> 0]]

(* tick, up to its await: nothing when stopped or full, else as many       *)
(* candidates as slots are free now.                                       *)
TickBegins(t, isStopped) ==
  /\ tick[t].pc = "idle"
  /\ tick' = IF isStopped \/ runningCount >= maxConcurrency THEN tick
             ELSE [tick EXCEPT ![t] = [pc |-> "list", slots |-> maxConcurrency - runningCount,
                                       list |-> {}]]

Idle(t) == tick'[t].pc = "idle"

Precedes(a, b) == \E i, j \in DOMAIN Order : i < j /\ Order[i] = a /\ Order[j] = b

(* The first n of some attempts, in the order of the source. *)
FirstOf(n, S) == {a \in S : Cardinality({b \in S : Precedes(b, a)}) < n}

(* listClaimable(slots): the first rows of the source. *)
List(t) ==
  /\ tick[t].pc = "list"
  /\ tick' = [tick EXCEPT ![t].pc = "loop",
                          ![t].list = FirstOf(tick[t].slots, {a \in Attempt : row[a] = "claimable"})]
  /\ UNCHANGED <<runningCount, stopped, draining, started, intervals, timer, starter, stopper,
                 row, job>>

(* The candidates the loop of a tick starts: none once stopped, and only   *)
(* as long as a slot is free; the faulty form trusts what the tick counted *)
(* before its await.                                                       *)
StartsAsCounted(t) == IF stopped THEN {} ELSE tick[t].list
Starts(t) == IF stopped THEN {} ELSE FirstOf(maxConcurrency - runningCount, tick[t].list)

(* The rest of the tick has no await: the loop over the candidates, and,   *)
(* in the tick start() waits for, the interval.                            *)
Loop(t) ==
  /\ tick[t].pc = "loop"
  /\ runningCount' = runningCount + Cardinality(Starts(t))
  /\ job' = [a \in Attempt |-> IF a \in Starts(t) THEN [job[a] EXCEPT !.new = @ + 1] ELSE job[a]]
  /\ tick' = [tick EXCEPT ![t] = [pc |-> "idle", slots |-> 0, list |-> {}]]
  /\ IF starter = t
     THEN starter' = "none" /\ intervals' = intervals + 1 /\ timer' = TRUE
     ELSE UNCHANGED <<starter, intervals, timer>>
  /\ UNCHANGED <<stopped, draining, started, stopper, row>>

Beat(t) ==
  /\ intervals > 0 /\ starter # t
  /\ TickBegins(t, stopped)
  /\ UNCHANGED <<runningCount, stopped, draining, started, intervals, timer, starter, stopper, row, job>>

(* start(), up to its await; when its tick has nothing to await the        *)
(* interval is set at once.  One start() at a time.                              *)
Start(t) ==
  /\ starter = "none" /\ intervals < MaxTimers
  /\ stopped' = FALSE /\ draining' = FALSE /\ started' = TRUE
  /\ TickBegins(t, FALSE)
  /\ IF Idle(t)
     THEN intervals' = intervals + 1 /\ timer' = TRUE /\ UNCHANGED starter
     ELSE starter' = t /\ UNCHANGED <<intervals, timer>>
  /\ UNCHANGED <<runningCount, stopper, row, job>>

(* stop(): only the interval "timer" refers to is cleared. *)
Stop ==
  /\ started /\ ~stopper
  /\ draining' = TRUE /\ stopped' = TRUE
  /\ intervals' = IF timer THEN intervals - 1 ELSE intervals
  /\ timer' = FALSE
  /\ stopper' = TRUE
  /\ UNCHANGED <<runningCount, started, tick, starter, row, job>>

(* The loop that looks every 20 ms whether anything is running. *)
Drained ==
  /\ stopper /\ runningCount = 0
  /\ stopper' = FALSE /\ draining' = FALSE
  /\ UNCHANGED <<runningCount, stopped, started, intervals, timer, tick, starter, row, job>>

(* executeOne: the claim decides; a second activation is skipped.  Either  *)
(* way the finally block returns the slot.                                 *)
ClaimWins(a) ==
  /\ job[a].new > 0 /\ row[a] = "claimable"
  /\ row' = [row EXCEPT ![a] = "claimed"]
  /\ job' = [job EXCEPT ![a].new = @ - 1, ![a].claimed = @ + 1]
  /\ UNCHANGED <<runningCount, stopped, draining, started, intervals, timer, tick, starter, stopper>>

ClaimLoses(a) ==
  /\ job[a].new > 0 /\ row[a] # "claimable"
  /\ job' = [job EXCEPT ![a].new = @ - 1]
  /\ runningCount' = runningCount - 1
  /\ UNCHANGED <<stopped, draining, started, intervals, timer, tick, starter, stopper, row>>

Finish(a) ==
  /\ job[a].claimed > 0
  /\ job' = [job EXCEPT ![a].claimed = @ - 1]
  /\ row' = [row EXCEPT ![a] = "settled"]
  /\ runningCount' = runningCount - 1
  /\ UNCHANGED <<stopped, draining, started, intervals, timer, tick, starter, stopper>>

Execute(a) == ClaimWins(a) \/ ClaimLoses(a) \/ Finish(a)

HostNext ==
  \/ \E t \in Tick : List(t) \/ Loop(t) \/ Beat(t) \/ Start(t)
  \/ Stop \/ Drained
  \/ \E a \in Attempt : Execute(a)

(* computeStatus, leaving out the watermark of the last tick. *)
HostStatus ==
  IF stopped THEN (IF draining THEN "draining" ELSE "stopped")
  ELSE IF started THEN "healthy" ELSE "starting"

(* Queries return, intervals beat, Turns end; nobody owes a start or stop. *)
HostFairness ==
  /\ WF_hostVars(\E t \in Tick : Beat(t))
  /\ \A t \in Tick : WF_hostVars(List(t) \/ Loop(t))
  /\ \A a \in Attempt : WF_hostVars(Execute(a))

HostSpec == HostInit /\ [][HostNext]_hostVars /\ HostFairness

-----------------------------------------------------------------------------
(* Properties *)

Jobs(a) == job[a].new + job[a].claimed

(* Backpressure (agent-host.ts:191-198): however many ticks overlap and    *)
(* whatever they list, no more Turns are in flight than the host may run.  *)
InFlight == {s \in Attempt \X (1..maxConcurrency + 1) : s[2] <= Jobs(s[1])}

SlotsRespected == Cardinality(InFlight) <= maxConcurrency

(* Graceful stop (agent-host.ts:225-237): a host that reports "stopped"    *)
(* runs nothing, even if a tick was waiting for its listing when stop()    *)
(* was called, and even if start() and stop() overlap.                     *)
StoppedIsQuiet == HostStatus = "stopped" => \A a \in Attempt : Jobs(a) = 0

(* No starvation: while the host is up every claimable attempt is taken,   *)
(* whatever the ticks list twice.                                          *)
EveryAttemptIsTaken ==
  \A a \in Attempt : row[a] = "claimable" /\ HostStatus = "healthy" ~> row[a] # "claimable" \/ stopped

(* The limits of a host, in every state: its slots and its rest.           *)
HostInvariant == HostTypeOK /\ SlotsRespected /\ StoppedIsQuiet
=============================================================================
