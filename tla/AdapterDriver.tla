--------------------------- MODULE AdapterDriver ----------------------------
(***************************************************************************)
(* createStdioAdapterDriver (packages/host-agent/src/stdio-adapter.ts):    *)
(* one child process serves the Turns of a host over two pipes, one JSON   *)
(* line per message, dispatched by request id.  Each Turn is an async      *)
(* generator with a queue, consumed by drainAdapterDriver.                 *)
(***************************************************************************)
EXTENDS Naturals, Sequences, SequencesExt

CONSTANTS
  Request,    \* requestIds: activations of run()
  MaxSaid,  \* bound: event and batch lines per request
  MaxLines    \* bound: lines in the pipe

ASSUME DriverAssumption == MaxSaid \in Nat /\ MaxLines \in Nat

VARIABLES
  process,      \* spawned, killed (a signal was sent), exited
  admitted,   \* the manifest was accepted
  closed,     \* no further run
  pipe,       \* lines the process wrote that readline has not delivered
  said,       \* event lines the process wrote for each request so far
  owed,       \* and how many of them before its first done line
  streams,    \* the map requestId -> callbacks
  gen         \* each generator

driverVars == <<process, admitted, closed, pipe, said, owed, streams, gen>>

Garbage == [kind |-> "garbage"]
Line(k, r) == [kind |-> k, id |-> r]

GenType == [pc : {"new", "open", "done", "thrown"}, queue : 0..MaxSaid, got : 0..MaxSaid,
            doneArrived : BOOLEAN, errorArrived : BOOLEAN, timer : {"off", "set", "fired"}]

DriverTypeOK ==
  /\ process \in {"spawned", "killed", "exited"}
  /\ admitted \in {"handshake", "yes", "no"} /\ closed \in BOOLEAN
  /\ \A i \in DOMAIN pipe : pipe[i] = Garbage \/ pipe[i].id \in Request
  /\ said \in [Request -> 0..MaxSaid] /\ owed \in [Request -> 0..MaxSaid]
  /\ streams \subseteq Request
  /\ gen \in [Request -> GenType]

DriverInit ==
  /\ process = "spawned" /\ admitted = "handshake" /\ closed = FALSE
  /\ pipe = <<>> /\ said = [r \in Request |-> 0] /\ owed = said /\ streams = {}
  /\ gen = [r \in Request |-> [pc |-> "new", queue |-> 0, got |-> 0, doneArrived |-> FALSE,
                               errorArrived |-> FALSE, timer |-> "off"]]

(* onError of a set of requests: the flag; the queue is kept. *)
Fail(rs) == gen' = [r \in Request |-> IF r \in rs THEN [gen[r] EXCEPT !.errorArrived = TRUE] ELSE gen[r]]

FailUnavailable ==
  /\ closed' = TRUE
  /\ Fail(streams)
  /\ streams' = {}

(* handshake: the first line is a hello that passes verifyAdapterManifest, *)
(* or the promise is rejected and there is no driver; the child is left    *)
(* running then.                                                           *)
Handshake ==
  /\ admitted = "handshake"
  /\ admitted' = IF process = "exited" THEN "no" ELSE "yes"
  /\ UNCHANGED <<process, closed, pipe, said, owed, streams, gen>>

HandshakeFails ==
  /\ admitted = "handshake"
  /\ admitted' = "no"
  /\ UNCHANGED <<process, closed, pipe, said, owed, streams, gen>>

(* Faulty variant: a request without a timer.                              *)
RunUntimed(r) ==
  /\ admitted = "yes" /\ gen[r].pc = "new" /\ ~closed
  /\ gen' = [gen EXCEPT ![r].pc = "open"] /\ streams' = streams \cup {r}
  /\ UNCHANGED <<process, admitted, closed, pipe, said, owed>>

(* run: the request is registered and written, and its timer set, without  *)
(* an await in between.                                                    *)
Run(r) ==
  /\ admitted = "yes" /\ gen[r].pc = "new"
  /\ IF closed
     THEN gen' = [gen EXCEPT ![r].pc = "thrown"] /\ UNCHANGED streams
     ELSE /\ gen' = [gen EXCEPT ![r].pc = "open", ![r].timer = "set"]
          /\ streams' = streams \cup {r}
  /\ UNCHANGED <<process, admitted, closed, pipe, said, owed>>

(* The child answers a request that was written to it, in any way.         *)
Asked(r) == gen[r].pc = "done" \/ gen[r].timer # "off"

Says(r, k) ==
  /\ process # "exited" /\ Len(pipe) < MaxLines
  /\ Asked(r)
  /\ k = "event" => said[r] < MaxSaid
  /\ said' = IF k = "event" THEN [said EXCEPT ![r] = @ + 1] ELSE said
  /\ owed' = IF k = "done" /\ Line("done", r) \notin Range(pipe) /\ ~gen[r].doneArrived
             THEN [owed EXCEPT ![r] = said[r]] ELSE owed
  /\ pipe' = Append(pipe, Line(k, r))
  /\ UNCHANGED <<process, admitted, closed, streams, gen>>

SaysGarbage ==
  /\ process # "exited" /\ Len(pipe) < MaxLines /\ admitted = "yes"
  /\ pipe' = Append(pipe, Garbage)
  /\ UNCHANGED <<process, admitted, closed, said, owed, streams, gen>>

(* onEvent, dropped after done or error. *)
OnEvent(r) ==
  IF gen[r].doneArrived \/ gen[r].errorArrived THEN UNCHANGED gen
  ELSE gen' = [gen EXCEPT ![r].queue = @ + 1]

(* onLine: an undecodable line fails every Turn in flight and closes the   *)
(* driver; error and done end the stream of their request.                 *)
ReadLine ==
  /\ pipe # <<>>
  /\ pipe' = Tail(pipe)
  /\ LET m == Head(pipe) IN
     CASE m = Garbage -> FailUnavailable
       [] m # Garbage /\ m.id \notin streams -> UNCHANGED <<closed, streams, gen>>
       [] m # Garbage /\ m.id \in streams /\ m.kind = "event" ->
            OnEvent(m.id) /\ UNCHANGED <<closed, streams>>
       [] m # Garbage /\ m.id \in streams /\ m.kind # "event" ->
            /\ gen' = IF m.kind = "done" THEN [gen EXCEPT ![m.id].doneArrived = TRUE]
                      ELSE [gen EXCEPT ![m.id].errorArrived = TRUE]
            /\ streams' = streams \ {m.id} /\ UNCHANGED closed
  /\ UNCHANGED <<process, admitted, said, owed>>

(* Faulty variant: done is looked at before the queue.                     *)
PumpDoneFirst(r) ==
  /\ gen[r].pc = "open"
  /\ \/ /\ gen[r].doneArrived
        /\ gen' = [gen EXCEPT ![r].pc = "done", ![r].timer = "off"] /\ streams' = streams \ {r}
     \/ /\ ~gen[r].doneArrived /\ gen[r].queue > 0
        /\ gen' = [gen EXCEPT ![r].queue = @ - 1, ![r].got = @ + 1] /\ UNCHANGED streams
  /\ UNCHANGED <<process, admitted, closed, pipe, said, owed>>

(* pump and the loop of the generator: queued events first, then an error, *)
(* then done.  Only the normal end clears the timer; after an error it     *)
(* still runs.                                                             *)
Pump(r) ==
  /\ gen[r].pc = "open"
  /\ \/ /\ gen[r].queue > 0
        /\ gen' = [gen EXCEPT ![r].queue = @ - 1, ![r].got = @ + 1]
        /\ UNCHANGED streams
     \/ /\ gen[r].queue = 0 /\ gen[r].errorArrived
        /\ gen' = [gen EXCEPT ![r].pc = "thrown"]
        /\ streams' = streams \ {r}
     \/ /\ gen[r].queue = 0 /\ ~gen[r].errorArrived /\ gen[r].doneArrived
        /\ gen' = [gen EXCEPT ![r].pc = "done", ![r].timer = "off"]
        /\ streams' = streams \ {r}
  /\ UNCHANGED <<process, admitted, closed, pipe, said, owed>>

(* The request timer: fails its own request if that is still registered,   *)
(* kills the child and closes the driver in any case.                      *)
Kill == process' = IF process = "spawned" THEN "killed" ELSE process

RequestTimeout(r) ==
  /\ gen[r].timer = "set"
  /\ gen' = [gen EXCEPT ![r].timer = "fired", ![r].errorArrived = @ \/ r \in streams]
  /\ Kill /\ closed' = TRUE
  /\ UNCHANGED <<admitted, pipe, said, owed, streams>>

(* close(), the kill switch *)
Close ==
  /\ admitted = "yes" /\ ~closed
  /\ Kill /\ closed' = TRUE
  /\ UNCHANGED <<admitted, pipe, said, owed, streams, gen>>

(* The exit event, of a killed child or of one that died; it may overtake  *)
(* lines still in the pipe.                                                *)
Exit ==
  /\ process # "exited"
  /\ process' = "exited"
  /\ FailUnavailable
  /\ UNCHANGED <<admitted, pipe, said, owed>>

DriverStep ==
  \/ ReadLine \/ \E r \in Request : Pump(r)

DriverNext ==
  \/ Handshake \/ HandshakeFails \/ DriverStep \/ SaysGarbage \/ Close \/ Exit
  \/ \E r \in Request : Run(r) \/ RequestTimeout(r) \/ \E k \in {"event", "done", "error"} : Says(r, k)

DriverSpec == DriverInit /\ [][DriverNext]_driverVars

(* The pipe is read, a signalled child exits, and timers fire; the child   *)
(* owes nothing.                                                           *)
DriverFairness ==
  /\ WF_driverVars(ReadLine)
  /\ WF_driverVars(process = "killed" /\ Exit)
  /\ \A r \in Request : WF_driverVars(Pump(r)) /\ WF_driverVars(RequestTimeout(r))

-----------------------------------------------------------------------------
(* Properties *)

(* Nothing swallowed (stdio-adapter.ts:176-199, "done ... 已入队事件全部消费 *)
(* 后才返回"): a Turn that returned normally got every event the child sent *)
(* for it before its done line, and nothing after it.                      *)
DoneGotEverything ==
  \A r \in Request : gen[r].pc = "done" => gen[r].got = owed[r]

(* A Turn given to an adapter ends, whatever the child does: silence,      *)
(* garbage, an exit, lines for others, a close in between.  (Each runs     *)
(* once, so all have ended when again and again none is in flight.)        *)
RunEnds == []<>(\A r \in Request : gen[r].pc # "open")

(* In every state of the driver.                                           *)
DriverInvariant == DriverTypeOK /\ DoneGotEverything
=============================================================================
