---------------------------- MODULE Integrations ----------------------------
(***************************************************************************)
(* A connection to Home Assistant or to the health service                 *)
(* (apps/api/src/modules/proactive/integration-manager.ts with             *)
(* integration-routes.ts, integration-tools.ts and the two clients, over   *)
(* packages/database/src/repositories/sqlite/                              *)
(* proactive-intelligence-repository.ts): its row with the credential, the *)
(* entity and the samples cached from it, the subscription of the API      *)
(* process, the background synchronisation and the requests that meet it.  *)
(* The services beyond the network are external: they answer, refuse, or   *)
(* stay silent until a timeout.                                            *)
(***************************************************************************)
EXTENDS Naturals, FiniteSets

CONSTANTS
  Task,          \* requests, cycles and events under way at once
  MaxTasks,      \* bound: tasks begun
  MaxSockets     \* bound: sockets opened

ASSUME IntegrationsAssumption == MaxTasks \in Nat /\ MaxSockets \in Nat

VARIABLES
  provider,      \* what the connection is to
  connection,    \* proactive_external_connections: the state of its row
  entity,        \* proactive_home_entities: the row of one entity
  sample,        \* proactive_health_samples: whether one is kept
  socket,        \* the web sockets to Home Assistant
  subscription,  \* the socket the manager has registered, or 0
  syncRunning,   \* its flag
  sourceActive,  \* whether assertSourceActive passes
  task,          \* what is under way, where it is, and what it read
  history        \* tasks begun, whether two met or one was cut off, what the user last said

homeVars == <<provider, connection, entity, sample, socket, subscription, syncRunning, sourceActive, task, history>>

Socket == 1..MaxSockets
TaskKind == {"connect", "sync", "cycle", "subscribe", "patch", "state", "event", "call", "delete"}
TaskPc == {"end", "check", "test", "fetch", "refresh", "cache", "mark", "subscribe", "open", "choose", "fail", "write",
           "row", "entities", "samples"}
Row == {"none", "off", "on"}
NoTask == [kind |-> "none", pc |-> "end", to |-> "none", read |-> "none", over |-> 0]

HomeTypeOK ==
  /\ provider \in {"home_assistant", "xiaomi_health"}
  /\ connection \in {"none", "active", "error"} /\ entity \in Row /\ sample \in BOOLEAN
  /\ socket \in [Socket -> {"unused", "opening", "open", "left", "closed"}]
  /\ subscription \in 0..MaxSockets
  /\ syncRunning \in BOOLEAN /\ sourceActive \in BOOLEAN
  /\ task \in [Task -> [kind : TaskKind \cup {"none"}, pc : TaskPc, to : Row, read : Row, over : 0..MaxSockets]]
  /\ history \in [begun : 0..MaxTasks, met : BOOLEAN, enabled : BOOLEAN,
                  word : Row, gone : BOOLEAN, called : BOOLEAN]

HomeInit ==
  /\ provider \in {"home_assistant", "xiaomi_health"}
  /\ connection = "none" /\ entity = "none" /\ sample = FALSE
  /\ socket = [s \in Socket |-> "unused"] /\ subscription = 0
  /\ syncRunning = FALSE /\ sourceActive = TRUE
  /\ task = [k \in Task |-> NoTask]
  /\ history = [begun |-> 0, met |-> FALSE, enabled |-> FALSE, word |-> "off", gone |-> FALSE, called |-> FALSE]

-----------------------------------------------------------------------------
AtStep(k, kinds, pc) == task[k].kind \in kinds /\ task[k].pc = pc
Goes(k, pc) == task' = [task EXCEPT ![k].pc = pc]
Syncing == {"connect", "sync", "cycle"}
IsHome == provider = "home_assistant"

\* The sockets over which events come: those that were opened, and those whose handshake
\* failed without a close, which may be completed later all the same.
Delivering == {s \in Socket : socket[s] \in {"open", "left"}}

\* A task ends; the cycle clears the flag in its finally.
TaskEnds(k) ==
  /\ task' = [task EXCEPT ![k] = NoTask]
  /\ syncRunning' = IF task[k].kind = "cycle" THEN FALSE ELSE syncRunning

\* A task is begun, in one free slot of those there are; with another one under way the
\* two have met.
BeginTask(k, kind, to, over) ==
  /\ task[k] = NoTask /\ k = (CHOOSE j \in Task : task[j] = NoTask) /\ history.begun < MaxTasks
  /\ task' = [task EXCEPT ![k] = [kind |-> kind, pc |-> "check", to |-> to, read |-> "none", over |-> over]]
  /\ history' = [history EXCEPT !.begun = @ + 1, !.met = @ \/ \E j \in Task : task[j] # NoTask,
                                !.gone = @ /\ kind # "connect"]

AskHome(k) ==
  /\ \/ \E to \in {"off", "on"} : BeginTask(k, "connect", to, 0)
     \/ BeginTask(k, "sync", "none", 0) \/ BeginTask(k, "delete", "none", 0)
     \/ IsHome /\ \/ \E to \in {"off", "on"} : BeginTask(k, "patch", to, 0)
                  \/ BeginTask(k, "state", "none", 0) \/ BeginTask(k, "call", "none", 0)
                  \/ \E s \in Delivering : BeginTask(k, "event", "none", s)
  /\ UNCHANGED <<provider, connection, entity, sample, socket, subscription, syncRunning, sourceActive>>

\* The timer: nothing while a cycle is under way, and only connections in state active.
SyncAll(k) ==
  /\ ~syncRunning /\ connection = "active"
  /\ BeginTask(k, "cycle", "none", 0)
  /\ syncRunning' = TRUE
  /\ UNCHANGED <<provider, connection, entity, sample, socket, subscription, sourceActive>>

\* The user pauses the mode or revokes the source, and resumes.
TurnSource == sourceActive' = ~sourceActive /\ UNCHANGED <<provider, connection, entity, sample, socket, subscription, syncRunning, task, history>>

-----------------------------------------------------------------------------
\* assertSourceActive and requiredConnection of a synchronisation: the error of a health
\* connection is written to its row, that of Home Assistant is only thrown.
SyncChecks(k) ==
  /\ AtStep(k, Syncing, "check")
  /\ \/ /\ task[k].kind = "connect" /\ sourceActive /\ Goes(k, "test") /\ UNCHANGED syncRunning
     \/ /\ task[k].kind # "connect" /\ sourceActive /\ connection # "none" /\ Goes(k, "fetch") /\ UNCHANGED syncRunning
     \/ /\ ~sourceActive \/ (task[k].kind # "connect" /\ connection = "none")
        /\ IF IsHome \/ task[k].kind = "connect" THEN TaskEnds(k) ELSE Goes(k, "fail") /\ UNCHANGED syncRunning
  /\ UNCHANGED <<provider, connection, entity, sample, socket, subscription, sourceActive, history>>

\* POST of a connection: the test passes, and upsertConnection inserts or overwrites it.
ConnectWrites(k) ==
  /\ AtStep(k, {"connect"}, "test")
  /\ \/ connection' = "active" /\ Goes(k, "fetch") /\ UNCHANGED syncRunning
     \/ TaskEnds(k) /\ UNCHANGED connection
  /\ UNCHANGED <<provider, entity, sample, socket, subscription, sourceActive, history>>

\* listStates and then listHomeEntities, or fetchDaily; it fails, or the health service
\* wants a fresh token.
Fetch(k) ==
  /\ AtStep(k, Syncing, "fetch")
  /\ \/ task' = [task EXCEPT ![k] = [@ EXCEPT !.pc = "cache", !.read = entity]]
     \/ Goes(k, "fail")
     \/ ~IsHome /\ Goes(k, "refresh")
  /\ UNCHANGED <<provider, connection, entity, sample, socket, subscription, syncRunning, sourceActive, history>>

\* The refreshed credential is written with upsertConnection, then read again and used.
Refresh(k) ==
  /\ AtStep(k, Syncing, "refresh")
  /\ \/ connection' = "active" /\ task' = [task EXCEPT ![k].pc = "cache"]
     \/ Goes(k, "fail") /\ UNCHANGED connection
  /\ UNCHANGED <<provider, entity, sample, socket, subscription, syncRunning, sourceActive, history>>

\* A new entity that is enabled at once.
CacheEnabled(k) ==
  /\ AtStep(k, Syncing, "cache")
  /\ IF IsHome THEN entity' = (IF task[k].read = "none" THEN "on" ELSE task[k].read) /\ UNCHANGED sample
     ELSE sample' = TRUE /\ UNCHANGED entity
  /\ Goes(k, "mark")
  /\ UNCHANGED <<provider, connection, socket, subscription, syncRunning, sourceActive, history>>

\* upsertHomeEntity with the flags read before, a new entity is not enabled; or
\* upsertHealthSample.
Cache(k) ==
  /\ AtStep(k, Syncing, "cache")
  /\ IF IsHome THEN entity' = (IF task[k].read = "none" THEN "off" ELSE task[k].read) /\ UNCHANGED sample
     ELSE sample' = TRUE /\ UNCHANGED entity
  /\ Goes(k, "mark")
  /\ UNCHANGED <<provider, connection, socket, subscription, syncRunning, sourceActive, history>>

CloseRegistered ==
  /\ socket' = [s \in Socket |-> IF s = subscription THEN "closed" ELSE socket[s]]
  /\ subscription' = 0

\* updateConnectionState and, in one go, stopConnection: the subscription is made anew.
Mark(k) ==
  /\ AtStep(k, Syncing, "mark")
  /\ connection' = IF connection = "none" THEN "none" ELSE "active"
  /\ IF IsHome THEN CloseRegistered /\ Goes(k, "subscribe") /\ UNCHANGED syncRunning
     ELSE TaskEnds(k) /\ UNCHANGED <<socket, subscription>>
  /\ UNCHANGED <<provider, entity, sample, sourceActive, history>>

SyncFails(k) ==
  /\ AtStep(k, Syncing, "fail")
  /\ connection' = IF connection = "none" THEN "none" ELSE "error"
  /\ TaskEnds(k)
  /\ UNCHANGED <<provider, entity, sample, socket, subscription, sourceActive, history>>

\* After its synchronisation a new connection enables the entities asked for.
Subscribed(k) ==
  IF task[k].kind = "connect" THEN Goes(k, "choose") /\ UNCHANGED syncRunning ELSE TaskEnds(k)

\* Within a synchronisation the error is written to the row.
SubscribeFails(k) ==
  IF task[k].kind = "subscribe" THEN TaskEnds(k) ELSE Goes(k, "fail") /\ UNCHANGED syncRunning

\* ensureHomeSubscription: not when there is one; else checks, then the socket is opened.
Subscribe(k) ==
  /\ AtStep(k, Syncing \cup {"subscribe"}, "subscribe")
  /\ \/ /\ sourceActive /\ connection # "none"
        /\ \E s \in Socket : /\ socket[s] = "unused" /\ socket' = [socket EXCEPT ![s] = "opening"]
                             /\ task' = [task EXCEPT ![k] = [@ EXCEPT !.pc = "open", !.over = s]]
        /\ UNCHANGED syncRunning
     \/ (~sourceActive \/ connection = "none") /\ SubscribeFails(k) /\ UNCHANGED socket
  /\ UNCHANGED <<provider, connection, entity, sample, subscription, sourceActive, history>>

\* The handshake ends: the socket is registered over whatever is registered by now.  One
\* whose token was refused is closed; after a timeout, or a subscription refused, it is
\* left open and nobody holds what would close it.
Opened(k) ==
  LET s == task[k].over IN
  /\ task[k].pc = "open"
  /\ \/ socket' = [socket EXCEPT ![s] = "open"] /\ subscription' = s /\ Subscribed(k)
     \/ \E how \in {"closed", "left"} : socket' = [socket EXCEPT ![s] = how] /\ SubscribeFails(k) /\ UNCHANGED subscription
  /\ UNCHANGED <<provider, connection, entity, sample, sourceActive, history>>

\* The entities a POST asks for, as a PATCH would set them; and a subscription if the
\* one made by the synchronisation is gone.
Choose(k) ==
  /\ AtStep(k, {"connect"}, "choose")
  /\ entity' = IF entity = "none" THEN "none" ELSE task[k].to
  /\ history' = IF entity = "none" THEN history ELSE [history EXCEPT !.word = task[k].to, !.enabled = @ \/ task[k].to = "on"]
  /\ IF subscription # 0 THEN TaskEnds(k)
     ELSE task' = [task EXCEPT ![k] = [@ EXCEPT !.kind = "subscribe", !.pc = "subscribe"]] /\ UNCHANGED syncRunning
  /\ UNCHANGED <<provider, connection, sample, socket, subscription, sourceActive>>

-----------------------------------------------------------------------------
\* PATCH of an entity: read, then written.
PatchReads(k) ==
  /\ AtStep(k, {"patch"}, "check")
  /\ IF entity = "none" THEN TaskEnds(k) ELSE Goes(k, "write") /\ UNCHANGED syncRunning
  /\ UNCHANGED <<provider, connection, entity, sample, socket, subscription, sourceActive, history>>

PatchWrites(k) ==
  /\ AtStep(k, {"patch"}, "write")
  /\ entity' = task[k].to
  /\ history' = [history EXCEPT !.word = task[k].to, !.enabled = @ \/ task[k].to = "on"]
  /\ TaskEnds(k)
  /\ UNCHANGED <<provider, connection, sample, socket, subscription, sourceActive>>

\* getHomeAssistantState and consumeHomeEvent: the entity must be enabled when it is read,
\* and is written as enabled when its state is there.
EntityReads(k) ==
  /\ AtStep(k, {"state", "event"}, "check")
  /\ IF sourceActive /\ entity = "on" /\ (task[k].kind = "event" \/ connection # "none")
       THEN Goes(k, "write") /\ UNCHANGED syncRunning ELSE TaskEnds(k)
  /\ UNCHANGED <<provider, connection, entity, sample, socket, subscription, sourceActive, history>>

EntityWrites(k) ==
  /\ AtStep(k, {"state", "event"}, "write")
  /\ entity' = "on"
  /\ TaskEnds(k)
  /\ UNCHANGED <<provider, connection, sample, socket, subscription, sourceActive, history>>

\* callHomeAssistantService: source and entity first, then the connection and the call.
CallChecks(k) ==
  /\ AtStep(k, {"call"}, "check")
  /\ IF sourceActive /\ entity = "on" THEN Goes(k, "write") /\ UNCHANGED syncRunning ELSE TaskEnds(k)
  /\ UNCHANGED <<provider, connection, entity, sample, socket, subscription, sourceActive, history>>

CallService(k) ==
  /\ AtStep(k, {"call"}, "write")
  /\ history' = [history EXCEPT !.called = @ \/ connection # "none"]
  /\ TaskEnds(k)
  /\ UNCHANGED <<provider, connection, entity, sample, socket, subscription, sourceActive>>

-----------------------------------------------------------------------------
\* DELETE: stopConnection and the look for the row; a connection without one is a 404.
DeleteLooks(k) ==
  /\ AtStep(k, {"delete"}, "check")
  /\ IF IsHome THEN CloseRegistered ELSE UNCHANGED <<socket, subscription>>
  /\ IF connection = "none" THEN TaskEnds(k) ELSE Goes(k, "row") /\ UNCHANGED syncRunning
  /\ UNCHANGED <<provider, connection, entity, sample, sourceActive, history>>

DeleteRow(k) ==
  /\ AtStep(k, {"delete"}, "row")
  /\ connection' = "none"
  /\ Goes(k, "entities")
  /\ UNCHANGED <<provider, entity, sample, socket, subscription, syncRunning, sourceActive, history>>

DeleteEntities(k) ==
  /\ AtStep(k, {"delete"}, "entities")
  /\ entity' = "none"
  /\ history' = [history EXCEPT !.word = "off"]
  /\ Goes(k, "samples")
  /\ UNCHANGED <<provider, connection, sample, socket, subscription, syncRunning, sourceActive>>

DeleteSamples(k) ==
  /\ AtStep(k, {"delete"}, "samples")
  /\ sample' = FALSE
  /\ history' = [history EXCEPT !.gone = TRUE]
  /\ TaskEnds(k)
  /\ UNCHANGED <<provider, connection, entity, socket, subscription, sourceActive>>

\* The process dies with its sockets, its flag and whatever is under way.
HomeRestarts ==
  /\ task' = [k \in Task |-> NoTask]
  /\ socket' = [s \in Socket |-> IF socket[s] = "unused" THEN "unused" ELSE "closed"]
  /\ subscription' = 0 /\ syncRunning' = FALSE
  /\ history' = [history EXCEPT !.met = TRUE]
  /\ UNCHANGED <<provider, connection, entity, sample, sourceActive>>

\* Home Assistant closes a socket: the manager keeps it registered until the next
\* synchronisation.
PeerCloses(s) ==
  /\ s \in Delivering
  /\ socket' = [socket EXCEPT ![s] = "closed"]
  /\ UNCHANGED <<provider, connection, entity, sample, subscription, syncRunning, sourceActive, task, history>>

HomeNext ==
  \/ \E k \in Task :
       \/ AskHome(k) \/ SyncAll(k) \/ SyncChecks(k) \/ ConnectWrites(k) \/ Fetch(k) \/ Refresh(k)
       \/ Cache(k) \/ Mark(k) \/ SyncFails(k) \/ Subscribe(k) \/ Opened(k) \/ Choose(k)
       \/ PatchReads(k) \/ PatchWrites(k) \/ EntityReads(k) \/ EntityWrites(k) \/ CallChecks(k) \/ CallService(k)
       \/ DeleteLooks(k) \/ DeleteRow(k) \/ DeleteEntities(k) \/ DeleteSamples(k)
  \/ TurnSource \/ HomeRestarts \/ \E s \in Socket : PeerCloses(s)

HomeSpec == HomeInit /\ [][HomeNext]_homeVars

-----------------------------------------------------------------------------
\* Whatever meets whatever, only the user enables an entity: none is enabled, and no
\* service was called, unless a request of the user has enabled it once.  (That it stays
\* disabled is not so: whoever read it as enabled writes that back.)
OnlyTheUserEnables == entity = "on" \/ history.called => history.enabled

\* As long as no two tasks met and none was cut off, an entity is enabled only if that was the user's last
\* word, a socket that delivers events is the registered one or one of a handshake that
\* failed, and after a deletion no row is left of the connection.  (The socket of a failed
\* handshake delivers on, after the deletion too, until its peer or the process ends; its
\* events find no entity then.  A deletion that meets a synchronisation is undone by it in part, and
\* one cut off leaves a cache that the next request, a 404, does not clear.)
AloneEachIsDone ==
  ~history.met =>
    /\ entity = "on" => history.word = "on"
    /\ \A s \in Delivering : s = subscription \/ socket[s] = "left"
    /\ history.gone => connection = "none" /\ entity = "none" /\ ~sample /\ subscription = 0

\* The flag says whether a cycle is under way, and there is one at most: a cycle that
\* fails or dies does not keep the next from starting.
OneCycleAtATime ==
  /\ syncRunning <=> \E k \in Task : task[k].kind = "cycle"
  /\ \A j, k \in Task : task[j].kind = "cycle" /\ task[k].kind = "cycle" => j = k

\* In every state of the connection.
HomeInvariant == HomeTypeOK /\ OnlyTheUserEnables /\ AloneEachIsDone /\ OneCycleAtATime
=============================================================================
