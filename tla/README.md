# Aervox harness: specifications

Aervox is a companion application built around an agent loop. A user posts a
*Turn*; an *attempt* of it is executed step by step by a loop that streams a
model's answer, calls tools, may ask the user, and leaves every event in
`turn_stream_events`, from where clients read it. API process, agent hosts and
worker share one SQLite database and nothing else; each may die at any moment.
Around that core lie what the user is asked to allow (approvals, grants,
connections, plugins), what is kept about the user (captures, memories, diary,
practice) and the clients. These modules model the core, the stores and cycles
around it, and the two clients' control logic.

Contents: 1 inventory, 2 modules, 3 runs and bounds, 4 fairness, 5 proofs,
6 disagreements between code and documentation, 7 what is not modelled,
8 plan.

Paths: `conversation-repository.ts` and the other `*-repository.ts` are in
`packages/database/src/repositories/sqlite/`; `executor.ts`,
`lease-heartbeat.ts`, `resume.ts`, `in-memory-store.ts` in
`packages/agent-loop/src/`; `agent-host.ts`, `adapter-turn.ts`,
`stdio-adapter.ts`, `subagent-executor.ts` in `packages/host-agent/src/`;
`agent-executor.ts`, `user-question-coordinator.ts` in
`apps/api/src/modules/conversation/`, as is `routes.ts` where no other directory
is named; `*-worker.ts`, `attempt-recovery.ts`, `compaction-marker.ts`,
`inbox-expiry.ts`, `diary-generator.ts` in `apps/worker/src/`.

## 1. Inventory

| Component | State it keeps | Operations | Talks to | What makes it correct | Module |
|---|---|---|---|---|---|
| Attempt store (`conversation-repository.ts`) | `turn_attempts` (status, fencing token, lease), `turn_stream_events`, `tool_executions`, `turns` | create, claim, renew, append, record outcome, finalize, cancel, recover | everything below | one writer; one ending, published with its event; nothing finished is reopened; a live lease is not stolen | `AttemptLife`, `AttemptStore` |
| Store of the tests (`in-memory-store.ts`) | the same, in one object | the same, and the tests' hooks | loop | the same promise | `MemoryStore` |
| Agent loop (`executor.ts`, `lease-heartbeat.ts`) | local: next sequence number, Step, call counter, calls seen, heartbeat flag | claim, checkpoints, renewals, model stream, tool calls, ending, catch block | store, model, tools, questions, inbox | intent before effect; stream and ledger agree; every claimed attempt ends | `TurnExecution` |
| Resume (`resume.ts`, `sqlite-resume-source.ts`), turn entry (`agent-executor.ts`), recovery (`attempt-recovery.ts`) | `turns.status` | go on with an expired attempt; set up and report a run; interrupt expired attempts | loop, store | an effect is not repeated; no attempt stays running | `TurnExecution` |
| Event stream (`routes.ts`) | per connection: last number sent, tail or not | replay, poll, drain, end | store | everything once and in order, the ending included; a connection past its replay ends | `TurnDelivery` |
| Agent inbox and post of a Turn (`agent-inbox-repository.ts`, `modules/inbox`, `inbox-expiry.ts`, `routes.ts`) | `agent_inbox_items`, `turns`, outbox row | enqueue, claim, acknowledge, expire, create | loop, store | a command is used once; one key, one Turn | `TurnIntake` |
| User questions (`user-question-coordinator.ts`) | pending session and timer in memory, `pending_user_questions` | ask, answer (from memory or after a restart), time out, abort | loop, store | an accepted answer is recorded; a question ends | `UserQuestion` |
| Messages and branches (`conversation-repository.ts`, `modules/branch`) | `message_versions`, `messages`, `conversation_branches` | edit, delete, restore; create, merge, delete, walk the tree | clients | one edit per version; a current version; a complete tree | `Transcripts` |
| Outbox (`outbox-repository.ts`, `outbox-worker.ts`, `compaction-marker.ts`) | `outbox_events`, audit records, markers | fetch, consume, publish, fail | producers | at least once, in order, nobody waits for ever | `Outbox` |
| Agent host (`agent-host.ts`) | running count, timers, draining flag | tick, execute, start, stop, drain | loop, store | no more Turns than slots; a stopped host is quiet; no attempt starves | `AgentHost` |
| External adapters (`stdio-adapter.ts`, `adapter-turn.ts`) | child process, pending requests; an attempt's events | handshake, run, close; claim, write, finalize | store, child process | what was sent before done is delivered; an ending is announced; a run ends | `AdapterDriver`, `AdapterTurn` |
| Subagents (`subagent-executor.ts`) | `subagent_runs`, the child's Turn | delegate, look up, run, finalize | loop, store | one child per call; what is told is on record | `Subagents` |
| Approvals (`agent-executor.ts`, `action-authorizer.ts`) | `tool_approvals`, `proactive_actions` | gate, decide, authorize, execute, settle | loop, clients | an effect was allowed by a person or by the profile; the ledger is closed | `ToolApprovals` |
| Deletion (`deletion-worker.ts`, `privacy-repository.ts`) | deletion requests and targets | take, clear, complete, fail | worker, resume gate | completed means cleared; every request ends | `Deletion` |
| Diary (`diary-generator.ts`, `modules/diary`) | entries, versions, cycles, schedules | generate, publish, rewrite, schedule | outbox, model | announced once; a rewritten text is kept; a due schedule is served | `Diary` |
| Captures (`proactive-profile-worker.ts`, `proactive-profile-repository.ts`) | captures, observations, claims | ingest, distil, purge, erase | desktop, memory | no raw copy is given up for nothing; scrubbed is final | `Captures` |
| Intelligence (`proactive-intelligence-worker.ts`) | conflicts, verifications, trigger events, reviews | the daily cycle beside the user's edits | profile, notifications | nobody is told twice; a resolution is kept | `Intelligence` |
| Profile grants (`modules/proactive/routes.ts`) | revisions per device, source grants, consents, leases | draft, confirm, pause, revoke, grant, activate, heartbeat | desktop, privacy | what was withdrawn stays withdrawn | `ProfileGrants` |
| Connections (`integration-manager.ts` with its clients) | connection with credential, entities, samples, sockets | connect, sync, subscribe, call, delete | Home Assistant, health service | only the user enables; alone each request is done | `Integrations` |
| Learning (`modules/learning`, `practice-review`) | answers, practice states, review items, plans, sessions, mistakes | answer, review, plan, practise | clients | one next review; the chain of a plan; no question passed over | `Learning`, `PracticeSessions` |
| Study materials (`modules/study-materials`) | materials, versions, sources | create, edit, delete, read, export | clients | versions are one chain; what was saved is shown; sources fall with their material | `StudyMaterials` |
| Speech (`modules/voice`, `useAervoxVoiceInput.ts`, `voice-input-recorder.ts`) | recorder, segments sent; directory, download, recognizer, chain of decodings | click, stop, hear, cut, transcribe; configure, download, load | the window, the API | the microphone that hears is on while the window says so; no speech is lost; the recognizer is that of the directory | `VoiceInput`, `VoiceModel` |
| Skills (`modules/skills`) | candidates, releases, local copy, registration | evaluate, promote, roll back, sync, install, delete | plugins, loop | one active release; synced had a text; row and file agree | `Skills` |
| Plugins and their configuration (`modules/plugins`) | plugins, grants, tools, skills, configuration, secrets | install, switch, uninstall, grant; save, reset | tool and skill registers | no grant outlives its plugin; one request cleans up | `Plugins` |
| Personas (`modules/persona`) | personas, revisions, selection, switch log | update, delete, activate, roll back | prompt | one update per revision; nothing archived is selected | `Personas` |
| Workbench (`AervoxWorkbench.vue`, `transport.ts`) | composer flag, streams, approval card | send, upload, decide, resend | API | the composer is freed | `Workbench` |
| Desktop (`proactive-host.ts`, `proactive-source-adapters.ts`) | control state in memory and on disk; a scan's queue | status, command, heartbeat, poll; scan | API, file system | a stop holds; a scan keeps to its roots | `DesktopHost`, `FileScan` |
| Model providers, memory, synthesis of speech, content, analytics, database infrastructure, contracts | | | | section 7 | |

What makes this system hard: executors in different processes that lose their
lease without knowing it; a local sequence counter beside writers that count
rows; crashes between reservation, effect and result; timers that race answers;
and, everywhere outside the attempt store, operations made of several
statements without a transaction, each on what an earlier one has read, while
other requests, cycles and processes do the same. `hazards` in `PROJECT.json`
lists where it bites, line by line.

## 2. Modules

    AttemptLife                                    the promise of an attempt
      ├── AttemptStore (implements it) ── AttemptStoreProofs
      │     ├── TurnExecution ── TurnExecutionProofs
      │     │                    (implements AttemptStore)
      │     ├── TurnDelivery     readers beside AttemptStore
      │     └── AdapterTurn      an adapter's Turn on AttemptStore
      └── MemoryStore (implements it)
    TurnIntake ── TurnIntakeProofs
    MCHosts         AgentHost  AdapterDriver  AdapterTurn  Subagents ── HostsProofs
    MCBackground    Outbox  Diary  Intelligence  Deletion ── BackgroundProofs
    MCRecords       Captures  ToolApprovals  DesktopHost  Skills
                    Learning  PracticeSessions  StudyMaterials  VoiceModel ── RecordsProofs
    MCStores        Plugins  Personas  Integrations  ProfileGrants
                    AttemptStore  MemoryStore  Transcripts ── StoresProofs
    MCConversation  UserQuestion  TurnDelivery  Workbench  VoiceInput ── ConversationProofs
                    FileScan

The `MC...` modules give the constants their values. Components that share no
state are checked in one run: the union module has a variable `part` that is
chosen at the start and never changes, and only the actions of that part are
taken. So each part has exactly its own behaviours, and one run answers the same
question (what a store keeps, what a cycle serves) for all of them. A temporal
property of a part holds trivially in the others, or is stated for its part.
Definitions between an action and its comment that no action uses
(`FencedByTokenOnly`, `InsertVersionUnindexed`, ...) are faulty variants of that
action; each shows that a property can fail.

**The attempt.** `AttemptLife` says what an attempt promises: it is open, may be
asked to cancel, ends once; ownership is counted in epochs and only the current
one is heard. `AttemptStore` implements it (`ImplementsLife`): one attempt row,
its stream, one action per statement or `BEGIN IMMEDIATE` transaction, and
callers as general as possible: an executor may issue any operation at any time,
with the token its last claim returned. `status`, `fencing`, `lease`,
`leaseOwner` are the row; `log` is the stream in commit order, each event with
its number, its call and the token it was checked against (0 for unchecked
inserts); `held` is each executor's copy of the token. `AppendClosing` and
`SetStatus` are the two statements an ending may be written in instead of one
(`adapter-turn.ts` does): a done or error event with the current token, accepted
also of a finished attempt, and a status without its event. `StoreSpec` has them
for every executor; `AtomicSpec` is the part of it without them, in which the
loop lives. `MemoryStore` is the double in `in-memory-store.ts`, with the await
in the middle of `recordToolOutcome`; it implements the same life
(`MemoryKeepsThePromise`).

**TurnExecution** is the program: `run[e]` is one activation of `executeTurn`,
its `pc` names the next await, and the local code between two awaits belongs to
the action before it. `run[e].seq` is the variable `sequence` of the code, so
collisions with writers that count rows are possible as they are there. `ledger`
is `tool_executions`, `started` counts how often the tool of an executionId
began. The model answers anything in `Answer` or breaks off. Every database
access is an action of AttemptStore, and the loop ends attempts in one
statement, so `AtomicSpec` is a property of it, checked and proved. Executors
other than `Api` are hosts that resume an expired attempt. "rejected" stands for
every known failure of a tool.

**What the window meets.** `TurnDelivery` puts readers beside the writers of
AttemptStore: replay, status query, each poll and the drain are actions of their
own, and each query may throw: within the tail that ends the connection, before
it the response stays open (`stuck`; section 6). `UserQuestion` has one question
with its timer, its row, two answers, abort, tool timeout and restart; stream
events are counted, then inserted. `Workbench` is the composer with its uploads,
streams and approval cards, the server being external. `FileScan` is the walk of
the file adapter: a path is the sequence of its names, each call to the file
system a step, and other programs move, link and lock in between.

**Turns executed elsewhere.** `AgentHost` has overlapping ticks on one counter,
`AdapterDriver` one child process behind two pipes, with its messages arriving
late, twice, for somebody else or not at all. `AdapterTurn` uses AttemptStore's
actions and adds that the closing event and the status are two steps.
`Subagents` has delegations under one parent execution that overlap, repeat and
die.

**What is kept about the user.** `Captures`, `Diary`, `Intelligence` and
`Deletion` are a cycle of the worker each, beside the requests that meet it, one
action per statement, with statements that throw and processes that die.
`ToolApprovals` has the gates in front of a writing tool, the rows that all
Turns share under one key, and the action ledger. `Learning` (answers, reviews
and the chain of a plan), `PracticeSessions`, `StudyMaterials` are the study
routes; `DesktopHost` the control state that status calls, heartbeats, polls and
commands write in memory and on disk; `Skills` the lifecycle of one skill with
its local copy. `VoiceInput` is the microphone in the window: frames are
numbered and loud or not, a segment is what a recorder sends. `VoiceModel` is
the one local provider behind it; a recognizer is named by the directory it was
loaded from.

**Stores written in several statements.** `Transcripts` (versions of messages,
and branches), `ProfileGrants`, `Integrations`, `Plugins` (with the
configuration of a plugin) and `Personas` have requests whose `pc` names the
next statement and whose fields are what they have read. Each keeps, as history,
whether requests met or a process died (`met`, `unmixed`, `settled`, `lonely`,
`...Raced`): several guarantees hold only without that, and the properties say
so instead of being left out.

**How listings are written.** A `SELECT ... ORDER BY ... LIMIT` is the set of
its rows, each with what is ordered before it (`AgentHost`, `Outbox`,
`Captures`, `ProfileGrants`, the events after a number in `TurnDelivery`, the
branches of a session in `Transcripts`), not a recursion over a sequence: so the
provers can reason about it. `Intelligence` has `updated_at` of each commitment
as a number for the same reason, and `IsBefore` in `ProfileGrants` says what the
index does when two devices have revisions of one number.

## 3. Runs and bounds

| Run | Question | Instance |
|---|---|---|
| `stores` | What do stores keep that several writers share, each writing in several statements? | attempt rows and the tests' store: 2 executors, 4 tokens, 2 events; 3 editors and 4 versions; 3 sessions, 2 branches, 5 queries; 2 devices, 2 revisions, 2 leases, 4 requests of which 2 at once; a connection with 3 tasks, 2 at once, and 2 sockets; a plugin with one tool and one skill, 3 requests, 2 grants; 2 tenants and 3 configuration requests; 2 personas, 3 revisions, 3 requests |
| `turn_execution` | Numbering, intent before effect, ledger and stream in the real loop | API and a host, 2 Steps; a batch of a write and a replay-safe read in either order, a question, or text; cancel, one crash |
| `turn_settles` | Does the loop implement the store, and does every claimed attempt end? | API and a host, 2 Steps; a write call or text, a reasoning event, one crash; no cancel |
| `turn_intake` | Is a command used once, and does every row settle? | a command sent twice, a followup, a post and its retry, two executors of one attempt, windows of 1, one crash |
| `conversation` | Does the user see everything, and does everything the user waits for end? | 1 reader, 1 executor with 1 token, 2 events; a question with a double click, 2 foreign events, one restart; 2 messages with 2 frames; a tree of 10 paths, 2 nested roots, 6 items, depth 2, 2 changes meanwhile; 2 recorders, 4 frames |
| `hosts` | Turns executed elsewhere: slots, gathered events, announced endings, one child, and an end | 3 attempts, 2 slots, 2 overlapping ticks; 2 requests, 2 lines; 2 adapters, 2 tokens; 3 delegations |
| `records` | What is kept about the user and what may be done with it | 2 captures of one source with 1 and 2 memories, worker and client purging, one crash; a call in each mode, 2 rows, 1 change of the profile; 3 reviews, 3 answers, 3 requests; 4 milestones; 2 calls and 3 commands on the desktop; 2 candidates, 2 versions, 3 calls; 2 questions, 2 sessions, 3 requests; 2 materials, 3 versions, 3 requests of which 2 at once, one death; 2 directories, 2 loads, 4 requests of which 2 at once |
| `background` | Do the worker's cycles keep what they promise although they overlap, throw and die? | 3 events, window 2, one crash; 2 schedules, 2 requests, one fault; 2 claims, 2 commitments, one action, one edit, one crash; 2 deletions, 2 workers, 2 mishaps |
| `effect_once`, `cancel_is_carried_out`, `grant_is_used`, `ask_holds` | Claims of the documentation the code does not keep | see 6 |

*Properties of the attempt.* `SingleWriter`, `FinishedIsFinal`,
`FinishedIsQuiet`, `NoTheftOfLiveLease` say that tokens order everything that is
written, that an ending is one and final, and that nothing follows it under a
token but a closing word of the token that ended it. That the closing event
states the status, is the last fenced one and comes with Completed and Cancelled
(`EndingInvariant`) holds where the ending is one statement: it is checked of
the loop, proved of `AtomicSpec`, and false of an adapter's Turn (section 6).
`CommittedInSequence` says that numbers follow commit order, which is why a
reader that asks for "greater than the last one" misses nothing.
`LedgerInvariant` relates the effect, the ledger and the stream of each call
across crashes and takeovers: a tool never starts without its request event
(`EffectHasIntent`), a holder has one open call (`OneOpenCallPerClaim`), and a
result is on both or on neither (`LedgerMatchesStream`; section 6 has the one
exception). `AttemptSettles`
excludes attempts the user cancels, because of 6.2, and its run has no cancel.

*Grouped invariants.* Each names its parts. `WindowInvariant`: order and
completeness of what a reader gets. `QuestionInvariant`: accepted answers are
recorded, late ones refused, a session lives as long as its timer.
`FileScanInvariant`: each path has one record, beneath its root and no deeper
than asked; a complete scan nobody disturbed recorded exactly what can be
reached (`Scannable`), although roots may lie within each other, and keeps to
the configured ones. `NothingHangs`: connections past their replay, questions,
the composer and scans end. `HostInvariant`: slots, and quiet after stop.
`ExternalInvariant`: a Turn that returned got every event before its done line;
Completed has the done event of the same holder. `SubagentsInvariant`: one child
runs, what is told is recorded. `EveryRunEnds`: attempts are taken, adapter runs
end. `CapturesInvariant`: whatever is gone is remembered or was erased by the
user. `ApprovalsInvariant`: an effect was authorized, the ledger is closed.
`StudyInvariant`: one completion and one next review, the chain of milestones,
no question passed over. `DesktopInvariant`: a stop the window has shown holds.
`SkillsInvariant`: dense versions, a served stage, synced had text; row and file
agree after calls that ran alone, unless the removal of the file failed.
`OutboxInvariant`, `DiaryInvariant`, `IntelligenceInvariant`,
`DeletionInvariant`, `EveryJobIsServed`: at least once and, as far as a fetch
can see it, in order; announced once, and every text of a rewrite in the ledger;
told once; completed means cleared; every waiting job is done or given up.
`TalkInvariant`: one edit per version, a current version, a complete tree.
`AuthorityInvariant`: grants, consents and leases; only the user enables;
plugins, configurations and personas. `AcknowledgedWasUsed`, `CommandUsedOnce`,
`OneTurnPerKey`, `OverdueEnds` are the intake's.

*Why the bounds are enough.* Fencing is about one holder and its successor: two
executors and three tokens give claim, takeover from every position of the first
one, and recovery (four in `stores`, for a second takeover). One token is enough
in `conversation`: a reader sees the stream and the status only, and a recovery
is for it what `SetStatus` is, a status without an event. Two Steps give a
checkpoint before, between and after model streams and a resume in the middle; a
batch of two calls gives an open call with one settled before it and one still
to come; four call numbers (`MaxCount`) are never exhausted by two Steps of at
most two calls. `MaxSeq` cuts nothing off: the streams of `turn_execution` have
at most 11 events of the 14 allowed, those of `turn_settles` 8 of 9. The last
token is left to the worker so that recovery is never cut off. A window of two
(or one) is smaller than the number of rows, so it is full and rows wait behind
it; the code has 50, 20 and 200. One crash hits every await; a second finds the
same rows again. For the stores, a race is between two requests, so two are
under way at once; a third comes after them and meets what they left, which is
what the guarantees about one undisturbed request need (a fourth for grants,
where confirming, pausing and activating precede the race). A walk over a tree
of at most two branches needs at most 2^2 queries, so the fifth tells a circle.
`CHECK_DEADLOCK FALSE` is set everywhere because a settled Turn, a read stream,
an empty queue, an answered question and the bound on requests are where the
system stops.

## 4. Fairness

Every await of a live process is answered: provider and tools have timeouts
(`withTimeout` in `executor.ts`), statements return or throw. So a run's next
step is weakly fair (`LoopStep`), as are the handlers of an open connection and
the cycles of the worker and of an agent host, whose interval timers beat
(`apps/worker/src/index.ts`, `agent-host.ts`). The clock runs (`TimePasses`,
`TimeUp`, `LeaseExpires`), the idle timer of a stream and the timer of an
adapter's request fire, a pipe is read and a signalled child exits, and a call
to the file system returns. Nobody owes a cancel, an answer, a crash, a
heartbeat, a claim by a host, a line of an adapter, a frame of the server or a
request. In `UserQuestion` the timer of the question is *not* assumed to fire:
an answer may have stopped it, and the question still has to end by the tool's
own timeout. In a union run the same conditions are stated for the part that
runs (`WF_xVars(part = "x" /\ Step)`). Each is on a disjunction of steps that
belong to one actor; none is strong. `stores` and `records` have no liveness
properties and no fairness: nobody owes a request.

## 5. What is proved

TLAPS checks these for every value of the constants that meets the named
`ASSUME` of the component's module: any number of executors, tokens, events,
calls, rows, devices and crashes. The assumptions say that bounds are naturals
(positive where the code's limit is), that a value standing for "nobody" is not
one of the things, that the enumeration of rows (`Order` in `AgentHost` and
`Captures`) has each once, and, for the configuration of plugins and for
personas, that there is a tenant and a persona at all: their operations pick one
to say what "none" looks like. `IntelligenceAssumption` takes the set of claims
to be finite and `FileScanAssumption` that of the paths, `PracticeAssumption`
that there is a question, listed once, and `VoiceAssumption` that two frames are
long enough for a segment (the code asks for more than 0.3 seconds, which are
two). TLC evaluates all of them.

Each theorem has the same shape: an inductive invariant, that the initial states
have it, that each action keeps it (one lemma per action, or one for all that
leave the matter alone), and that it gives the property. The invariants are of
interest in themselves, for each says why its property holds:

*The attempt.*
* `AttemptStoreProofs`: type correctness, every property of `AttemptStore` (the
  ending's of `AtomicSpec`: `EndingsAreTold`), and that it implements
  `AttemptLife` (`StoreKeepsThePromise`). `StoreInv` adds
  that no executor holds a token above the row's, that equal tokens mean equal
  holders, and that no event carries a token above the row's; without these a
  claim could not be seen to be new.
* `TurnExecutionProofs`: types; the loop with its hosts, user, cancel route and
  worker implements `AtomicSpec` (`ImplementsStore`), so one writer, final endings
  and endings that are told hold of the program (`TurnHasOneWriter`,
  `TurnEndsAloud`); events are committed as
  1, 2, 3, ... (`NumberedInOrder`). `TurnInv` adds what the `pc` says of the
  other fields of a run, and that no run is further than one past the end of the
  stream: then the only free number it can use is the next one. `LedgerKept`:
  effect, ledger and stream of every call agree. Why a row may be reserved or a
  result recorded is known to the run only, so `LedgerInv` adds what a run with
  a call in hand relies on: the call is requested, reserved before it runs, all
  earlier calls of its claim are settled, and two runs hold one executionId only
  if it was requested twice. Every action but seven is *quiet*: it touches none
  of this, which one lemma (`QuietKeeps`) settles for all of them.
* `TurnIntakeProofs`: types, `UsedOnce`, `OneTurn`, `AcknowledgedAfterUse`, and
  that no step changes a settled row (`SettledStays`). The invariant says who
  has a claimed row in hand, and that nobody else has.

*Turns executed elsewhere* (`HostsProofs`).
* `SlotsAreRespected`: `HostInv` counts the attempts in flight one by one against
  `runningCount`, across overlapping ticks that computed their free slots before.
* `NothingIsSwallowed`: `DriverInv` counts, for each request, the lines still in
  the pipe and the events already taken against what the child sent; at a done
  line, the ones in front of it against what was sent before it. It holds only
  while the stream is registered and saw no error line.
* `CompletionsAreAnnounced`: `AdapterInv` adds that the adapter past its event
  has it in the stream under its token, which no later claim can change.
* `DelegatedOnce`: `SubInv` adds that whoever is past the Turn made it and that
  the run row is its row. `ExternalRunsAreTold` is the invariant of the run.

*Cycles of the worker* (`BackgroundProofs`).
* `PublishedAfterConsumed`: the event in hand was consumed before it is marked,
  and what is older than an event of a batch and was there for the fetch is in the
  batch, because the batch is the least ones of what waits (`FetchIsOldest`, by
  counting). Rows appear in any order of their stamps; those that came after the
  fetch of a younger one are named (`late`).
* `OneDiaryADay`: what each request and the worker have read is still so or is
  refused; whoever put a text into the row has its version in hand or written,
  so a rewrite inserts before it updates, and the first text is with its author
  until it is kept or the author dies. `ToldOnceADay`: a trigger about to fire
  has no event of the day. `CompletedMeansCleared` is inductive as it stands;
  `SettledIsNotAskedAgain` is the action property `ResolutionIsKept`.

*Records of the user* (`RecordsProofs`).
* `GoneIsAlwaysRemembered`: a capture counts as distilled only with a memory or
  an erased source, and the worker that is to mark one has just made it;
  `ScrubbedStays` says that no step changes a scrubbed row.
* `EffectsAreAuthorized`: what lets a call run (`basis`) is carried from gate to
  gate with the action opened for it and the row it is about to decide, although
  others decide that row meanwhile.
* `StopAlwaysHolds`: a stop on its way to the window is in memory already, and
  no call under way still wants to enable.
* `SkillsAreInOrder`: the releases of a stage are 1..n (`DenseIsCounted` joins
  this to the count the property speaks of), a promotion past its look knows all
  below its number to be there, and while calls ran alone and deleted what they
  meant to delete, file, row and the fields of the one at work fit.
* `StudyIsTrue` is the invariant of five parts, each proved by itself.
  *Answers and reviews* (`LearningInv`): a completed row is never written again,
  one item is active because the index refuses a second, and what a request was
  told of a completion stays true. *Plan*: what is stored is what the pass over
  the chain computes from what is ticked. *Practice* (`PracticeInv`): the
  questions of a session are fixed and differ, so the client is sent no further
  than there are questions; what a request has read at an await is still so as
  long as it met nobody. *Materials* (`MaterialsInv`): the versions are 1..n, all
  but the last superseded (`ChainOf`); whoever superseded the last one inserts
  n + 1 or is refused; what a reader looks for is bounded by the current version
  as long as the material has one writer at a time; the list of a deletion has
  every version with a valid source, for a material that was wholly created gets
  no further one; and two requests are told apart by pairs (`Apart`).
  *Speech model* (`VoiceModelInv`): until somebody asks while a recognizer is
  replaced, the load under way is the only one.

*What the window meets* (`ConversationProofs`).
* `AnswersAreRecorded`: an answer that found its session took it out, an answer
  past its write is in the stream, and one that came late without a session
  never gets past the row.
* `WindowIsTrue` joins the readers, the composer and the microphone, as the run
  does. Of a reader (`StreamIsDelivered`): the log is numbered 1, 2, 3, ..., so
  what is sent is a prefix of it as long as a batch is what comes after the last
  number sent; and a connection that saw the attempt settled before its last
  query has the ending, because no event that tells one is committed afterwards
  (`SettledIsLeft`). Of the microphone (`SpeechIsHeard`): frames kept from
  before speech, the segment and what was sent stand in the order they were
  heard; silence comes a frame after speech at the earliest, so what a cut
  throws away is a single frame before a stop; what hears is what was asked for,
  unless two were; a recorder that could not be set up keeps its microphone and
  hears nothing.
* `ScanIsWhole`: a complete scan of directories nobody touched has recorded what
  is `Scannable` and nothing else. One half is an invariant of what was met: it
  was found in a root, along directories that may be read (`Found`). The other
  half says that a recorded directory has its children met, one deeper at most
  (`Opened`), and that no path is missed is then shown of a smallest missed prefix
  (`WholeIsFound`). Each path is visited once, from whichever root comes first;
  that this one never stands too deep to be opened needs the order of the queue
  (`Levels`: the depths in it rise, by one at most) and that a root has its record
  at depth 0. What holds whatever others do to the files (`Scope`) is kept apart.

*Stores written in several statements* (`StoresProofs`). Each request holds what
it read, and whether that is still so depends on who else was there. The
invariants therefore have three parts: the shape of a request at each statement;
what it has done or read so far, *under the condition* that it runs alone (or
that no such two ever met); and that history says truly who was alone
(`...AloneIsAlone`, `...MeetOthers`).
* `PluginsAreKept`, `ConfigIsKept` (with a count: every request under way may
  still raise a revision once, which bounds them), `PersonasAreKept` (with a
  count of selections), `HomeIsKept`.
* `GrantsAreKept`: revisions, consents and leases each have an invariant of
  their own, stated of the values so that the next state's is the same operator.
  What `getRevision` returns is the least under an order (`FirstExists` by
  well-foundedness, `FirstIsUnique`), and it stays what it is when a row is
  rewritten without touching number or status (`SameFirst`).
* `AuthorityIsKept` joins the five, as the run does.
* `EditsAreKept`: the versions of a message are 1..n and an editor past the
  comparison has marked the one it compared. `BranchesAreKept`: a branch that was
  below the root all along is in what was read or still to come on some path; the
  paths are distinct sets of branches (each repeated parent closes a circle), so
  there are no more of them than such sets, which bounds the queries of a walk
  that met no circle. `TalkIsKept` joins the two.
* `DoubleKeepsThePromise`: the store of the tests implements `AttemptLife` step by
  step. It writes the ledger before the event with an await in between; there the
  ledger has the result that is to be told, and who is to tell it has claimed.

Three attempts at a proof showed something. That a withdrawn revision does not
count again failed on two revisions of one number, between which the model chose
once and for all and the index chooses by status; the model was wrong and is
mended, and what the user then meets is `RevokedIsInactive` in section 6. That
plugin revisions stay in their type needed a tenant to exist. And that an
undisturbed scan is whole was false as first stated: the proof stopped where a
name that begins with two dots lies directly in the inner one of two nested
roots, which the run had no path for. TLC refuted it once it had one;
`Scannable` now says what the code finds, and section 6 what it misses. The same
proof showed that the depth of a record is that of its path only while nobody
puts a link in the way.

Only model-checked is everything under fairness (`AttemptSettles`,
`NothingHangs`, `EveryRunEnds`, `EveryJobIsServed`, `OverdueEnds`), which is out
of the prover's reach. Every invariant and every action property of the passing
runs is stated by a theorem.

No module with a theorem declares a RECURSIVE operator, and no theorem rests on
induction over data: what is said of the prefixes of a path is shown of a
shortest one (`LeastOf`); that the walk of a tree of branches or the fold of a
schedule computes the right thing is checked on bounded inputs.

## 6. Disagreements between code and documentation

Shown by a run each (`findings` in `PROJECT.json` quotes both sides):

1. `EffectOnce`: the plan of a resumption is made when a host scans (its Step from
   all events, its sequence number from the last tool result) and used when it
   claims, which compares the token only. A run whose lease expired but whose
   token is still current requests, reserves and starts a call between the two;
   the stale plan runs a Step of the same number, asks for the same executionId,
   `alreadyReserved` is ignored (`executor.ts:576-582`), and two effects run under
   one id.
2. `CancelIsCarriedOut`: a cancel between the checkpoint at the head of a Step
   and the renewal makes the renewal fail; the run leaves as `lease_lost`, the
   attempt stays `CancelRequested` for ever.
3. `GrantIsUsed`: an approval granted while the turn that asked still streams is
   recorded, and the message is not sent again.
4. `AskHolds`: a call begun in full access ends after the window was answered in
   ask mode, and the host observes again.

Stated in a module, false for the code, and in no run (TLC refutes each when it
is checked in its module): `AnswerIsUsed`, `ReplayIsComplete`,
`UnackedIsReplayed`, `DoneTellsTheEnding`, `RetryUsesTheChild`,
`PurgedIsFullyDistilled`, `ActionMovesForward`, `IntervalFollowsStreak`,
`StopSurvivesARestart`, `OffIsSilent`, `RevisionGoesForward`, `ResetIsMine`,
`RevokedIsInactive`. What they say and what else was met while modelling:

*Loop, store and stream.*
* Question and answer take the numbers the waiting run would use next
  (`user-question-coordinator.ts:105`); the result of the answered call is then
  refused by the unique index (`AnswerIsUsed`).
* A query of the replay that throws (`routes.ts:258-277`, after the `hijack` in
  212 and outside the `try`) leaves the response open: nothing ends it, its
  heartbeat goes on if it was started, and only the client can leave. So
  `NothingHangs` speaks of connections past their replay.
* An attempt that settles between the replay query and the status query ends the
  connection without its closing event (`routes.ts:273-274`, `ReplayIsComplete`).
* A cancel accepted after the last checkpoint loses to Completed:
  `finalizeAttemptWithEventAtomically` accepts `CancelRequested`
  (`conversation-repository.ts:974`), against
  `docs/reference/agent-harness-loop.md:354`.
* The loop reports Completed and the API writes it to `turns.status` even when
  the closing transaction was refused (`executor.ts:444-454`,
  `agent-executor.ts:659-660`), against `agent-harness-loop.md:417`.
* `resume.ts:89-107` checks the Step of the last result only; an undetermined
  call of a later Step does not stop the resume (`agent-harness-loop.md:381`).
  `seenToolCalls` is not rebuilt (`executor.ts:259`), event ids start again from
  zero in every process (`sqlite-execution-store.ts:31`).
* Two runs can request under one executionId (`effect_once`). If the resumed one
  answers its call as a duplicate first, the preempted one can still reserve it:
  the row stays pending beside a result in the stream. `LedgerMatchesStream`
  excludes exactly the ids requested twice.
* `executor.ts:239-241` says a resumed run continues after the existing events;
  its sequence starts after the last tool result (`resume.ts:128`, `139`).
* `resume.ts:44` promises `not_started` only for attempts without effects; line
  132 returns it for any attempt without a tool result.
* A crash between creating a Turn, its attempt and the first claim leaves a row
  with a NULL lease that recovery never selects.
* `sqlite-resume-source.ts:41` cuts the candidates to the free slots before
  `decideResume` rejects some: attempts that cannot be resumed hide others.
* `in-memory-store.ts:287` awaits between the ledger and the event although its
  comment says 原子提交; a preemption in between leaves an executed call without
  a result. Unlike SQLite it does not check that numbers are unique.

*Intake, questions, outbox.*
* Nothing returns a claimed inbox row to pending (`agent-inbox-repository.ts:101`,
  `executor.ts:302`; `UnackedIsReplayed`). Followups are acknowledged before the
  Turn is created (`routes.ts:124`, `135`): a create that fails loses them. The
  window of 20 (`agent-inbox-repository.ts:114`) is cut before items of other
  attempts are passed over. Line 81 expects an empty result on a key conflict;
  the insert throws.
* A double click records two answers (`user-question-coordinator.ts:249`); an
  answer between the insert of the row and the creation of the session is
  accepted, but the call takes its defaults.
* `outbox-worker.ts:5` speaks of retry and dead letters; a failed event is never
  fetched again. `created_at` is stamped before the transaction
  (`conversation-repository.ts:108`, `outbox-repository.ts:26`), so an older row
  may be committed when a younger one was audited, and is audited after it
  (`AuditedInOrder` excepts it). The audit cycle publishes compaction requests
  the marker cycle has not seen (`compaction-marker.ts:4-6`, `35`).

*Hosts, adapters, subagents.*
* A timer left over after an `error` line kills a healthy adapter
  (`stdio-adapter.ts:9`); a failed admission does not kill its child (line 8). A
  completion may stand in the stream of an attempt that was cancelled or
  interrupted (`DoneTellsTheEnding`, `adapter-turn.ts:115`): event and status are
  two statements (115-116, 135-136, 143-144), `terminalDoneOk`
  (`conversation-repository.ts:272-280`) accepts the event of a finished attempt,
  and `finalizeTurnAttempt` sets a status without one. The profile's lock
  is looked at and then taken (`profile.ts:120-146`, against 9-10).
* A delegation whose process died leaves its row Running: later calls are told
  "Running", and the child is not used again (`RetryUsesTheChild`,
  `subagent-executor.ts:10`).

*Approvals, grants, connections.*
* `decideToolApproval` has no condition on pending
  (`conversation-repository.ts:1249`); `updateAction` checks the row it read and
  writes unconditionally (`ActionMovesForward`,
  `proactive-profile-repository.ts:1713`); a revocation while the tool runs makes
  `markExecuted` throw; an automatic approval that cannot be recorded leaves the
  action approved.
* Revoking the source of an old revision revokes the consent of the newest one,
  and granting it again does not restore it; a pause of a revision that is not
  the newest (`proactive/routes.ts:243-248`) leaves the mode as it is; a draft
  with a higher number hides the active revision; an activation repeated under
  one epoch ends the active lease and is then refused by the unique index.
* With two devices a revocation need not end the mode (`RevokedIsInactive`):
  revisions are numbered per device, `getRevision`
  (`proactive-profile-repository.ts:560-575`) takes the highest number of the
  tenant, and of two equal ones the index on `status` gives the one that is
  still active, not the one the user just revoked. So "what was withdrawn does
  not count again" is stated of pausing and of the revision itself only.
* Whoever read an entity as enabled writes that back over a PATCH that disabled
  it; a synchronisation that refreshes its token re-inserts a deleted connection
  with its credential (`docs/explanation/proactive-intelligence-mode.md:283`); a
  deletion cut off leaves caches that the next request, a 404, does not clear.
  A handshake that times out or is refused
  leaves its socket open (`home-assistant-client.ts:124`, `141`), which delivers
  events until its peer or the process ends.
  Two subscriptions at once open two sockets and register one; a connection in
  state "error" is never synchronised again by the cycle.

*Captures, intelligence, diary, deletion.*
* A capture with one of its memories recorded counts as distilled after a crash
  and is scrubbed (`PurgedIsFullyDistilled`,
  `docs/reference/DATA_PRIVACY.md:80`). Claims may be inserted after the source
  was erased; `setDesiredState` writes back a stale status.
* Two commitments due on one day make the cycle throw; a crash between event and
  notification loses the notification; a resolved pair is opened again in the
  other order.
* The text published first gets its version by a statement of its own
  (`createDiaryVersion`, after the transaction). When its author dies in between,
  the next rewrite overwrites the only copy, against `application.ts:144`; that
  is why `FirstIsKept` excepts it. Two concurrent rewrites both write the next
  version number, but both texts are in the ledger. A publication that failed
  leaves its cycle row Scheduled.
* An audit that throws after a completion turns the request failed; overlapping
  workers reopen a completed request.

*Learning, messages, branches.*
* Answers at once lose an update of the counts; the interval of the next review
  follows the judgement of a completion, not the updated streak
  (`IntervalFollowsStreak`, `SRS.md:225`). Mastery is summed in floating point:
  eight right answers give 0.7999999999999999.
* Two posts create two active practice sessions; a mistake that is both mastered
  and dismissed is answered as one and listed as the other.
* An edit cut off between its second and third statement leaves the message
  without a current version, so it is never editable again; the losing edit gets
  a 500. No production code writes a version with a message id, so PATCH always
  answers 409. A branch whose child is its parent or above it makes
  `getBranchTree` go on for ever.

* Study materials: an edit cut off after it superseded the last version leaves
  the material without an active one, and every further edit is a 409; a slow
  editor sets the current version back; a deletion cut off leaves sources valid
  that the next request, a 404, does not invalidate; a creation that outlives
  the deletion calls the deleted material ready. A new version has none of the
  sources of the one it replaces.

*Clients.*
* A second click before the microphone is allowed starts a second recorder in
  place of the first, which no click turns off; a composer closed meanwhile
  leaves the microphone on (`useAervoxVoiceInput.ts:90`,
  `AervoxWorkbench.vue:962`). A recorder whose set-up throws after the grant
  (`voice-input-recorder.ts:65-80`) leaves it on while the window says it is
  off, and no click turns it off. The sign of a transcription goes out with the
  first of two answers.
* The recognizer is found under the key of another directory while that one is
  loaded, and for good when the load fails or is overtaken
  (`asr-providers.ts:356-386`; line 40 says it is kept apart by path). A failed
  download gives its fragment the name of the good file (300-307).
* A stop that was shown is forgotten when the process is killed before it is on
  disk (`StopSurvivesARestart`, `SRS.md:734`); files of overlapping persists are
  renamed in any order.
* Enter during an upload sends twice; a line stays "streaming" if its stream
  closes without done; a stream is not continued with Last-Event-ID.
* `metadataOnly` compares lower-cased keys with camel-case names, so those are
  never removed (`proactive-source-adapters.ts:312-333`); a name that begins
  with two dots is taken for outside (447-448), and directly in a root that lies
  in another one it is missed although a scan of the outer root alone would
  record it; `complete` is true although the depth was cut; roots are authorised
  and then resolved again (1066). The depth is counted along the walk, so a link
  put in the way meanwhile leads deeper than `maxDepth`, if not out of the root.

*Skills, plugins, personas.*
* Two promotions of one version: the second takes the other's release for its
  own, or is refused after it has deactivated the active one
  (`skill-lifecycle-repository.ts:183`). A promotion to stable with sync never
  marks its candidate promoted. Deletions and synchronisations that meet leave
  row and file different, and so does one deletion whose `fs.rm` fails: the
  failure is swallowed and the row removed (`skill-manager.ts:210`).
* Installing a new version of a plugin that is off registers new tools enabled
  (`OffIsSilent`); an uninstall whose `fs.rm` fails answers success and leaves
  SKILL.md (`plugins/service.ts:157`, `160`); tools a version no longer declares
  stay; a plugin's skill takes
  over the row of a local skill of its name.
* The revision of a configuration is compared and then updated unconditionally
  (`RevisionGoesForward`; `config-service.ts:7` promises a compare-and-set); the
  secret is written before the comparison, so a refused save has changed it; a
  reset deletes the secrets of all tenants (`ResetIsMine`,
  `plugin-config-repository.ts:4`).
* Deleting a persona while it is activated leaves an archived one selected; after
  a rollback the revision an update must name is the newest, not the current one.

## 7. What is not modelled, and why

* In the loop: the branch for providers without tools (`executor.ts:473-522`),
  the `repeat_tool` guard (530-534, off by default), the records of model runs,
  and the extraction of terms after a completed Turn.
* Ids made from per-process counters: events are identified by their number.
* A busy database: a statement is atomic and returns; that a retry repeats a
  whole transaction is the infrastructure's business.
* Model providers, the synthesis of speech, search, bundles and zip files are
  network, audio and text; contracts and schemas keep no state; content,
  analytics, feedback, notifications, knowledge and terms are requests of one
  statement, about which there is nothing to say that the statement does not say
  itself. Memories are such statements too; their embedding migration has no
  provider in production (`apps/worker/src/index.ts:105`), so its loop never
  writes.
* Of modelled components: the profile file of a host, budgets of subagents,
  consents and exports, policies, workflows and projects of the intelligence,
  imports of learning material, plugin pages, bundles and reviews of personas,
  the other sources the desktop observes. Views, the pet and the mobile app have
  no protocol of their own. The components in `PROJECT.json` repeat this.
* Mastery is a float, which TLC does not have; its counts are modelled. Answers
  without an idempotency key, each an attempt of its own, are left out of
  `Learning`.
* Text, prompts, schemas and layout carry no property.

The map covers about one line in six of the implementation: repositories,
cycles and handlers that change shared state. The rest is mostly types and
schemas (`types.ts`, `contracts`), views, and statements as described above.

## 8. Plan

Done: everything in section 2. What would come next:

1. The history a Turn is built from, and context manifests, beside compaction.
2. Imports of learning material and the review notifier, on `Learning`.
3. Workflows and the timeline of the proactive intelligence, on `Intelligence`.
