----------------------------- MODULE Transcripts ------------------------------
(***************************************************************************)
(* What was said, and where it went on elsewhere.                          *)
(* One message and its versions (conversation-repository.ts editMessage,   *)
(* softDeleteMessage, restoreMessage; the PATCH, DELETE and restore routes *)
(* of conversation/routes.ts).  An edit is five statements without a       *)
(* transaction; the only thing between two edits of one version is the     *)
(* unique index on (turn_id, version).                                     *)
(* Branches of conversations and the walk over their tree                  *)
(* (conversation-repository.ts createConversationBranch to getBranchTree,  *)
(* branch/routes.ts).  A branch joins a parent session to a child session; *)
(* nothing keeps it from joining a session to itself or to one above it.   *)
(* The walk reads the children of one session per query, while branches    *)
(* come, change and go.                                                    *)
(***************************************************************************)
EXTENDS Naturals, Sequences, FiniteSets

CONSTANTS
  Editor,       \* PATCH requests
  MaxMessageVersion \* bound: versions

ASSUME EditsAssumption == MaxMessageVersion \in Nat \ {0}

VARIABLES
  written,      \* message_versions: the versions that have a row
  superseded,   \* those whose superseded_at is set
  pointer,      \* messages.current_version_id
  removed,      \* messages.deleted_at is set
  edit,         \* each request: where it is, the version it expects, the one it read
  apiDied       \* whether a request was cut off by the death of the API process

editVars == <<written, superseded, pointer, removed, edit, apiDied>>

MessageVersion == 1..MaxMessageVersion
EditPc == {"idle", "find", "supersede", "insert", "point", "ok", "conflict", "error", "dead"}

EditsTypeOK ==
  /\ written \subseteq MessageVersion /\ superseded \subseteq written
  /\ pointer \in MessageVersion /\ removed \in BOOLEAN /\ apiDied \in BOOLEAN
  /\ edit \in [Editor -> [pc : EditPc, expected : 0..MaxMessageVersion]]

EditsInit ==
  /\ written = {1} /\ superseded = {} /\ pointer = 1 /\ removed = FALSE
  /\ edit = [e \in Editor |-> [pc |-> "idle", expected |-> 0]]
  /\ apiDied = FALSE

-----------------------------------------------------------------------------
Standing == written \ superseded
NewestOf(V) == CHOOSE v \in V : \A w \in V : w <= v
EditAt(e, pc) == edit[e].pc = pc
EditGoes(e, pc) == edit' = [edit EXCEPT ![e].pc = pc]

\* PATCH /v1/messages/:messageId: getMessage; a deleted message is a 409.
BeginEdit(e) ==
  /\ EditAt(e, "idle")
  /\ \E v \in MessageVersion \ {MaxMessageVersion} :
       edit' = [edit EXCEPT ![e] = [pc |-> IF removed THEN "conflict" ELSE "find", expected |-> v]]
  /\ UNCHANGED <<written, superseded, pointer, removed, apiDied>>

\* The newest version without superseded_at must be the expected one.
FindCurrent(e) ==
  /\ EditAt(e, "find")
  /\ IF Standing # {} /\ NewestOf(Standing) = edit[e].expected THEN EditGoes(e, "supersede") ELSE EditGoes(e, "conflict")
  /\ UNCHANGED <<written, superseded, pointer, removed, apiDied>>

Supersede(e) ==
  /\ EditAt(e, "supersede")
  /\ superseded' = superseded \cup {edit[e].expected}
  /\ EditGoes(e, "insert")
  /\ UNCHANGED <<written, pointer, removed, apiDied>>

\* A second row of a version in a table without its unique index replaces nothing and
\* is current again.
InsertVersionUnindexed(e) ==
  /\ EditAt(e, "insert")
  /\ written' = written \cup {edit[e].expected + 1}
  /\ superseded' = superseded \ {edit[e].expected + 1}
  /\ EditGoes(e, "point")
  /\ UNCHANGED <<pointer, removed, apiDied>>

\* The insert breaks the unique index when another edit of the version was first.
InsertVersion(e) ==
  /\ EditAt(e, "insert")
  /\ IF edit[e].expected + 1 \in written THEN EditGoes(e, "error") /\ UNCHANGED written
     ELSE written' = written \cup {edit[e].expected + 1} /\ EditGoes(e, "point")
  /\ UNCHANGED <<superseded, pointer, removed, apiDied>>

\* messages.current_version_id is set whatever it is by now.
Point(e) ==
  /\ EditAt(e, "point")
  /\ pointer' = edit[e].expected + 1
  /\ EditGoes(e, "ok")
  /\ UNCHANGED <<written, superseded, removed, apiDied>>

\* softDeleteMessage and restoreMessage
SoftDelete == ~removed /\ removed' = TRUE /\ UNCHANGED <<written, superseded, pointer, edit, apiDied>>
RestoreMessage == removed /\ removed' = FALSE /\ UNCHANGED <<written, superseded, pointer, edit, apiDied>>

EditingStops(e) ==
  /\ edit[e].pc \in {"find", "supersede", "insert", "point"}
  /\ EditGoes(e, "dead") /\ apiDied' = TRUE
  /\ UNCHANGED <<written, superseded, pointer, removed>>

EditsNext ==
  \/ \E e \in Editor : BeginEdit(e) \/ FindCurrent(e) \/ Supersede(e) \/ InsertVersion(e) \/ Point(e) \/ EditingStops(e)
  \/ SoftDelete \/ RestoreMessage

EditsSpec == EditsInit /\ [][EditsNext]_editVars

-----------------------------------------------------------------------------
\* Of two edits of one version one succeeds, and the other is never told it did.
OneEditPerVersion ==
  \A e, f \in Editor : EditAt(e, "ok") /\ EditAt(f, "ok") /\ edit[e].expected = edit[f].expected => e = f

\* Versions count up without a gap and one at most is current, however edits meet; as
\* long as none was cut off, there is one whenever no edit is under way.  (An edit cut
\* off between its second and third statement leaves none, and the message can never be
\* edited again.  The pointer may stay behind: the fifth statement of an earlier edit
\* can come after that of a later one.)
MessageHasCurrent ==
  /\ \A v \in written : 1..v \subseteq written
  /\ Cardinality(Standing) <= 1
  /\ pointer \in written
  /\ (~apiDied /\ \A e \in Editor : edit[e].pc \notin {"insert", "supersede"}) => Standing = {NewestOf(written)}

\* In every state of a message.
EditsInvariant == EditsTypeOK /\ OneEditPerVersion /\ MessageHasCurrent

-----------------------------------------------------------------------------
\* The branches.
CONSTANTS
  Talk,         \* sessions
  Root,         \* the session whose tree is asked for
  MaxBranches,  \* bound: branches created
  MaxQueries    \* bound: queries of one walk

ASSUME BranchesAssumption == Root \in Talk /\ MaxBranches \in Nat /\ MaxQueries \in Nat

VARIABLES
  branches,     \* conversation_branches in order of creation
  walk          \* getBranchTree: sessions to visit, branches found, branches there all along

branchVars == <<branches, walk>>

Branch == 1..MaxBranches
BranchRow == [parent : Talk, child : Talk, status : {"active", "merged", "archived", "deleted"}]

BranchesTypeOK ==
  /\ branches \in Seq(BranchRow) /\ Len(branches) <= MaxBranches
  /\ walk \in [pc : {"none", "on", "done"}, todo : Seq(Talk), found : SUBSET Branch,
               stayed : SUBSET Branch, queries : 0..MaxQueries]

BranchesInit ==
  /\ branches = <<>>
  /\ walk = [pc |-> "none", todo |-> <<>>, found |-> {}, stayed |-> {}, queries |-> 0]

-----------------------------------------------------------------------------
KeptBranches == {b \in DOMAIN branches : branches[b].status # "deleted"}

\* A list of the active branches alone would lose what is below a merged one.
ActiveBranches(s) == {b \in KeptBranches : branches[b].parent = s /\ branches[b].status = "active"}

\* listBranchesByParent, oldest first: each of the session once.
DirectBranches(s) == {b \in KeptBranches : branches[b].parent = s}
IsListing(list, S) ==
  /\ \A b \in S : \E i \in DOMAIN list : list[i] = b
  /\ \A i, j \in DOMAIN list : i < j => list[i] < list[j]

CreateBranch ==
  /\ Len(branches) < MaxBranches
  /\ \E s, t \in Talk : branches' = Append(branches, [parent |-> s, child |-> t, status |-> "active"])
  /\ UNCHANGED walk

\* mergeBranch and archiveBranch: from active only.  Both stay in the tree.
Become(b, status) ==
  /\ branches[b].status = "active"
  /\ branches' = [branches EXCEPT ![b].status = status]
  /\ UNCHANGED walk

DeleteBranch(b) ==
  /\ b \in KeptBranches
  /\ branches' = [branches EXCEPT ![b].status = "deleted"]
  /\ walk' = [walk EXCEPT !.stayed = @ \ {b}]

\* GET /v1/sessions/:sessionId/branch-tree
StartWalk ==
  /\ walk.pc = "none"
  /\ walk' = [walk EXCEPT !.pc = "on", !.todo = <<Root>>, !.stayed = KeptBranches]
  /\ UNCHANGED branches

\* getBranchTree of the next session: its branches are found, their children come next.
Query ==
  LET direct == DirectBranches(Head(walk.todo)) IN
  /\ walk.pc = "on" /\ walk.todo # <<>> /\ walk.queries < MaxQueries
  /\ \E list \in [1..Cardinality(direct) -> direct] :
       /\ IsListing(list, direct)
       /\ walk' = [walk EXCEPT !.todo = [i \in DOMAIN list |-> branches[list[i]].child] \o Tail(@),
                               !.found = @ \cup direct, !.queries = @ + 1]
  /\ UNCHANGED branches

WalkEnds ==
  /\ walk.pc = "on" /\ walk.todo = <<>>
  /\ walk' = [walk EXCEPT !.pc = "done"]
  /\ UNCHANGED branches

BranchesNext ==
  \/ CreateBranch \/ StartWalk \/ Query \/ WalkEnds
  \/ \E b \in DOMAIN branches : Become(b, "merged") \/ Become(b, "archived") \/ DeleteBranch(b)

BranchesSpec == BranchesInit /\ [][BranchesNext]_branchVars

-----------------------------------------------------------------------------
\* What is reached from a session along a set of branches: in every set of sessions
\* that holds the session and is closed under the branches.
Reached(s, via) ==
  {t \in Talk : \A X \in SUBSET Talk :
     s \in X /\ (\A b \in via : branches[b].parent \in X => branches[b].child \in X) => t \in X}

\* Every branch below the session that was there while the walk lasted is in the tree it
\* returns, whatever was created, merged and deleted meanwhile.
TreeIsComplete ==
  walk.pc = "done" => \A b \in walk.stayed : branches[b].parent \in Reached(Root, walk.stayed) => b \in walk.found

\* Only branches that close a circle keep a walk from ending: without one each query is
\* for another set of branches that led to it.
OnlyACircleGoesOn ==
  walk.queries > 2 ^ MaxBranches =>
    \E b \in DOMAIN branches : branches[b].parent \in Reached(branches[b].child, DOMAIN branches)

\* In every state of the branches.
BranchesInvariant == BranchesTypeOK /\ TreeIsComplete /\ OnlyACircleGoesOn
=============================================================================
