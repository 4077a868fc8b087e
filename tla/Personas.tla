------------------------------- MODULE Personas -------------------------------
(***************************************************************************)
(* The personas of a tenant, their revisions, and the one that is selected *)
(* (persona-repository.ts, persona/service.ts).  Only an update is a       *)
(* transaction; deleting, activating and rolling back are chains of        *)
(* statements, each on what the one before has read.                       *)
(***************************************************************************)
EXTENDS Naturals

CONSTANTS
  Persona,
  PersonaCall,       \* requests
  MaxPersonaRevisions, \* bound: revisions of a persona
  MaxPersonaCalls    \* bound: requests in all

ASSUME PersonasAssumption == MaxPersonaRevisions \in Nat \ {0} /\ MaxPersonaCalls \in Nat /\ Persona # {}

VARIABLES
  newest,     \* how many revisions a persona has: persona_revisions 1..newest
  current,    \* personas.current_revision_id
  archived,   \* the personas whose status is archived
  selection,  \* persona_selections: at most one row, with its id, persona and revision
  selections, \* how many such rows were made
  switchLog,  \* persona_switch_logs: the pairs that have an entry
  accepted,   \* ghost: the revisions whose update was answered with success
  personaCall, \* each request
  personaCalls, \* how many were made
  deleteRaced, \* ghost: the personas whose deletion overlapped another request, or died
  lonely,     \* ghost: the last request, when it ran without another one
  personaDied \* whether the API process has died

personaVars == <<newest, current, archived, selection, selections, switchLog, accepted, personaCall, personaCalls,
                 deleteRaced, lonely, personaDied>>

RevisionNo == 1..MaxPersonaRevisions
NoSelection == [id |-> 0, persona |-> CHOOSE p \in Persona : TRUE, revision |-> 0]
Selection == [id : 0..MaxPersonaCalls, persona : Persona, revision : 0..MaxPersonaRevisions]
NoPersonaCall == [op |-> "none", pc |-> "idle", persona |-> NoSelection.persona, revision |-> 0, found |-> NoSelection, alone |-> TRUE]
PersonaOp == {"none", "update", "delete", "activate", "rollback"}
PersonaPc == {"idle", "compare", "insert", "archive", "unselect", "admit", "find", "select", "log", "choose", "repoint", "active", "noteRollback"}

PersonasTypeOK ==
  /\ newest \in [Persona -> RevisionNo] /\ current \in [Persona -> RevisionNo]
  /\ archived \subseteq Persona /\ selection \in Selection /\ selections \in 0..MaxPersonaCalls
  /\ switchLog \subseteq Persona \X RevisionNo
  /\ accepted \in [Persona -> [RevisionNo -> 0..MaxPersonaCalls]]
  /\ personaCall \in [PersonaCall -> [op : PersonaOp, pc : PersonaPc, persona : Persona, revision : 0..MaxPersonaRevisions,
                                      found : Selection, alone : BOOLEAN]]
  /\ personaCalls \in 0..MaxPersonaCalls /\ deleteRaced \subseteq Persona /\ personaDied \in BOOLEAN
  /\ lonely \in [op : PersonaOp, persona : Persona, revision : 0..MaxPersonaRevisions]

NoneLonely == [op |-> "none", persona |-> NoSelection.persona, revision |-> 0]

\* createPersona and importPersonaBundle make a persona with its first revision.
PersonasInit ==
  /\ newest = [p \in Persona |-> 1] /\ current = [p \in Persona |-> 1] /\ archived = {}
  /\ selection = NoSelection /\ selections = 0 /\ switchLog = {}
  /\ accepted = [p \in Persona |-> [r \in RevisionNo |-> 0]]
  /\ personaCall = [c \in PersonaCall |-> NoPersonaCall] /\ personaCalls = 0
  /\ deleteRaced = {} /\ lonely = NoneLonely /\ personaDied = FALSE

-----------------------------------------------------------------------------
PersonaAt(c, pc) == personaCall[c].pc = pc
Running(c) == ~PersonaAt(c, "idle")
Whose(c) == personaCall[c].persona
PersonaGoes(c, pc) == personaCall' = [personaCall EXCEPT ![c].pc = pc] /\ UNCHANGED lonely

PersonaEnds(c, ok) ==
  /\ personaCall' = [personaCall EXCEPT ![c] = NoPersonaCall]
  /\ lonely' = IF ok /\ personaCall[c].alone
               THEN [op |-> personaCall[c].op, persona |-> Whose(c), revision |-> personaCall[c].revision] ELSE NoneLonely

\* PATCH, DELETE, activate and rollback of /v1/personas/:personaId.
PersonaBegins(c, op, first, p, r) ==
  /\ ~Running(c) /\ personaCalls < MaxPersonaCalls
  /\ LET others == {d \in PersonaCall : Running(d)} IN
       /\ personaCall' = [d \in PersonaCall |->
            IF d = c THEN [NoPersonaCall EXCEPT !.op = op, !.pc = first, !.persona = p, !.revision = r, !.alone = others = {}]
            ELSE [personaCall[d] EXCEPT !.alone = ~Running(d)]]
       /\ deleteRaced' = deleteRaced \cup (IF op = "delete" /\ others # {} THEN {p} ELSE {})
                           \cup {Whose(d) : d \in {d \in others : personaCall[d].op = "delete"}}
  /\ personaCalls' = personaCalls + 1 /\ lonely' = NoneLonely
  /\ UNCHANGED <<newest, current, archived, selection, selections, switchLog, accepted, personaDied>>

BeginPersonaCall(c) ==
  \E p \in Persona :
    \/ \E r \in 1..newest[p] : r < MaxPersonaRevisions /\ PersonaBegins(c, "update", "compare", p, r)
    \/ PersonaBegins(c, "delete", "archive", p, 0)
    \/ \E r \in 0..newest[p] : PersonaBegins(c, "activate", "admit", p, r)
    \/ \E r \in 1..newest[p] : PersonaBegins(c, "rollback", "repoint", p, r)

-----------------------------------------------------------------------------
\* updatePersona compares with the newest revision, not the current one.
CompareRevision(c) ==
  /\ PersonaAt(c, "compare")
  /\ IF newest[Whose(c)] = personaCall[c].revision THEN PersonaGoes(c, "insert") ELSE PersonaEnds(c, FALSE)
  /\ UNCHANGED <<newest, current, archived, selection, selections, switchLog, accepted, personaCalls, deleteRaced, personaDied>>

\* A table of revisions without its unique index takes the second one of a number.
InsertRevisionUnindexed(c) ==
  LET p == Whose(c)  r == personaCall[c].revision + 1 IN
  /\ PersonaAt(c, "insert")
  /\ newest' = [newest EXCEPT ![p] = IF r > newest[p] THEN r ELSE newest[p]]
  /\ current' = [current EXCEPT ![p] = r]
  /\ accepted' = [accepted EXCEPT ![p] = [@ EXCEPT ![r] = accepted[p][r] + 1]] /\ PersonaEnds(c, TRUE)
  /\ UNCHANGED <<archived, selection, selections, switchLog, personaCalls, deleteRaced, personaDied>>

\* The transaction: the second of two updates of one revision breaks the unique index.
InsertRevision(c) ==
  LET p == Whose(c)  r == personaCall[c].revision + 1 IN
  /\ PersonaAt(c, "insert")
  /\ IF r <= newest[p] THEN PersonaEnds(c, FALSE) /\ UNCHANGED <<newest, current, accepted>>
     ELSE /\ newest' = [newest EXCEPT ![p] = r] /\ current' = [current EXCEPT ![p] = r]
          /\ accepted' = [accepted EXCEPT ![p] = [@ EXCEPT ![r] = accepted[p][r] + 1]] /\ PersonaEnds(c, TRUE)
  /\ UNCHANGED <<archived, selection, selections, switchLog, personaCalls, deleteRaced, personaDied>>

\* deletePersona: archived first, the selection after.
Archive(c) ==
  /\ PersonaAt(c, "archive")
  /\ archived' = archived \cup {Whose(c)} /\ PersonaGoes(c, "unselect")
  /\ UNCHANGED <<newest, current, selection, selections, switchLog, accepted, personaCalls, deleteRaced, personaDied>>

Unselect(c) ==
  /\ PersonaAt(c, "unselect")
  /\ selection' = (IF selection.persona = Whose(c) THEN NoSelection ELSE selection) /\ PersonaEnds(c, TRUE)
  /\ UNCHANGED <<newest, current, archived, selections, switchLog, accepted, personaCalls, deleteRaced, personaDied>>

-----------------------------------------------------------------------------
\* activatePersona: an archived persona is a 404; no revision given is the current one.
AdmitActivation(c) ==
  /\ PersonaAt(c, "admit")
  /\ IF Whose(c) \in archived THEN PersonaEnds(c, personaCall[c].op = "rollback")
     ELSE /\ personaCall' = [personaCall EXCEPT ![c] = [@ EXCEPT !.pc = "find",
               !.revision = IF personaCall[c].revision = 0 THEN current[Whose(c)] ELSE personaCall[c].revision]]
          /\ UNCHANGED lonely
  /\ UNCHANGED <<newest, current, archived, selection, selections, switchLog, accepted, personaCalls, deleteRaced, personaDied>>

FindSelection(c) ==
  /\ PersonaAt(c, "find")
  /\ personaCall' = [personaCall EXCEPT ![c] = [@ EXCEPT !.found = selection, !.pc = "select"]]
  /\ UNCHANGED <<newest, current, archived, selection, selections, switchLog, accepted, personaCalls, deleteRaced, lonely, personaDied>>

\* An update by id, which may find the row gone and is logged all the same; an insert,
\* which fails when another activation was first.
Select(c) ==
  LET chosen(id) == [id |-> id, persona |-> Whose(c), revision |-> personaCall[c].revision]  old == personaCall[c].found IN
  /\ PersonaAt(c, "select")
  /\ IF old.id = 0 /\ selection.id # 0 THEN PersonaEnds(c, FALSE) /\ UNCHANGED <<selection, selections>>
     ELSE /\ PersonaGoes(c, "log")
          /\ IF old.id = 0 THEN selection' = chosen(selections + 1) /\ selections' = selections + 1
             ELSE selection' = (IF selection.id = old.id THEN chosen(old.id) ELSE selection) /\ UNCHANGED selections
  /\ UNCHANGED <<newest, current, archived, switchLog, accepted, personaCalls, deleteRaced, personaDied>>

LogSwitch(c) ==
  /\ PersonaAt(c, "log")
  /\ switchLog' = switchLog \cup {<<Whose(c), personaCall[c].revision>>} /\ PersonaEnds(c, TRUE)
  /\ UNCHANGED <<newest, current, archived, selection, selections, accepted, personaCalls, deleteRaced, personaDied>>

-----------------------------------------------------------------------------
\* rollbackPersona of the repository, also of an archived persona.
Repoint(c) ==
  /\ PersonaAt(c, "repoint")
  /\ current' = [current EXCEPT ![Whose(c)] = personaCall[c].revision] /\ PersonaGoes(c, "active")
  /\ UNCHANGED <<newest, archived, selection, selections, switchLog, accepted, personaCalls, deleteRaced, personaDied>>

\* rollbackPersona of the service: what is selected is read once, the log is written, and
\* only then, when it was this persona, the revision is activated.
LookAtSelection(c) ==
  /\ PersonaAt(c, "active")
  /\ personaCall' = [personaCall EXCEPT ![c] = [@ EXCEPT !.found = selection, !.pc = "noteRollback"]]
  /\ UNCHANGED <<newest, current, archived, selection, selections, switchLog, accepted, personaCalls, deleteRaced, lonely, personaDied>>

LogRollback(c) ==
  LET mine == personaCall[c].found.id # 0 /\ personaCall[c].found.persona = Whose(c) IN
  /\ PersonaAt(c, "noteRollback")
  /\ switchLog' = switchLog \cup {<<Whose(c), personaCall[c].revision>>}
  /\ IF mine THEN PersonaGoes(c, "admit") ELSE PersonaEnds(c, TRUE)
  /\ UNCHANGED <<newest, current, archived, selection, selections, accepted, personaCalls, deleteRaced, personaDied>>

\* The API process dies once and every request with it.
PersonaApiDies ==
  /\ ~personaDied /\ personaDied' = TRUE
  /\ deleteRaced' = deleteRaced \cup {Whose(c) : c \in {c \in PersonaCall : personaCall[c].op = "delete"}}
  /\ personaCall' = [c \in PersonaCall |-> NoPersonaCall] /\ lonely' = NoneLonely
  /\ UNCHANGED <<newest, current, archived, selection, selections, switchLog, accepted, personaCalls>>

PersonasNext ==
  \/ \E c \in PersonaCall :
       \/ BeginPersonaCall(c) \/ CompareRevision(c) \/ InsertRevision(c) \/ Archive(c) \/ Unselect(c)
       \/ AdmitActivation(c) \/ FindSelection(c) \/ Select(c) \/ LogSwitch(c)
       \/ Repoint(c) \/ LookAtSelection(c) \/ LogRollback(c)
  \/ PersonaApiDies

PersonasSpec == PersonasInit /\ [][PersonasNext]_personaVars

-----------------------------------------------------------------------------
\* Two updates of one revision do not both succeed, so nobody's text is overwritten unseen,
\* although the comparison is made outside the transaction.
OneUpdatePerRevision ==
  \A p \in Persona, r \in RevisionNo : accepted[p][r] = IF r = 1 \/ r > newest[p] THEN 0 ELSE 1

\* An archived persona is still selected only when its deletion overlapped another
\* request or died between its two statements.
ArchivedIsNotSelected ==
  selection.id # 0 /\ selection.persona \in archived =>
    selection.persona \in deleteRaced \/ \E c \in PersonaCall : PersonaAt(c, "unselect") /\ Whose(c) = selection.persona

\* What is selected has an entry in the history, unless the entry is about to be written or
\* the process died before it.
SwitchesAreLogged ==
  selection.id # 0 /\ ~personaDied =>
    \/ <<selection.persona, selection.revision>> \in switchLog
    \/ \E c \in PersonaCall : PersonaAt(c, "log") /\ Whose(c) = selection.persona /\ personaCall[c].revision = selection.revision

\* A request that ran without another one has done what it answers: an activation selected
\* its revision; a rollback made it current and moved a selection of the persona along; a
\* deletion left no selection; an update is current, and the selection stays where it was.
OneRequestDoesIt ==
  LET p == lonely.persona  selected == selection.id # 0 /\ selection.persona = p IN
  /\ lonely.op = "activate" => selected /\ selection.revision = lonely.revision
  /\ lonely.op = "rollback" => current[p] = lonely.revision /\ (selected /\ p \notin archived => selection.revision = lonely.revision)
  /\ lonely.op = "delete" => p \in archived /\ ~selected
  /\ lonely.op = "update" => current[p] = newest[p] /\ newest[p] = lonely.revision + 1

PersonasInvariant == PersonasTypeOK /\ OneUpdatePerRevision /\ ArchivedIsNotSelected /\ SwitchesAreLogged /\ OneRequestDoesIt
=============================================================================
