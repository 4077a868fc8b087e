---------------------------- MODULE StudyMaterials ----------------------------
(***************************************************************************)
(* Study materials, their versions and the sources they cite               *)
(* (apps/api/src/modules/study-materials/routes.ts,                        *)
(* study-material-repository.ts).  A request is several statements and     *)
(* none of them shares a transaction with another, so every await is a     *)
(* step and requests meet anywhere.  The one thing the tables themselves   *)
(* refuse is a second version of one number of one material.               *)
(***************************************************************************)
EXTENDS Naturals, Sequences, FiniteSets, SequencesExt

CONSTANTS
  MaterialKey,       \* idempotency keys
  NoKey,             \* a request without one
  MaterialCall,      \* requests under way at once
  MaxMaterials,      \* bound: materials
  MaxEditions,       \* bound: versions of all materials
  MaxSources,        \* bound: sources a material is created with
  MaxMaterialCalls,  \* bound: requests
  MaxMaterialDeaths  \* bound: deaths of the API process

ASSUME MaterialsAssumption ==
  /\ NoKey \notin MaterialKey
  /\ {MaxMaterials, MaxEditions, MaxSources, MaxMaterialCalls, MaxMaterialDeaths} \subseteq Nat

VARIABLES
  materials,     \* study_materials, in order of insertion
  editions,      \* material_versions, in order of insertion
  citations,     \* material_sources, in order of insertion
  materialCall,  \* the requests under way
  past           \* what happened: requests, deaths, keys and materials two requests shared

materialVars == <<materials, editions, citations, materialCall, past>>

Material == 1..MaxMaterials
Edition == 1..MaxEditions
MaterialRow == [key : MaterialKey \cup {NoKey}, status : {"generating", "ready", "deleted"},
                deleted : BOOLEAN, current : 0..MaxEditions, created : BOOLEAN, swept : BOOLEAN, whole : BOOLEAN]
EditionRow == [material : Material, version : Edition, superseded : BOOLEAN]
CitationRow == [edition : Edition, valid : BOOLEAN]
NoMaterialCall == [op |-> "idle", pc |-> "end", key |-> NoKey, material |-> 0, version |-> 0,
                   edition |-> 0, left |-> <<>>]

MaterialsTypeOK ==
  /\ materials \in Seq(MaterialRow) /\ editions \in Seq(EditionRow) /\ citations \in Seq(CitationRow)
  /\ materialCall \in [MaterialCall ->
       [op : {"idle", "create", "edit", "delete", "read"},
        pc : {"end", "key", "row", "number", "insert", "current", "cite", "look", "active", "supersede",
              "mark", "editions", "invalidate", "told"},
        key : MaterialKey \cup {NoKey}, material : 0..MaxMaterials, version : 0..MaxEditions + 1,
        edition : 0..MaxEditions, left : Seq(0..MaxEditions)]]
  /\ past \in [begun : 0..MaxMaterialCalls, died : 0..MaxMaterialDeaths,
               keys : SUBSET MaterialKey, mixed : SUBSET Material, newest : [Material -> 0..MaxEditions]]

MaterialsInit ==
  /\ materials = <<>> /\ editions = <<>> /\ citations = <<>>
  /\ materialCall = [c \in MaterialCall |-> NoMaterialCall]
  /\ past = [begun |-> 0, died |-> 0, keys |-> {}, mixed |-> {}, newest |-> [m \in Material |-> 0]]

-----------------------------------------------------------------------------
EditionsOf(m) == {e \in DOMAIN editions : editions[e].material = m}
ActiveEditions(m) == {e \in EditionsOf(m) : ~editions[e].superseded}
VersionsOf(m) == {editions[e].version : e \in EditionsOf(m)}
LatestOf(S) == CHOOSE e \in S : \A f \in S : editions[f].version <= editions[e].version

At2(c, op, pc) == materialCall[c].op \in op /\ materialCall[c].pc = pc
MaterialOf(c) == materialCall[c].material
GoesTo(c, pc) == materialCall' = [materialCall EXCEPT ![c].pc = pc]
IsOver(c) == materialCall' = [materialCall EXCEPT ![c] = NoMaterialCall]

\* The writers of a material besides c.
OtherWriters(c, m) == {d \in MaterialCall \ {c} : MaterialOf(d) = m /\ materialCall[d].op \in {"create", "edit", "delete"}}
Meets(c, m) == IF OtherWriters(c, m) = {} THEN past.mixed ELSE past.mixed \cup {m}

BeginMaterialCall(c, req) ==
  LET sharing == {d \in MaterialCall : materialCall[d].op = "create" /\ materialCall[d].key = req.key} IN
  /\ materialCall[c] = NoMaterialCall /\ past.begun < MaxMaterialCalls
  \* any free place will do
  /\ c = CHOOSE d \in MaterialCall : materialCall[d] = NoMaterialCall
  /\ materialCall' = [materialCall EXCEPT ![c] = req]
  /\ past' = [past EXCEPT
       !.begun = @ + 1,
       !.keys = IF req.key # NoKey /\ sharing # {} THEN @ \cup {req.key} ELSE @,
       !.mixed = IF req.op \in {"edit", "delete"} THEN Meets(c, req.material) ELSE @]
  /\ UNCHANGED <<materials, editions, citations>>

AskMaterial(c) ==
  \/ \E k \in MaterialKey \cup {NoKey} :
       BeginMaterialCall(c, [NoMaterialCall EXCEPT !.op = "create", !.key = k, !.pc = IF k = NoKey THEN "row" ELSE "key"])
  \* an editor expects a version it was shown, or guesses the first
  \/ \E m \in DOMAIN materials : \E n \in VersionsOf(m) \cup {1} :
       BeginMaterialCall(c, [NoMaterialCall EXCEPT !.op = "edit", !.material = m, !.version = n, !.pc = "look"])
  \/ \E m \in DOMAIN materials :
       \/ BeginMaterialCall(c, [NoMaterialCall EXCEPT !.op = "delete", !.material = m, !.pc = "mark"])
       \* GET and POST export; version: what the user knows to be saved
       \/ BeginMaterialCall(c, [NoMaterialCall EXCEPT !.op = "read", !.material = m, !.version = past.newest[m], !.pc = "look"])

-----------------------------------------------------------------------------
\* POST /v1/study-materials.  getByIdempotencyKey finds deleted materials, too.
FindByKey(c) ==
  /\ At2(c, {"create"}, "key")
  /\ IF \E m \in DOMAIN materials : materials[m].key = materialCall[c].key THEN IsOver(c) ELSE GoesTo(c, "row")
  /\ UNCHANGED <<materials, editions, citations, past>>

CreateMaterial(c) ==
  /\ At2(c, {"create"}, "row") /\ Len(materials) < MaxMaterials
  /\ materials' = Append(materials, [key |-> materialCall[c].key, status |-> "generating", deleted |-> FALSE,
                                     current |-> 0, created |-> FALSE, swept |-> FALSE, whole |-> FALSE])
  /\ materialCall' = [materialCall EXCEPT ![c].material = Len(materials) + 1, ![c].pc = "number"]
  /\ UNCHANGED <<editions, citations, past>>

\* createVersion: one more than the highest number.
NumberVersion(c) ==
  /\ At2(c, {"create"}, "number")
  /\ materialCall' = [materialCall EXCEPT ![c].version = Max({0} \cup VersionsOf(MaterialOf(c))) + 1, ![c].pc = "insert"]
  /\ UNCHANGED <<materials, editions, citations, past>>

\* createVersion, editVersion: the unique index refuses a number that is taken.
InsertVersion(c) ==
  LET m == MaterialOf(c) IN
  /\ At2(c, {"create", "edit"}, "insert") /\ Len(editions) < MaxEditions
  /\ IF materialCall[c].version \in VersionsOf(m)
       THEN IsOver(c) /\ UNCHANGED editions
       ELSE /\ editions' = Append(editions, [material |-> m, version |-> materialCall[c].version, superseded |-> FALSE])
            /\ materialCall' = [materialCall EXCEPT ![c].edition = Len(editions) + 1, ![c].pc = "current"]
  /\ UNCHANGED <<materials, citations, past>>

\* The first version makes the material ready, deleted or not; an edit leaves the status.
SetCurrentVersion(c) ==
  LET m == MaterialOf(c)
      creates == materialCall[c].op = "create"
  IN
  /\ At2(c, {"create", "edit"}, "current")
  /\ materials' = [materials EXCEPT ![m].current = materialCall[c].edition,
                                    ![m].status = IF creates THEN "ready" ELSE @]
  /\ IF creates THEN \E n \in 0..MaxSources :
                       materialCall' = [materialCall EXCEPT ![c].pc = "cite", ![c].left = [i \in 1..n |-> materialCall[c].edition]]
     ELSE IsOver(c)
  /\ past' = IF creates THEN past ELSE [past EXCEPT !.newest[m] = Max({@, materialCall[c].version})]
  /\ UNCHANGED <<editions, citations>>

\* addSource for each source, then the answer.
AddSource(c) ==
  LET m == MaterialOf(c) IN
  /\ At2(c, {"create"}, "cite")
  /\ IF materialCall[c].left = <<>>
       THEN /\ IsOver(c)
            /\ materials' = [materials EXCEPT ![m].created = TRUE]
            /\ past' = [past EXCEPT !.newest[m] = Max({@, 1})]
            /\ UNCHANGED citations
       ELSE /\ citations' = Append(citations, [edition |-> Head(materialCall[c].left), valid |-> TRUE])
            /\ materialCall' = [materialCall EXCEPT ![c].left = Tail(@)]
            /\ UNCHANGED <<materials, past>>
  /\ UNCHANGED editions

-----------------------------------------------------------------------------
\* PATCH /v1/study-materials/:id; get hides what is deleted.
FindMaterial(c) ==
  LET m == MaterialOf(c) IN
  /\ At2(c, {"edit"}, "look")
  /\ IF materials[m].deleted \/ materials[m].status = "deleted" THEN IsOver(c) ELSE GoesTo(c, "active")
  /\ UNCHANGED <<materials, editions, citations, past>>

\* editVersion: no active version, or another one than expected, is a 409.
FindActiveVersion(c) ==
  LET active == ActiveEditions(MaterialOf(c)) IN
  /\ At2(c, {"edit"}, "active")
  /\ materialCall' = [materialCall EXCEPT ![c] =
       IF active # {} /\ editions[LatestOf(active)].version = @.version
         THEN [@ EXCEPT !.edition = LatestOf(active), !.pc = "supersede"]
         ELSE NoMaterialCall]
  /\ UNCHANGED <<materials, editions, citations, past>>

SupersedeVersion(c) ==
  /\ At2(c, {"edit"}, "supersede")
  /\ editions' = [editions EXCEPT ![materialCall[c].edition].superseded = TRUE]
  /\ materialCall' = [materialCall EXCEPT ![c].version = @ + 1, ![c].pc = "insert"]
  /\ UNCHANGED <<materials, citations, past>>

-----------------------------------------------------------------------------
\* DELETE /v1/study-materials/:id; a second one is a 404 and invalidates nothing.
SoftDelete(c) ==
  LET m == MaterialOf(c) IN
  /\ At2(c, {"delete"}, "mark")
  /\ IF materials[m].deleted
       THEN IsOver(c) /\ UNCHANGED materials
       ELSE /\ materials' = [materials EXCEPT ![m].deleted = TRUE, ![m].status = "deleted", ![m].whole = materials[m].created]
            /\ GoesTo(c, "editions")
  /\ UNCHANGED <<editions, citations, past>>

ListVersions(c) ==
  /\ At2(c, {"delete"}, "editions")
  /\ materialCall' = [materialCall EXCEPT ![c].pc = "invalidate", ![c].left = SetToSeq(EditionsOf(MaterialOf(c)))]
  /\ UNCHANGED <<materials, editions, citations, past>>

InvalidateSources(c) ==
  LET m == MaterialOf(c) IN
  /\ At2(c, {"delete"}, "invalidate")
  /\ IF materialCall[c].left = <<>>
       THEN /\ IsOver(c)
            /\ materials' = [materials EXCEPT ![m].swept = TRUE]
            /\ UNCHANGED citations
       ELSE /\ citations' = [i \in DOMAIN citations |->
                 [citations[i] EXCEPT !.valid = @ /\ citations[i].edition # Head(materialCall[c].left)]]
            /\ materialCall' = [materialCall EXCEPT ![c].left = Tail(@)]
            /\ UNCHANGED materials
  /\ UNCHANGED <<editions, past>>

\* GET /v1/study-materials/:id, POST .../export: the current version; a version never
\* changes its content, so reading it and its sources adds no step.
ReadMaterial(c) ==
  LET m == MaterialOf(c) IN
  /\ At2(c, {"read"}, "look")
  /\ IF materials[m].deleted THEN IsOver(c)
     ELSE materialCall' = [materialCall EXCEPT ![c].pc = "told", ![c].edition = materials[m].current]
  /\ UNCHANGED <<materials, editions, citations, past>>

MaterialShown(c) ==
  /\ At2(c, {"read"}, "told")
  /\ IsOver(c)
  /\ UNCHANGED <<materials, editions, citations, past>>

MaterialApiDies ==
  /\ past.died < MaxMaterialDeaths
  /\ \E c \in MaterialCall : materialCall[c] # NoMaterialCall
  /\ materialCall' = [c \in MaterialCall |-> NoMaterialCall]
  /\ past' = [past EXCEPT !.died = @ + 1,
       !.mixed = @ \cup {m \in DOMAIN materials : \E c \in MaterialCall : MaterialOf(c) = m /\ materialCall[c].op # "read"}]
  /\ UNCHANGED <<materials, editions, citations>>

MaterialsNext ==
  \/ \E c \in MaterialCall :
       \/ AskMaterial(c)
       \/ FindByKey(c) \/ CreateMaterial(c) \/ NumberVersion(c) \/ InsertVersion(c) \/ SetCurrentVersion(c) \/ AddSource(c)
       \/ FindMaterial(c) \/ FindActiveVersion(c) \/ SupersedeVersion(c)
       \/ SoftDelete(c) \/ ListVersions(c) \/ InvalidateSources(c)
       \/ ReadMaterial(c) \/ MaterialShown(c)
  \/ MaterialApiDies

MaterialsSpec == MaterialsInit /\ [][MaterialsNext]_materialVars

-----------------------------------------------------------------------------
\* Whoever meets whom and wherever the process dies, the versions of a material are one
\* chain: numbered without a gap, none twice, and at most the last one still active.
\* Two editors of one version cannot both save theirs.
EditionsAreOneChain ==
  \A m \in DOMAIN materials :
    /\ VersionsOf(m) = 1..Cardinality(EditionsOf(m))
    /\ \A e \in ActiveEditions(m) : editions[e].version = Cardinality(EditionsOf(m))

\* A material with versions can be edited again once the editors at work are done: only
\* one that superseded the last version and has not inserted its own, or died there,
\* leaves none active.  (After such a death every further edit is a 409.)
StaysEditable ==
  \A m \in DOMAIN materials :
    EditionsOf(m) # {} /\ ActiveEditions(m) = {} =>
      past.died > 0 \/ \E c \in MaterialCall :
        At2(c, {"edit"}, "insert") /\ MaterialOf(c) = m /\ materialCall[c].version \notin VersionsOf(m)

\* A reader is shown nothing older than what was saved before the reading began, unless
\* two writers of the material met or one died half way.  (A slow editor, or the creation
\* of the material, can set the current version back.)
SavedIsShown ==
  \A c \in MaterialCall :
    At2(c, {"read"}, "told") /\ MaterialOf(c) \notin past.mixed =>
      materialCall[c].version = 0 \/ (materialCall[c].edition # 0 /\ editions[materialCall[c].edition].version >= materialCall[c].version)

\* When a deletion is over and the material was wholly created before it, none of its
\* sources is valid, however it is edited meanwhile.  (Sources that a creation adds after
\* the deletion stay valid, and so do those of a deletion that died: the next is a 404.)
SourcesFallWithTheMaterial ==
  \A i \in DOMAIN citations :
    LET row == materials[editions[citations[i].edition].material] IN row.whole /\ row.swept => ~citations[i].valid

\* Only a creation the deletion overtook calls a deleted material ready.
DeletedIsNotReady ==
  \A m \in DOMAIN materials : materials[m].deleted /\ materials[m].status = "ready" => ~materials[m].whole

\* A key stands for one material, unless two posts of it were under way at once.
OneMaterialPerKey ==
  \A k \in MaterialKey \ past.keys : Cardinality({m \in DOMAIN materials : materials[m].key = k}) <= 1

\* In every state of the study materials.
MaterialsInvariant ==
  /\ MaterialsTypeOK /\ EditionsAreOneChain /\ StaysEditable /\ SavedIsShown
  /\ SourcesFallWithTheMaterial /\ DeletedIsNotReady /\ OneMaterialPerKey
=============================================================================
