------------------------------- MODULE Plugins --------------------------------
(***************************************************************************)
(* One plugin, the tool and the skill it declares, and the grants of one   *)
(* permission (plugins/service.ts, extension-repository.ts, the registers  *)
(* of tools and skills).  Installing, switching and uninstalling are       *)
(* chains of statements without a transaction, and every request is one of *)
(* its own.                                                                *)
(* The configuration of one plugin for every tenant                        *)
(* (plugins/config-service.ts, plugin-config-repository.ts): the values of *)
(* a tenant with their revision, one secret, and the clean-up of an        *)
(* uninstall.  A save writes the secret, compares the revision and updates *)
(* the row in statements of their own.  Of the values only their being the *)
(* tenant's or the defaults is told; the schema is left out.               *)
(***************************************************************************)
EXTENDS Naturals

CONSTANTS
  Admin,            \* requests to install, switch and uninstall
  MaxPluginCalls,   \* bound: such requests in all
  MaxPluginGrants   \* bound: rows of plugin_grants

ASSUME PluginsAssumption == MaxPluginCalls \in Nat /\ MaxPluginGrants \in Nat

VARIABLES
  plugin,       \* the row of plugins: absent, on or off
  declared,     \* the rows of its tool and its skill, likewise
  skillFile,    \* whether SKILL.md lies in the plugin's folder
  undeleted,    \* ghost: whether it lies there although fs.rm was called on it
  pluginGrants, \* rows of plugin_grants
  pluginCall,   \* each request
  pluginCalls,  \* how many were made
  installRaced, \* ghost: whether an install and an uninstall ever overlapped
  unmixed,      \* ghost: what the last request did, when it ran without another one
  pluginDied    \* whether the API process has died

pluginVars == <<plugin, declared, skillFile, undeleted, pluginGrants, pluginCall, pluginCalls, installRaced, unmixed, pluginDied>>

Item == {"tool", "skill"}
State == {"absent", "on", "off"}
PluginGrant == 1..MaxPluginGrants
NoCall == [op |-> "none", pc |-> "idle", item |-> "tool", want |-> "on", wanted |-> {}, seen |-> FALSE, alone |-> TRUE]
PluginPc == {"idle", "look", "row", "file", "find", "put", "toggle", "list", "set", "unfile", "remove", "folder", "delete"}

PluginsTypeOK ==
  /\ plugin \in State /\ declared \in [Item -> State] /\ skillFile \in BOOLEAN /\ undeleted \in BOOLEAN
  /\ pluginGrants \in [PluginGrant -> {"unused", "active", "revoked", "gone"}]
  /\ pluginCall \in [Admin -> [op : {"none", "install", "switch", "uninstall"}, pc : PluginPc, item : Item,
                               want : State, wanted : SUBSET Item, seen : BOOLEAN, alone : BOOLEAN]]
  /\ pluginCalls \in 0..MaxPluginCalls /\ installRaced \in BOOLEAN /\ pluginDied \in BOOLEAN
  /\ unmixed \in {"nothing", "installed", "on", "off", "absent"}

PluginsInit ==
  /\ plugin = "absent" /\ declared = [i \in Item |-> "absent"] /\ skillFile = FALSE /\ undeleted = FALSE
  /\ pluginGrants = [g \in PluginGrant |-> "unused"]
  /\ pluginCall = [a \in Admin |-> NoCall] /\ pluginCalls = 0
  /\ installRaced = FALSE /\ unmixed = "nothing" /\ pluginDied = FALSE

-----------------------------------------------------------------------------
CallAt(a, pc) == pluginCall[a].pc = pc
Busy(a) == ~CallAt(a, "idle")
CallGoes(a, pc) == pluginCall' = [pluginCall EXCEPT ![a].pc = pc] /\ UNCHANGED unmixed

\* The request is answered; what it leaves behind counts when no other one ran meanwhile.
CallEnds(a, outcome) ==
  /\ pluginCall' = [pluginCall EXCEPT ![a] = NoCall]
  /\ unmixed' = IF pluginCall[a].alone THEN outcome ELSE "nothing"

\* POST, PATCH and DELETE of /v1/plugins.
CallBegins(a, op, first, want, wanted) ==
  /\ ~Busy(a) /\ pluginCalls < MaxPluginCalls
  /\ LET others == {b \in Admin : Busy(b)} IN
       /\ pluginCall' = [b \in Admin |->
            IF b = a THEN [op |-> op, pc |-> first, item |-> "tool", want |-> want, wanted |-> wanted,
                           seen |-> FALSE, alone |-> others = {}]
            ELSE [pluginCall[b] EXCEPT !.alone = ~Busy(b)]]
       /\ installRaced' = (installRaced \/ \E b \in others : {op, pluginCall[b].op} = {"install", "uninstall"})
  /\ pluginCalls' = pluginCalls + 1 /\ unmixed' = "nothing"
  /\ UNCHANGED <<plugin, declared, skillFile, undeleted, pluginGrants, pluginDied>>

BeginPluginCall(a) ==
  \/ \E wanted \in SUBSET Item : CallBegins(a, "install", "look", "on", wanted)
  \/ \E want \in {"on", "off"} : CallBegins(a, "switch", "toggle", want, {})
  \/ CallBegins(a, "uninstall", "list", "absent", {})

-----------------------------------------------------------------------------
\* createPlugin: a second install of a plugin updates its row and leaves enabled alone.
LookForPlugin(a) ==
  /\ CallAt(a, "look")
  /\ pluginCall' = [pluginCall EXCEPT ![a] = [@ EXCEPT !.seen = plugin # "absent", !.pc = "row"]]
  /\ UNCHANGED <<plugin, declared, skillFile, undeleted, pluginGrants, pluginCalls, installRaced, unmixed, pluginDied>>

\* The tool first, then the skill; an item that is not declared is passed over.
OnToItems(a, items) ==
  IF items = {} THEN CallEnds(a, "installed")
  ELSE LET i == IF "tool" \in items THEN "tool" ELSE "skill" IN
       /\ pluginCall' = [pluginCall EXCEPT ![a] = [@ EXCEPT !.item = i, !.pc = IF i = "tool" THEN "find" ELSE "file"]]
       /\ UNCHANGED unmixed

\* The insert of a row that exists by now fails; an update of one that is gone does not.
WritePlugin(a) ==
  /\ CallAt(a, "row")
  /\ IF ~pluginCall[a].seen /\ plugin # "absent" THEN CallEnds(a, "nothing") /\ UNCHANGED plugin
     ELSE plugin' = (IF pluginCall[a].seen THEN plugin ELSE "on") /\ OnToItems(a, pluginCall[a].wanted)
  /\ UNCHANGED <<declared, skillFile, undeleted, pluginGrants, pluginCalls, installRaced, pluginDied>>

WriteSkillFile(a) ==
  /\ CallAt(a, "file")
  /\ skillFile' = TRUE /\ undeleted' = FALSE /\ CallGoes(a, "find")
  /\ UNCHANGED <<plugin, declared, pluginGrants, pluginCalls, installRaced, pluginDied>>

\* registerTool and registerSkill look first.
FindItem(a) ==
  /\ CallAt(a, "find")
  /\ pluginCall' = [pluginCall EXCEPT ![a] = [@ EXCEPT !.seen = declared[pluginCall[a].item] # "absent", !.pc = "put"]]
  /\ UNCHANGED <<plugin, declared, skillFile, undeleted, pluginGrants, pluginCalls, installRaced, unmixed, pluginDied>>

\* A new row is enabled, whatever the plugin is; a row that exists keeps its flag.
PutItem(a) ==
  LET i == pluginCall[a].item  there == declared[i] # "absent" IN
  /\ CallAt(a, "put")
  /\ IF ~pluginCall[a].seen /\ there THEN CallEnds(a, "nothing") /\ UNCHANGED declared
     ELSE /\ declared' = (IF pluginCall[a].seen THEN declared ELSE [declared EXCEPT ![i] = "on"])
          /\ OnToItems(a, IF i = "tool" THEN pluginCall[a].wanted \ {"tool"} ELSE {})
  /\ UNCHANGED <<plugin, skillFile, undeleted, pluginGrants, pluginCalls, installRaced, pluginDied>>

-----------------------------------------------------------------------------
\* From the list of the tools to the list of the skills, and to the answer.
PastItem(a, outcome) ==
  IF pluginCall[a].item = "tool"
  THEN pluginCall' = [pluginCall EXCEPT ![a] = [@ EXCEPT !.item = "skill", !.pc = "list"]] /\ UNCHANGED unmixed
  ELSE CallEnds(a, outcome)

\* setPluginEnabled, 404 for a plugin that is not there.
SwitchPlugin(a) ==
  /\ CallAt(a, "toggle")
  /\ IF plugin = "absent" THEN CallEnds(a, "nothing") /\ UNCHANGED plugin
     ELSE plugin' = pluginCall[a].want /\ CallGoes(a, "list")
  /\ UNCHANGED <<declared, skillFile, undeleted, pluginGrants, pluginCalls, installRaced, pluginDied>>

\* listTools, and after the tools listSkills, filtered by the plugin.
ListItems(a) ==
  LET i == pluginCall[a].item  uninstalls == pluginCall[a].op = "uninstall" IN
  /\ CallAt(a, "list")
  /\ IF declared[i] # "absent"
     THEN CallGoes(a, IF ~uninstalls THEN "set" ELSE IF i = "skill" THEN "unfile" ELSE "remove")
     ELSE IF uninstalls /\ i = "skill" THEN CallGoes(a, "folder")
     ELSE PastItem(a, pluginCall[a].want)
  /\ UNCHANGED <<plugin, declared, skillFile, undeleted, pluginGrants, pluginCalls, installRaced, pluginDied>>

SwitchItem(a) ==
  LET i == pluginCall[a].item IN
  /\ CallAt(a, "set")
  /\ declared' = (IF declared[i] = "absent" THEN declared ELSE [declared EXCEPT ![i] = pluginCall[a].want])
  /\ PastItem(a, pluginCall[a].want)
  /\ UNCHANGED <<plugin, skillFile, undeleted, pluginGrants, pluginCalls, installRaced, pluginDied>>

\* fs.rm with force: what it throws is swallowed, and the request goes on.
TryToRemove ==
  \/ skillFile' = FALSE /\ undeleted' = FALSE
  \/ skillFile' = skillFile /\ undeleted' = skillFile

RemoveFile(a) ==
  /\ CallAt(a, "unfile")
  /\ TryToRemove /\ CallGoes(a, "remove")
  /\ UNCHANGED <<plugin, declared, pluginGrants, pluginCalls, installRaced, pluginDied>>

\* unregisterTool and removeSkill: the readonly flag does not protect a skill here.
RemoveItem(a) ==
  LET i == pluginCall[a].item IN
  /\ CallAt(a, "remove")
  /\ declared' = [declared EXCEPT ![i] = "absent"]
  /\ pluginCall' = [pluginCall EXCEPT ![a] = [@ EXCEPT !.item = "skill", !.pc = IF i = "tool" THEN "list" ELSE "folder"]]
  /\ UNCHANGED <<plugin, skillFile, undeleted, pluginGrants, pluginCalls, installRaced, unmixed, pluginDied>>

RemoveFolder(a) ==
  /\ CallAt(a, "folder")
  /\ TryToRemove /\ CallGoes(a, "delete")
  /\ UNCHANGED <<plugin, declared, pluginGrants, pluginCalls, installRaced, pluginDied>>

\* A table of grants without the cascade of its foreign key.
DeletePluginAlone(a) ==
  /\ CallAt(a, "delete")
  /\ plugin' = "absent" /\ CallEnds(a, "absent")
  /\ UNCHANGED <<declared, skillFile, undeleted, pluginGrants, pluginCalls, installRaced, pluginDied>>

\* deletePlugin: the grants go with the row.
DeletePlugin(a) ==
  /\ CallAt(a, "delete")
  /\ plugin' = "absent" /\ CallEnds(a, "absent")
  /\ pluginGrants' = [g \in PluginGrant |-> IF pluginGrants[g] = "unused" THEN "unused" ELSE "gone"]
  /\ UNCHANGED <<declared, skillFile, undeleted, pluginCalls, installRaced, pluginDied>>

-----------------------------------------------------------------------------
\* grantPlugin: the foreign key wants the plugin, the index one grant that is not revoked.
GrantPermission ==
  /\ plugin # "absent" /\ \A g \in PluginGrant : pluginGrants[g] # "active"
  /\ \E g \in PluginGrant :
       /\ pluginGrants[g] = "unused" /\ \A h \in PluginGrant : h < g => pluginGrants[h] # "unused"
       /\ pluginGrants' = [pluginGrants EXCEPT ![g] = "active"]
  /\ UNCHANGED <<plugin, declared, skillFile, undeleted, pluginCall, pluginCalls, installRaced, unmixed, pluginDied>>

RevokePermission ==
  /\ \E g \in PluginGrant :
       pluginGrants[g] = "active" /\ pluginGrants' = [pluginGrants EXCEPT ![g] = "revoked"]
  /\ UNCHANGED <<plugin, declared, skillFile, undeleted, pluginCall, pluginCalls, installRaced, unmixed, pluginDied>>

\* The API process dies once and every request with it.
PluginApiDies ==
  /\ ~pluginDied /\ pluginDied' = TRUE
  /\ pluginCall' = [a \in Admin |-> NoCall] /\ unmixed' = "nothing"
  /\ UNCHANGED <<plugin, declared, skillFile, undeleted, pluginGrants, pluginCalls, installRaced>>

PluginsNext ==
  \/ \E a \in Admin :
       \/ BeginPluginCall(a) \/ LookForPlugin(a) \/ WritePlugin(a) \/ WriteSkillFile(a) \/ FindItem(a) \/ PutItem(a)
       \/ SwitchPlugin(a) \/ ListItems(a) \/ SwitchItem(a)
       \/ RemoveFile(a) \/ RemoveItem(a) \/ RemoveFolder(a) \/ DeletePlugin(a)
  \/ GrantPermission \/ RevokePermission \/ PluginApiDies

PluginsSpec == PluginsInit /\ [][PluginsNext]_pluginVars

-----------------------------------------------------------------------------
\* A plugin that is installed again starts without permissions: no grant outlives its
\* plugin, whatever requests and deaths came in between.
GrantsGoWithThePlugin ==
  plugin = "absent" => \A g \in PluginGrant : pluginGrants[g] \in {"unused", "gone"}

\* Whatever was left before (a request cut off, two at once), one switch that runs without
\* another request puts the plugin and all it declares in one state, and one uninstall
\* leaves no row, not even the tools and skills of a plugin that has no row any more; of
\* its files it leaves those only that fs.rm failed on, which it does not tell.
OneRequestCleansUp ==
  /\ unmixed = "installed" => plugin # "absent"
  /\ unmixed \in {"on", "off"} => plugin = unmixed /\ \A i \in Item : declared[i] \in {"absent", unmixed}
  /\ unmixed = "absent" => plugin = "absent" /\ \A i \in Item : declared[i] = "absent"
  /\ unmixed = "absent" /\ skillFile => undeleted

\* A tool or a skill without the plugin is the work of an install that overlapped an
\* uninstall, a file without it that or the work of a failed fs.rm; a request that dies
\* half way does not leave one.
OrphanNeedsARace ==
  /\ plugin = "absent" /\ (\E i \in Item : declared[i] # "absent") => installRaced
  /\ plugin = "absent" /\ skillFile => installRaced \/ undeleted

PluginsInvariant == PluginsTypeOK /\ GrantsGoWithThePlugin /\ OneRequestCleansUp /\ OrphanNeedsARace

\* What a plugin declares is off while the plugin is off.  False for the code: installing
\* a new version of a plugin that is off registers a tool the old one had not, enabled.
OffIsSilent ==
  plugin = "off" /\ unmixed # "nothing" => \A i \in Item : declared[i] # "on"

-----------------------------------------------------------------------------
\* The configuration.
CONSTANTS
  Tenant,
  Caller,          \* requests: saves, resets and uninstalls
  MaxConfigCalls   \* bound: requests in all

ASSUME PluginConfigAssumption == MaxConfigCalls \in Nat /\ Tenant # {}

VARIABLES
  ready,       \* whether the plugin is installed, on, and has a schema
  config,      \* plugin_configs: for every tenant no row, or its id, its revision and whose the values are
  secrets,     \* plugin_config_secrets: the tenants that have one, and what it holds
  madeRows,    \* how many rows were made
  request,     \* each request
  requests,    \* how many were made
  cleanRaced,  \* ghost: whether an uninstall ever overlapped a save or a reset
  settled,     \* ghost: the last request, when it ran without another one
  configDied   \* whether the API process has died

configVars == <<ready, config, secrets, madeRows, request, requests, cleanRaced, settled, configDied>>

NoRow == [id |-> 0, revision |-> 0, own |-> FALSE]
ConfigRow == [id : 0..MaxConfigCalls, revision : 0..MaxConfigCalls, own : BOOLEAN]
Someone == CHOOSE t \in Tenant : TRUE
Idle == [op |-> "none", pc |-> "idle", tenant |-> Someone, expected |-> 0, secret |-> "keep", stored |-> NoRow,
         seen |-> FALSE, alone |-> TRUE]
Request == [op : {"none", "save", "reset", "uninstall"},
            pc : {"idle", "secret", "put", "check", "write", "secrets", "configs", "gone"},
            tenant : Tenant, expected : 0..MaxConfigCalls, secret : {"keep", "set", "clear"},
            stored : ConfigRow, seen : BOOLEAN, alone : BOOLEAN]
Unsettled == [op |-> "none", tenant |-> Someone, ok |-> TRUE, secret |-> "keep", expected |-> 0, stored |-> NoRow]

PluginConfigTypeOK ==
  /\ ready \in BOOLEAN
  /\ config \in [Tenant -> ConfigRow] /\ secrets \subseteq Tenant
  /\ madeRows \in 0..MaxConfigCalls /\ requests \in 0..MaxConfigCalls
  /\ request \in [Caller -> Request]
  /\ settled \in [op : {"none", "save", "reset", "uninstall"}, tenant : Tenant, ok : BOOLEAN,
                  secret : {"keep", "set", "clear"}, expected : 0..MaxConfigCalls, stored : ConfigRow]
  /\ cleanRaced \in BOOLEAN /\ configDied \in BOOLEAN

PluginConfigInit ==
  /\ ready = TRUE
  /\ config = [t \in Tenant |-> NoRow] /\ secrets = {}
  /\ madeRows = 0 /\ request = [c \in Caller |-> Idle] /\ requests = 0
  /\ cleanRaced = FALSE /\ settled = Unsettled /\ configDied = FALSE

-----------------------------------------------------------------------------
RequestAt(c, pc) == request[c].pc = pc
Working(c) == ~RequestAt(c, "idle")
MyTenant(c) == request[c].tenant
RequestGoes(c, pc) == request' = [request EXCEPT ![c].pc = pc] /\ UNCHANGED settled

RequestEnds(c, ok) ==
  /\ request' = [request EXCEPT ![c] = Idle]
  /\ settled' = IF request[c].alone
                THEN [op |-> request[c].op, tenant |-> MyTenant(c), ok |-> ok, secret |-> request[c].secret,
                      expected |-> request[c].expected, stored |-> request[c].stored]
                ELSE Unsettled

\* requirePlugin and getConfigSchema come first and are never asked again.
RequestBegins(c, op, first, t, expected, secret) ==
  /\ ~Working(c) /\ requests < MaxConfigCalls
  /\ op # "uninstall" => ready
  /\ LET others == {d \in Caller : Working(d)} IN
       /\ request' = [d \in Caller |->
            IF d = c THEN [Idle EXCEPT !.op = op, !.pc = first, !.tenant = t, !.expected = expected,
                                       !.secret = secret, !.alone = others = {}]
            ELSE [request[d] EXCEPT !.alone = ~Working(d)]]
       /\ cleanRaced' = (cleanRaced \/ \E d \in others : (op = "uninstall") # (request[d].op = "uninstall"))
  /\ requests' = requests + 1 /\ settled' = Unsettled
  /\ UNCHANGED <<ready, config, secrets, madeRows, configDied>>

BeginConfigCall(c) ==
  \/ \E t \in Tenant, s \in {"keep", "set", "clear"} : \E expected \in {1, config[t].revision} :
       RequestBegins(c, "save", IF s = "keep" THEN "check" ELSE "secret", t, expected, s)
  \/ \E t \in Tenant : RequestBegins(c, "reset", "secrets", t, 0, "clear")
  \/ RequestBegins(c, "uninstall", "configs", Someone, 0, "keep")

-----------------------------------------------------------------------------
\* The secret is written before the revision is compared.
ClearSecret(c) ==
  /\ RequestAt(c, "secret") /\ request[c].secret = "clear"
  /\ secrets' = secrets \ {MyTenant(c)} /\ RequestGoes(c, "check")
  /\ UNCHANGED <<ready, config, madeRows, requests, cleanRaced, configDied>>

LookForSecret(c) ==
  /\ RequestAt(c, "secret") /\ request[c].secret = "set"
  /\ request' = [request EXCEPT ![c] = [@ EXCEPT !.seen = MyTenant(c) \in secrets, !.pc = "put"]]
  /\ UNCHANGED <<ready, config, secrets, madeRows, requests, cleanRaced, settled, configDied>>

\* An update finds nothing when the secret was deleted meanwhile, and that is no error.
PutSecret(c) ==
  /\ RequestAt(c, "put")
  /\ secrets' = (IF request[c].seen THEN secrets ELSE secrets \cup {MyTenant(c)})
  /\ RequestGoes(c, "check")
  /\ UNCHANGED <<ready, config, madeRows, requests, cleanRaced, configDied>>

\* The comparison forgets a revision that is higher.
CheckRevisionBelow(c) ==
  LET row == config[MyTenant(c)] IN
  /\ RequestAt(c, "check")
  /\ IF request[c].op = "save" /\ row # NoRow /\ row.revision < request[c].expected
     THEN RequestEnds(c, FALSE)
     ELSE /\ request' = [request EXCEPT ![c] = [@ EXCEPT !.stored = row, !.pc = "write"]]
          /\ UNCHANGED settled
  /\ UNCHANGED <<ready, config, secrets, madeRows, requests, cleanRaced, configDied>>

\* saveConfig and resetConfig of the repository: the row again; only a save compares, and
\* only with a row that is there.
CheckRevision(c) ==
  LET row == config[MyTenant(c)] IN
  /\ RequestAt(c, "check")
  /\ IF request[c].op = "save" /\ row # NoRow /\ row.revision # request[c].expected
     THEN RequestEnds(c, FALSE)
     ELSE /\ request' = [request EXCEPT ![c] = [@ EXCEPT !.stored = row, !.pc = "write"]]
          /\ UNCHANGED settled
  /\ UNCHANGED <<ready, config, secrets, madeRows, requests, cleanRaced, configDied>>

\* The update is by id and has no revision in its condition; the insert meets the unique
\* index when another request was first.
WriteConfig(c) ==
  LET t == MyTenant(c)  old == request[c].stored  row == config[t]  mine == request[c].op = "save" IN
  /\ RequestAt(c, "write")
  /\ IF old.id = 0
     THEN IF row # NoRow THEN RequestEnds(c, FALSE) /\ UNCHANGED <<config, madeRows>>
          ELSE /\ config' = [config EXCEPT ![t] = [id |-> madeRows + 1, revision |-> 1, own |-> mine]]
               /\ madeRows' = madeRows + 1 /\ RequestEnds(c, TRUE)
     ELSE IF row.id # old.id THEN RequestEnds(c, FALSE) /\ UNCHANGED <<config, madeRows>>
     ELSE /\ config' = [config EXCEPT ![t] = [old EXCEPT !.revision = old.revision + 1, !.own = mine]]
          /\ UNCHANGED madeRows /\ RequestEnds(c, TRUE)
  /\ UNCHANGED <<ready, secrets, requests, cleanRaced, configDied>>

-----------------------------------------------------------------------------
\* cleanupPlugin, and first of all its configurations.
DeleteConfigs(c) ==
  /\ RequestAt(c, "configs")
  /\ config' = [t \in Tenant |-> NoRow] /\ RequestGoes(c, "secrets")
  /\ UNCHANGED <<ready, secrets, madeRows, requests, cleanRaced, configDied>>

\* deleteAllForPlugin has no tenant in its condition, for an uninstall and a reset alike.
DeleteSecrets(c) ==
  /\ RequestAt(c, "secrets")
  /\ secrets' = {}
  /\ RequestGoes(c, IF request[c].op = "reset" THEN "check" ELSE "gone")
  /\ UNCHANGED <<ready, config, madeRows, requests, cleanRaced, configDied>>

\* deletePlugin, the last statement of an uninstall.
PluginIsGone(c) ==
  /\ RequestAt(c, "gone")
  /\ ready' = FALSE /\ RequestEnds(c, TRUE)
  /\ UNCHANGED <<config, secrets, madeRows, requests, cleanRaced, configDied>>

\* POST /v1/plugins with its schema, again after an uninstall.
PluginIsBack ==
  /\ ~ready /\ ready' = TRUE /\ settled' = Unsettled
  /\ UNCHANGED <<config, secrets, madeRows, request, requests, cleanRaced, configDied>>

ConfigApiDies ==
  /\ ~configDied /\ configDied' = TRUE
  /\ request' = [c \in Caller |-> Idle] /\ settled' = Unsettled
  /\ UNCHANGED <<ready, config, secrets, madeRows, requests, cleanRaced>>

PluginConfigNext ==
  \/ \E c \in Caller :
       \/ BeginConfigCall(c) \/ ClearSecret(c) \/ LookForSecret(c) \/ PutSecret(c)
       \/ CheckRevision(c) \/ WriteConfig(c) \/ DeleteConfigs(c) \/ DeleteSecrets(c) \/ PluginIsGone(c)
  \/ PluginIsBack \/ ConfigApiDies

PluginConfigSpec == PluginConfigInit /\ [][PluginConfigNext]_configVars

-----------------------------------------------------------------------------
\* A save that runs without another request is accepted exactly on the revision of the
\* row, which it then moves by one, and its secret is as it says; a reset leaves neither
\* values nor secret, on a revision nobody has seen.
OneRequestCounts ==
  LET row == config[settled.tenant]  configured == settled.tenant \in secrets IN
  /\ settled.op = "save" /\ settled.ok =>
       /\ row.own /\ row.revision = IF settled.stored.id = 0 THEN 1 ELSE settled.expected + 1
       /\ settled.secret = "set" => configured
       /\ settled.secret = "clear" => ~configured
  /\ settled.op = "reset" /\ settled.ok => ~row.own /\ row.revision = settled.stored.revision + 1 /\ ~configured
  /\ settled.op = "save" /\ ~settled.ok => row.revision # settled.expected

\* Nothing a tenant stored outlives the plugin, unless a save or a reset overlapped the
\* uninstall; one that dies half way can be repeated, for the plugin is deleted last.
LeftoverNeedsARace ==
  ~ready => cleanRaced \/ \A t \in Tenant : config[t] = NoRow /\ t \notin secrets

PluginConfigInvariant == PluginConfigTypeOK /\ OneRequestCounts /\ LeftoverNeedsARace

-----------------------------------------------------------------------------
\* The revision of a row never goes back.  False for the code: an update that is late
\* writes one more than the revision it read.
RevisionGoesForward ==
  [][\A t \in Tenant : config[t].id # 0 /\ config'[t].id = config[t].id => config'[t].revision >= config[t].revision]_configVars

\* A reset is a matter of its own tenant.  False for the code: it deletes every secret.
ResetIsMine ==
  [][\A c \in Caller : request[c].op = "reset" /\ request[c].pc = "secrets" /\ request'[c].pc = "check" =>
       secrets \ {MyTenant(c)} \subseteq secrets']_configVars
=============================================================================
