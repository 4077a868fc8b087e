------------------------------ MODULE MCStores ------------------------------
(* Stores several writers share, each written in several statements: the   *)
(* attempts in the rows of the database and in the store of the tests, the *)
(* versions of a message, the branches of a session, the grants of a       *)
(* proactive profile, a connection beyond the network, a plugin with its   *)
(* configuration, and personas.  They share no state here, so a behaviour  *)
(* is one of them, chosen at the start.  Two executors compete for one     *)
(* attempt: enough for a takeover from every position of the first one,    *)
(* and four tokens allow two takeovers and a recovery.                     *)
EXTENDS AttemptStore, MemoryStore, Transcripts, ProfileGrants, Integrations, Plugins, Personas

CONSTANTS api, host

MCExecutor == {api, host}

VARIABLE part

storesVars == <<part, storeVars, memoryVars, editVars, branchVars, grantVars, homeVars, pluginVars, configVars, personaVars>>

StoresInit ==
  /\ part \in {"rows", "memory", "edits", "branches", "grants", "home", "plugins", "configs", "personas"}
  /\ StoreInit /\ MemoryInit /\ EditsInit /\ BranchesInit /\ GrantsInit /\ HomeInit /\ PluginsInit /\ PluginConfigInit /\ PersonasInit
  /\ part # "home" => provider = "home_assistant"

StoresNext ==
  \/ part = "rows" /\ StoreNext /\ UNCHANGED <<part, memoryVars, editVars, branchVars, grantVars, homeVars, pluginVars, configVars, personaVars>>
  \/ part = "memory" /\ MemoryNext /\ UNCHANGED <<part, storeVars, editVars, branchVars, grantVars, homeVars, pluginVars, configVars, personaVars>>
  \/ part = "edits" /\ EditsNext /\ UNCHANGED <<part, storeVars, memoryVars, branchVars, grantVars, homeVars, pluginVars, configVars, personaVars>>
  \/ part = "branches" /\ BranchesNext /\ UNCHANGED <<part, storeVars, memoryVars, editVars, grantVars, homeVars, pluginVars, configVars, personaVars>>
  \/ part = "grants" /\ GrantsNext /\ UNCHANGED <<part, storeVars, memoryVars, editVars, branchVars, homeVars, pluginVars, configVars, personaVars>>
  \/ part = "home" /\ HomeNext /\ UNCHANGED <<part, storeVars, memoryVars, editVars, branchVars, grantVars, pluginVars, configVars, personaVars>>
  \/ part = "plugins" /\ PluginsNext /\ UNCHANGED <<part, storeVars, memoryVars, editVars, branchVars, grantVars, homeVars, configVars, personaVars>>
  \/ part = "configs" /\ PluginConfigNext /\ UNCHANGED <<part, storeVars, memoryVars, editVars, branchVars, grantVars, homeVars, pluginVars, personaVars>>
  \/ part = "personas" /\ PersonasNext /\ UNCHANGED <<part, storeVars, memoryVars, editVars, branchVars, grantVars, homeVars, pluginVars, configVars>>

\* A conversation changed after it was held: its messages and its branches.
TalkInvariant == (part = "edits" => EditsInvariant) /\ (part = "branches" => BranchesInvariant)

\* What was added to the program: its plugins, their configuration, its personas.
ExtensionInvariant ==
  /\ part = "plugins" => PluginsInvariant
  /\ part = "configs" => PluginConfigInvariant
  /\ part = "personas" => PersonasInvariant

\* What the user has allowed: the grants of the proactive mode, a house or a health service
\* that was connected to it, and what was added to the program.
AuthorityInvariant ==
  /\ part = "grants" => GrantsInvariant
  /\ part = "home" => HomeInvariant
  /\ ExtensionInvariant

StoresSpec == StoresInit /\ [][StoresNext]_storesVars
=============================================================================
