----------------------------- MODULE StoresProofs -----------------------------
(***************************************************************************)
(* What the user has allowed, and what was added to the program, for any   *)
(* number of requests, devices, tenants, personas and tasks                *)
(* (AuthorityIsKept); the versions of a message and the tree of branches   *)
(* (TalkIsKept); and the store of the tests (DoubleKeepsThePromise).       *)
(***************************************************************************)
EXTENDS MCStores, FiniteSetTheorems, TLAPS

(***************************************************************************)
(* A plugin.  What a request leaves behind counts when it ran without      *)
(* another one; that tools have a plugin, as long as no install overlapped *)
(* an uninstall.  Both need the same of a request under way: that what it  *)
(* has done so far is still so, if it runs alone or if no such two met.    *)
(***************************************************************************)
PluginCallType == [op : {"none", "install", "switch", "uninstall"}, pc : PluginPc, item : Item,
                   want : State, wanted : SUBSET Item, seen : BOOLEAN, alone : BOOLEAN]

PluginCallShape(a) ==
  /\ pluginCall[a].pc = "idle" => pluginCall[a].op = "none"
  /\ pluginCall[a].pc \in {"look", "row", "file", "find", "put"} => pluginCall[a].op = "install"
  /\ pluginCall[a].pc \in {"toggle", "set"} => pluginCall[a].op = "switch"
  /\ pluginCall[a].pc = "list" => pluginCall[a].op \in {"switch", "uninstall"}
  /\ pluginCall[a].pc \in {"unfile", "remove", "folder", "delete"} => pluginCall[a].op = "uninstall"
  /\ pluginCall[a].pc = "toggle" => pluginCall[a].item = "tool"
  /\ pluginCall[a].op = "switch" => pluginCall[a].want \in {"on", "off"}

PluginDoneSoFar(a) ==
  pluginCall[a].alone \/ ~installRaced =>
    /\ pluginCall[a].pc = "row" /\ pluginCall[a].seen => plugin # "absent"
    /\ pluginCall[a].pc \in {"file", "find", "put"} => plugin # "absent"
    /\ pluginCall[a].op = "uninstall" /\ pluginCall[a].item = "skill" => declared["tool"] = "absent"
    /\ pluginCall[a].pc \in {"folder", "delete"} => pluginCall[a].item = "skill" /\ declared["skill"] = "absent"
    /\ pluginCall[a].pc = "delete" /\ skillFile => undeleted

SwitchedSoFar(a) ==
  pluginCall[a].alone /\ pluginCall[a].op = "switch" /\ pluginCall[a].pc \in {"list", "set"} =>
    /\ plugin = pluginCall[a].want
    /\ pluginCall[a].item = "skill" => declared["tool"] \in {"absent", pluginCall[a].want}

PluginAloneIsAlone ==
  \A a, b \in Admin : a # b /\ Busy(a) /\ pluginCall[a].alone => ~Busy(b)
InstallMeetsUninstall ==
  \A a, b \in Admin : pluginCall[a].op = "install" /\ pluginCall[b].op = "uninstall" => installRaced
UnmixedIsQuiet == unmixed # "nothing" => \A a \in Admin : ~Busy(a)

PluginInv ==
  /\ PluginsInvariant /\ PluginAloneIsAlone /\ InstallMeetsUninstall /\ UnmixedIsQuiet
  /\ \A a \in Admin : PluginCallShape(a) /\ PluginDoneSoFar(a) /\ SwitchedSoFar(a)

\* The steps of a request that is under way.
PluginWork(a) ==
  \/ LookForPlugin(a) \/ WritePlugin(a) \/ WriteSkillFile(a) \/ FindItem(a) \/ PutItem(a)
  \/ SwitchPlugin(a) \/ ListItems(a) \/ SwitchItem(a)
  \/ RemoveFile(a) \/ RemoveItem(a) \/ RemoveFolder(a) \/ DeletePlugin(a)

LEMMA PluginInitInv == PluginsInit => PluginInv
<1> SUFFICES ASSUME PluginsInit PROVE PluginInv
  OBVIOUS
<1>1. NoCall \in PluginCallType
  BY DEF NoCall, PluginCallType, PluginPc, Item, State
<1>2. PluginsTypeOK
  <2>1. pluginCall \in [Admin -> PluginCallType] /\ declared \in [Item -> State]
        /\ pluginGrants \in [PluginGrant -> {"unused", "active", "revoked", "gone"}]
    BY <1>1 DEF PluginsInit, State
  <2> QED
    <3>1. plugin \in State /\ unmixed \in {"nothing", "installed", "on", "off", "absent"}
      BY DEF PluginsInit, State
    <3>2. pluginCalls \in 0..MaxPluginCalls
      BY PluginsAssumption DEF PluginsInit
    <3>3. skillFile \in BOOLEAN /\ undeleted \in BOOLEAN /\ installRaced \in BOOLEAN /\ pluginDied \in BOOLEAN
      BY DEF PluginsInit
    <3> QED
      BY <2>1, <3>1, <3>2, <3>3 DEF PluginsTypeOK, PluginCallType
<1>3. \A a \in Admin : pluginCall[a] = NoCall
  BY DEF PluginsInit
<1>4. \A a \in Admin : PluginCallShape(a) /\ PluginDoneSoFar(a) /\ SwitchedSoFar(a) /\ ~Busy(a)
  <2>1. NoCall.pc = "idle" /\ NoCall.op = "none"
    BY DEF NoCall
  <2>2. \A a \in Admin : pluginCall[a].pc = "idle" /\ pluginCall[a].op = "none"
    BY <1>3, <2>1
  <2> QED
    BY <2>2 DEF PluginCallShape, PluginDoneSoFar, SwitchedSoFar, Busy, CallAt
<1>5. PluginAloneIsAlone /\ InstallMeetsUninstall /\ UnmixedIsQuiet
  BY <1>3, <1>4 DEF PluginAloneIsAlone, InstallMeetsUninstall, UnmixedIsQuiet, NoCall
<1>6. GrantsGoWithThePlugin /\ OneRequestCleansUp /\ OrphanNeedsARace
  BY DEF PluginsInit, GrantsGoWithThePlugin, OneRequestCleansUp, OrphanNeedsARace
<1> QED
  BY <1>2, <1>4, <1>5, <1>6 DEF PluginInv, PluginsInvariant

\* A request that works changes its own record only, and ends, if it ends, with what
\* counts when it was alone.
PluginCallBecomes(a, r) ==
  r \in PluginCallType /\ (r = NoCall \/ (r.op = pluginCall[a].op /\ r.alone = pluginCall[a].alone))

LEMMA PluginWorkMoves ==
  ASSUME PluginInv, NEW a \in Admin, PluginWork(a)
  PROVE  /\ \E r : pluginCall' = [pluginCall EXCEPT ![a] = r] /\ PluginCallBecomes(a, r)
         /\ Busy(a) /\ UNCHANGED <<pluginCalls, installRaced, pluginDied>>
         /\ unmixed' = unmixed \/ unmixed' = "nothing" \/ (pluginCall[a].alone /\ pluginCall'[a] = NoCall)
<1>1. pluginCall \in [Admin -> PluginCallType]
  BY DEF PluginInv, PluginsInvariant, PluginsTypeOK, PluginCallType
<1>2. pluginCall[a] \in PluginCallType /\ PluginCallBecomes(a, NoCall)
  BY <1>1 DEF PluginCallBecomes, PluginCallType, NoCall, Item, State, PluginPc
<1>3. \A pc \in PluginPc : PluginCallBecomes(a, [pluginCall[a] EXCEPT !.pc = pc])
  BY <1>2 DEF PluginCallBecomes, PluginCallType
<1>4. \A pc \in PluginPc, s \in BOOLEAN : PluginCallBecomes(a, [pluginCall[a] EXCEPT !.seen = s, !.pc = pc])
  BY <1>2 DEF PluginCallBecomes, PluginCallType
<1>5. \A pc \in PluginPc, i \in Item : PluginCallBecomes(a, [pluginCall[a] EXCEPT !.item = i, !.pc = pc])
  BY <1>2 DEF PluginCallBecomes, PluginCallType
<1> DEFINE Moved == \E r : pluginCall' = [pluginCall EXCEPT ![a] = r] /\ PluginCallBecomes(a, r)
           Said == unmixed' = unmixed \/ unmixed' = "nothing" \/ (pluginCall[a].alone /\ pluginCall'[a] = NoCall)
<1>a. \A pc \in PluginPc : CallGoes(a, pc) => Moved /\ unmixed' = unmixed
  BY <1>3 DEF CallGoes
<1>b. \A outcome : CallEnds(a, outcome) => Moved /\ Said
  BY <1>1, <1>2 DEF CallEnds
<1>c. \A pc \in PluginPc, s \in BOOLEAN : pluginCall' = [pluginCall EXCEPT ![a] = [@ EXCEPT !.seen = s, !.pc = pc]] => Moved
  BY <1>4, Zenon
<1>d. \A pc \in PluginPc, i \in Item : pluginCall' = [pluginCall EXCEPT ![a] = [@ EXCEPT !.item = i, !.pc = pc]] => Moved
  BY <1>5, Zenon
<1>e. {"row", "file", "find", "put", "list", "set", "unfile", "remove", "folder", "delete"} \subseteq PluginPc
      /\ {"tool", "skill"} \subseteq Item /\ "idle" \in PluginPc
  BY DEF PluginPc, Item
<1> HIDE DEF Moved
<1> SUFFICES Moved /\ Busy(a) /\ UNCHANGED <<pluginCalls, installRaced, pluginDied>> /\ Said
  BY DEF Moved
<1>f. \A items : OnToItems(a, items) => Moved /\ Said
  BY <1>b, <1>d, <1>e DEF OnToItems
<1>g. \A outcome : PastItem(a, outcome) => Moved /\ Said
  BY <1>b, <1>d, <1>e DEF PastItem
<1> USE <1>a, <1>b, <1>e, <1>f, <1>g DEF Busy, CallAt
<1>6. CASE LookForPlugin(a)
  BY <1>6, <1>c DEF LookForPlugin
<1>7. CASE WritePlugin(a)
  BY <1>7 DEF WritePlugin
<1>8. CASE WriteSkillFile(a)
  BY <1>8 DEF WriteSkillFile
<1>9. CASE FindItem(a)
  BY <1>9, <1>c DEF FindItem
<1>10. CASE PutItem(a)
  BY <1>10 DEF PutItem
<1>11. CASE SwitchPlugin(a)
  BY <1>11 DEF SwitchPlugin
<1>12. CASE ListItems(a)
  BY <1>12 DEF ListItems
<1>13. CASE SwitchItem(a)
  BY <1>13 DEF SwitchItem
<1>14. CASE RemoveFile(a)
  BY <1>14 DEF RemoveFile, TryToRemove
<1>15. CASE RemoveItem(a)
  BY <1>15, <1>d DEF RemoveItem
<1>16. CASE RemoveFolder(a)
  BY <1>16 DEF RemoveFolder, TryToRemove
<1>17. CASE DeletePlugin(a)
  BY <1>17, SMTT(60) DEF DeletePlugin
<1> QED
  BY <1>6, <1>7, <1>8, <1>9, <1>10, <1>11, <1>12, <1>13, <1>14, <1>15, <1>16, <1>17 DEF PluginWork

\* What its step leaves behind of it.
LEMMA PluginWorkGoesOn ==
  ASSUME PluginInv, NEW a \in Admin, PluginWork(a)
  PROVE  (PluginCallShape(a) /\ PluginDoneSoFar(a) /\ SwitchedSoFar(a))'
<1>1. pluginCall \in [Admin -> PluginCallType] /\ plugin \in State /\ declared \in [Item -> State]
      /\ skillFile \in BOOLEAN /\ undeleted \in BOOLEAN /\ installRaced \in BOOLEAN
  BY DEF PluginInv, PluginsInvariant, PluginsTypeOK, PluginCallType
<1>2. PluginCallShape(a) /\ PluginDoneSoFar(a) /\ SwitchedSoFar(a)
  BY DEF PluginInv
<1>3. pluginCall[a] \in PluginCallType
  BY <1>1
<1> DEFINE now == pluginCall[a]
           next == pluginCall'[a]
           Rest == next.op = now.op /\ next.alone = now.alone /\ next.want = now.want
<1>a. \A pc \in PluginPc : next = [now EXCEPT !.pc = pc] => next.pc = pc /\ next.item = now.item /\ next.seen = now.seen /\ Rest
  BY <1>3 DEF PluginCallType
<1>b. \A i \in Item, pc \in PluginPc : next = [now EXCEPT !.item = i, !.pc = pc] => next.pc = pc /\ next.item = i /\ Rest
  BY <1>3 DEF PluginCallType
<1>c. {"list", "set", "find", "file", "unfile", "remove", "folder"} \subseteq PluginPc /\ {"tool", "skill"} \subseteq Item
  BY DEF PluginPc, Item
<1> USE <1>1, <1>2, <1>3 DEF PluginCallType, PluginCallShape, PluginDoneSoFar, SwitchedSoFar, CallAt, CallGoes, CallEnds,
        Item, State, PluginPc, NoCall
<1>4. CASE LookForPlugin(a)
  BY <1>4, ZenonT(60) DEF LookForPlugin
<1>5. CASE WritePlugin(a)
  <2>1. UNCHANGED <<declared, skillFile, undeleted, installRaced>> /\ pluginCall[a].op = "install" /\ pluginCall[a].pc = "row"
    BY <1>5 DEF WritePlugin
  <2>2. \/ next = NoCall
        \/ /\ \E i \in Item, pc \in {"find", "file"} : next = [now EXCEPT !.item = i, !.pc = pc]
           /\ now.seen => plugin' = plugin
           /\ ~now.seen => plugin' = "on"
    BY <1>5, ZenonT(60) DEF WritePlugin, OnToItems
  <2>8. CASE next = NoCall
    BY <2>8
  <2>9. CASE next # NoCall
    <3>0. /\ next.pc \in {"find", "file"} /\ Rest
          /\ now.seen => plugin' = plugin
          /\ ~now.seen => plugin' = "on"
      BY <1>b, <1>c, <2>2, <2>9
    <3>1. PluginCallShape(a)'
      BY <2>1, <3>0
    <3>2. PluginDoneSoFar(a)'
      BY <2>1, <3>0
    <3>3. SwitchedSoFar(a)'
      BY <2>1, <3>0
    <3> QED
      BY <3>1, <3>2, <3>3
  <2> QED
    BY <2>8, <2>9
<1>6. CASE WriteSkillFile(a)
  BY <1>6 DEF WriteSkillFile
<1>7. CASE FindItem(a)
  BY <1>7 DEF FindItem
<1>8. CASE PutItem(a)
  <2>1. UNCHANGED <<plugin, skillFile, undeleted, installRaced>> /\ pluginCall[a].op = "install" /\ pluginCall[a].pc = "put"
    BY <1>8 DEF PutItem
  <2>3. CallEnds(a, "nothing") \/ \E items \in SUBSET Item : OnToItems(a, items)
    <3>1. {} \in SUBSET Item /\ pluginCall[a].wanted \ {"tool"} \in SUBSET Item
      BY <1>1, <1>2
    <3> QED
      BY <1>8, <3>1 DEF PutItem
  <2>4. \A items \in SUBSET Item : OnToItems(a, items) =>
          next = NoCall \/ \E i \in Item, pc \in {"find", "file"} : next = [now EXCEPT !.item = i, !.pc = pc]
    BY ZenonT(60) DEF OnToItems
  <2>2. next = NoCall \/ \E i \in Item, pc \in {"find", "file"} : next = [now EXCEPT !.item = i, !.pc = pc]
    BY <2>3, <2>4
  <2>8. CASE next = NoCall
    BY <2>8
  <2>9. CASE next # NoCall
    <3>0. next.pc \in {"find", "file"} /\ Rest
      BY <1>b, <1>c, <2>2, <2>9
    <3>1. PluginCallShape(a)'
      BY <2>1, <3>0
    <3>2. PluginDoneSoFar(a)'
      BY <2>1, <3>0
    <3>3. SwitchedSoFar(a)'
      BY <2>1, <3>0
    <3> QED
      BY <3>1, <3>2, <3>3
  <2> QED
    BY <2>8, <2>9
<1>9. CASE SwitchPlugin(a)
  <2>1. UNCHANGED <<declared, skillFile, undeleted, installRaced>> /\ pluginCall[a].op = "switch" /\ pluginCall[a].item = "tool"
    BY <1>9 DEF SwitchPlugin
  <2>2. next = NoCall \/ (next = [now EXCEPT !.pc = "list"] /\ plugin' = now.want)
    BY <1>9 DEF SwitchPlugin
  <2>8. CASE next = NoCall
    BY <2>8
  <2>9. CASE next # NoCall
    <3>0. next.pc = "list" /\ next.item = now.item /\ Rest /\ plugin' = now.want
      BY <1>a, <1>c, <2>2, <2>9
    <3>1. PluginCallShape(a)'
      BY <2>1, <3>0
    <3>2. PluginDoneSoFar(a)'
      BY <2>1, <3>0
    <3>3. SwitchedSoFar(a)'
      BY <2>1, <3>0
    <3> QED
      BY <3>1, <3>2, <3>3
  <2> QED
    BY <2>8, <2>9
<1>10. CASE ListItems(a)
  <2>1. UNCHANGED <<plugin, declared, skillFile, undeleted, installRaced>> /\ pluginCall[a].pc = "list"
    BY <1>10 DEF ListItems
  <2>2. CASE declared[pluginCall[a].item] # "absent"
    <3>1. \/ pluginCall[a].op # "uninstall" /\ pluginCall'[a] = [pluginCall[a] EXCEPT !.pc = "set"]
          \/ /\ pluginCall[a].op = "uninstall"
             /\ \E pc \in {"unfile", "remove"} : pluginCall'[a] = [pluginCall[a] EXCEPT !.pc = pc]
      BY <1>10, <2>2 DEF ListItems
    <3> QED
      BY <2>1, <3>1
  <2>3. CASE declared[pluginCall[a].item] = "absent"
    <3>1. \/ next = NoCall
          \/ now.item = "tool" /\ next = [now EXCEPT !.item = "skill", !.pc = "list"]
          \/ now.item = "skill" /\ now.op = "uninstall" /\ next = [now EXCEPT !.pc = "folder"]
      BY <1>10, <2>3, ZenonT(60) DEF ListItems, PastItem
    <3>2. CASE next = NoCall
      BY <3>2
    <3>3. CASE next # NoCall
      <4>0. /\ Rest /\ next.item = "skill"
            /\ \/ now.item = "tool" /\ next.pc = "list"
               \/ now.item = "skill" /\ now.op = "uninstall" /\ next.pc = "folder"
        BY <1>a, <1>b, <1>c, <3>1, <3>3
      <4>1. PluginCallShape(a)'
        BY <2>1, <4>0
      <4>2. PluginDoneSoFar(a)'
        BY <2>1, <2>3, <4>0
      <4>3. SwitchedSoFar(a)'
        BY <2>1, <2>3, <4>0
      <4> QED
        BY <4>1, <4>2, <4>3
    <3> QED
      BY <3>2, <3>3
  <2> QED
    BY <2>2, <2>3
<1>11. CASE SwitchItem(a)
  <2>1. UNCHANGED <<plugin, skillFile, undeleted, installRaced>> /\ pluginCall[a].pc = "set" /\ pluginCall[a].op = "switch"
    BY <1>11 DEF SwitchItem
  <2>2. next = NoCall \/ (now.item = "tool" /\ next = [now EXCEPT !.item = "skill", !.pc = "list"])
    BY <1>11, ZenonT(60) DEF SwitchItem, PastItem
  <2>3. now.item = "tool" => declared'["tool"] \in {"absent", now.want}
    BY <1>11 DEF SwitchItem
  <2>8. CASE next = NoCall
    BY <2>8
  <2>9. CASE next # NoCall
    <3>0. Rest /\ now.item = "tool" /\ next.item = "skill" /\ next.pc = "list" /\ declared'["tool"] \in {"absent", now.want}
      BY <1>b, <1>c, <2>2, <2>3, <2>9
    <3>1. PluginCallShape(a)'
      BY <2>1, <3>0
    <3>2. PluginDoneSoFar(a)'
      BY <2>1, <3>0
    <3>3. SwitchedSoFar(a)'
      BY <2>1, <3>0
    <3> QED
      BY <3>1, <3>2, <3>3
  <2> QED
    BY <2>8, <2>9
<1>12. CASE RemoveFile(a)
  BY <1>12 DEF RemoveFile, TryToRemove
<1>13. CASE RemoveItem(a)
  BY <1>13 DEF RemoveItem
<1>14. CASE RemoveFolder(a)
  BY <1>14 DEF RemoveFolder, TryToRemove
<1>15. CASE DeletePlugin(a)
  BY <1>15 DEF DeletePlugin
<1> QED
  BY <1>4, <1>5, <1>6, <1>7, <1>8, <1>9, <1>10, <1>11, <1>12, <1>13, <1>14, <1>15 DEF PluginWork
\* And of the others: one that runs alone meets none that works.
LEMMA PluginOthersStay ==
  ASSUME PluginInv, NEW a \in Admin, PluginWork(a), NEW b \in Admin, b # a
  PROVE  (PluginCallShape(b) /\ PluginDoneSoFar(b) /\ SwitchedSoFar(b))'
<1>1. pluginCall'[b] = pluginCall[b] /\ installRaced' = installRaced
  BY PluginWorkMoves DEF PluginInv, PluginsInvariant, PluginsTypeOK
<1>2. PluginCallShape(b)'
  BY <1>1 DEF PluginInv, PluginCallShape
<1>3. CASE ~Busy(b)
  BY <1>1, <1>3 DEF PluginInv, PluginCallShape, PluginDoneSoFar, SwitchedSoFar, Busy, CallAt
<1>4. CASE Busy(b)
  <2>1. ~pluginCall[b].alone
    BY <1>4, PluginWorkMoves DEF PluginInv, PluginAloneIsAlone
  <2>2. SwitchedSoFar(b)'
    BY <1>1, <2>1 DEF SwitchedSoFar
  <2>3. SUFFICES ASSUME ~installRaced PROVE PluginDoneSoFar(b)'
    BY <1>1, <1>2, <2>1, <2>2 DEF PluginDoneSoFar
  <2>4. PluginDoneSoFar(b) /\ PluginCallShape(a) /\ PluginCallShape(b)
        /\ ~(pluginCall[a].op = "uninstall" /\ pluginCall[b].op = "install")
        /\ ~(pluginCall[a].op = "install" /\ pluginCall[b].op = "uninstall")
    BY <2>3 DEF PluginInv, InstallMeetsUninstall
  <2>5. declared \in [Item -> State] /\ pluginCall[a] \in PluginCallType
    BY DEF PluginInv, PluginsInvariant, PluginsTypeOK, PluginCallType
  <2>6. plugin = "absent" => plugin' = "absent" \/ pluginCall[a].op = "install"
    BY <2>4, <2>5 DEF PluginWork, PluginCallShape, CallAt, LookForPlugin, WritePlugin, WriteSkillFile, FindItem, PutItem,
       SwitchPlugin, ListItems, SwitchItem, RemoveFile, RemoveItem, RemoveFolder, TryToRemove, DeletePlugin
  <2>7. plugin' = "absent" => plugin = "absent" \/ pluginCall[a].op = "uninstall"
    BY <2>4, <2>5 DEF PluginWork, PluginCallShape, CallAt, LookForPlugin, WritePlugin, WriteSkillFile, FindItem, PutItem,
       SwitchPlugin, ListItems, SwitchItem, RemoveFile, RemoveItem, RemoveFolder, TryToRemove, DeletePlugin
  <2>8. \A i \in Item : declared[i] = "absent" => declared'[i] = "absent" \/ pluginCall[a].op = "install"
    BY <2>4, <2>5 DEF PluginWork, PluginCallShape, CallAt, LookForPlugin, WritePlugin, WriteSkillFile, FindItem, PutItem,
       SwitchPlugin, ListItems, SwitchItem, RemoveFile, RemoveItem, RemoveFolder, TryToRemove, DeletePlugin, Item
  <2>9. skillFile' /\ ~undeleted' => (skillFile /\ ~undeleted) \/ pluginCall[a].op = "install"
    <3>1. \/ WriteSkillFile(a) \/ TryToRemove \/ UNCHANGED <<skillFile, undeleted>>
      BY DEF PluginWork, LookForPlugin, WritePlugin, FindItem, PutItem,
         SwitchPlugin, ListItems, SwitchItem, RemoveFile, RemoveItem, RemoveFolder, DeletePlugin
    <3>2. WriteSkillFile(a) => pluginCall[a].op = "install"
      BY <2>4 DEF WriteSkillFile, PluginCallShape, CallAt
    <3>3. TryToRemove => ~skillFile' \/ undeleted'
      <4>1. CASE skillFile
        BY <4>1 DEF TryToRemove
      <4>2. CASE ~skillFile
        BY <4>2 DEF TryToRemove
      <4> QED
        BY <4>1, <4>2
    <3> QED
      BY <3>1, <3>2, <3>3, Zenon
  <2> QED
    BY <1>1, <2>3, <2>4, <2>6, <2>7, <2>8, <2>9 DEF PluginDoneSoFar, PluginCallShape, Item
<1> QED
  BY <1>2, <1>3, <1>4
\* What is so once the request has ended, when it was alone.
LEMMA PluginEndsAsItSays ==
  ASSUME PluginInv, NEW a \in Admin, PluginWork(a) PROVE OneRequestCleansUp'
<1>1. pluginCall[a] \in PluginCallType /\ plugin \in State /\ declared \in [Item -> State] /\ skillFile \in BOOLEAN /\ undeleted \in BOOLEAN
      /\ PluginCallShape(a) /\ PluginDoneSoFar(a) /\ SwitchedSoFar(a) /\ pluginCall[a].pc # "idle"
  BY PluginWorkMoves DEF PluginInv, PluginsInvariant, PluginsTypeOK, PluginCallType, Busy, CallAt
<1>2. unmixed = "nothing"
  BY PluginWorkMoves DEF PluginInv, UnmixedIsQuiet
<1> USE <1>1, <1>2 DEF PluginCallType, PluginCallShape, PluginDoneSoFar, SwitchedSoFar, OneRequestCleansUp,
        CallAt, CallGoes, CallEnds, Item, State
<1>3. CASE LookForPlugin(a)
  BY <1>3 DEF LookForPlugin
<1>4. CASE WritePlugin(a)
  BY <1>4 DEF WritePlugin, OnToItems
<1>5. CASE WriteSkillFile(a)
  BY <1>5 DEF WriteSkillFile
<1>6. CASE FindItem(a)
  BY <1>6 DEF FindItem
<1>7. CASE PutItem(a)
  BY <1>7 DEF PutItem, OnToItems
<1>8. CASE SwitchPlugin(a)
  BY <1>8 DEF SwitchPlugin
<1>9. CASE ListItems(a)
  BY <1>9 DEF ListItems, PastItem
<1>10. CASE SwitchItem(a)
  BY <1>10 DEF SwitchItem, PastItem
<1>11. CASE RemoveFile(a)
  BY <1>11 DEF RemoveFile, TryToRemove
<1>12. CASE RemoveItem(a)
  BY <1>12 DEF RemoveItem
<1>13. CASE RemoveFolder(a)
  BY <1>13 DEF RemoveFolder, TryToRemove
<1>14. CASE DeletePlugin(a)
  BY <1>14 DEF DeletePlugin
<1> QED
  BY <1>3, <1>4, <1>5, <1>6, <1>7, <1>8, <1>9, <1>10, <1>11, <1>12, <1>13, <1>14 DEF PluginWork

LEMMA PluginWorkInv ==
  ASSUME PluginInv, NEW a \in Admin, PluginWork(a) PROVE PluginInv'
<1>1. pluginCall \in [Admin -> PluginCallType] /\ plugin \in State /\ declared \in [Item -> State]
      /\ skillFile \in BOOLEAN /\ undeleted \in BOOLEAN /\ pluginCall[a] \in PluginCallType
      /\ pluginGrants \in [PluginGrant -> {"unused", "active", "revoked", "gone"}]
      /\ PluginCallShape(a) /\ PluginDoneSoFar(a)
  BY DEF PluginInv, PluginsInvariant, PluginsTypeOK, PluginCallType
<1>2. PICK r : pluginCall' = [pluginCall EXCEPT ![a] = r] /\ PluginCallBecomes(a, r)
  BY PluginWorkMoves
<1>3. pluginCall' \in [Admin -> PluginCallType] /\ pluginCall'[a] = r
      /\ \A b \in Admin : b # a => pluginCall'[b] = pluginCall[b]
  BY <1>1, <1>2 DEF PluginCallBecomes
<1>4. Busy(a) /\ UNCHANGED <<pluginCalls, installRaced, pluginDied>> /\ unmixed = "nothing"
  BY PluginWorkMoves DEF PluginInv, UnmixedIsQuiet
<1>5. plugin' \in State
  BY <1>1 DEF PluginWork, LookForPlugin, WritePlugin, WriteSkillFile, FindItem, PutItem,
     SwitchPlugin, ListItems, SwitchItem, RemoveFile, RemoveItem, RemoveFolder, TryToRemove, DeletePlugin, State, PluginCallShape, PluginCallType, CallAt
<1>6. declared' \in [Item -> State]
  BY <1>1 DEF PluginWork, LookForPlugin, WritePlugin, WriteSkillFile, FindItem, PutItem,
     SwitchPlugin, ListItems, SwitchItem, RemoveFile, RemoveItem, RemoveFolder, TryToRemove, DeletePlugin, State, Item, PluginCallType
<1>7. skillFile' \in BOOLEAN /\ undeleted' \in BOOLEAN
  BY <1>1 DEF PluginWork, LookForPlugin, WritePlugin, WriteSkillFile, FindItem, PutItem,
     SwitchPlugin, ListItems, SwitchItem, RemoveFile, RemoveItem, RemoveFolder, TryToRemove, DeletePlugin
<1>8. pluginGrants' = pluginGrants \/ pluginGrants' = [g \in PluginGrant |-> IF pluginGrants[g] = "unused" THEN "unused" ELSE "gone"]
  BY DEF PluginWork, LookForPlugin, WritePlugin, WriteSkillFile, FindItem, PutItem,
     SwitchPlugin, ListItems, SwitchItem, RemoveFile, RemoveItem, RemoveFolder, TryToRemove, DeletePlugin
<1>9. unmixed' \in {"nothing", "installed", "on", "off", "absent"}
  BY <1>1, <1>4 DEF PluginWork, LookForPlugin, WritePlugin, WriteSkillFile, FindItem, PutItem,
     SwitchPlugin, ListItems, SwitchItem, RemoveFile, RemoveItem, RemoveFolder, TryToRemove, DeletePlugin,
     CallGoes, CallEnds, OnToItems, PastItem, PluginCallType, State
<1>10. PluginsTypeOK'
  <2>1. pluginGrants' \in [PluginGrant -> {"unused", "active", "revoked", "gone"}]
    BY <1>1, <1>8
  <2> QED
    BY <1>3, <1>4, <1>5, <1>6, <1>7, <1>9, <2>1 DEF PluginInv, PluginsInvariant, PluginsTypeOK, PluginCallType
<1>11. GrantsGoWithThePlugin'
  <2>1. plugin' = "absent" => plugin = "absent" \/ DeletePlugin(a)
    BY <1>1 DEF PluginWork, LookForPlugin, WritePlugin, WriteSkillFile, FindItem, PutItem,
     SwitchPlugin, ListItems, SwitchItem, RemoveFile, RemoveItem, RemoveFolder, TryToRemove, DeletePlugin,
       PluginCallShape, CallAt, PluginCallType
  <2>2. CASE DeletePlugin(a)
    BY <1>1, <2>2 DEF GrantsGoWithThePlugin, DeletePlugin
  <2> QED
    BY <1>1, <1>8, <2>1, <2>2 DEF PluginInv, PluginsInvariant, GrantsGoWithThePlugin
<1>12. OrphanNeedsARace'
  <2> SUFFICES ASSUME ~installRaced, plugin' = "absent"
               PROVE  (skillFile' => undeleted') /\ \A i \in Item : declared'[i] = "absent"
    BY <1>4 DEF OrphanNeedsARace
  <2> USE <1>1 DEF PluginCallShape, PluginDoneSoFar, CallAt, PluginCallType, Item
  <2>1. CASE plugin = "absent"
    <3>1. (skillFile => undeleted) /\ \A i \in Item : declared[i] = "absent"
      BY <2>1 DEF PluginInv, PluginsInvariant, OrphanNeedsARace
    <3>2. ~WriteSkillFile(a) /\ ~PutItem(a)
      BY <2>1 DEF WriteSkillFile, PutItem
    <3> QED
      BY <3>1, <3>2 DEF PluginWork, LookForPlugin, WritePlugin, FindItem, SwitchPlugin, ListItems, SwitchItem, RemoveFile,
         RemoveItem, RemoveFolder, TryToRemove, DeletePlugin
  <2>2. CASE plugin # "absent"
    <3>1. DeletePlugin(a)
      BY <2>2 DEF PluginWork, LookForPlugin, WritePlugin, WriteSkillFile, FindItem, PutItem,
     SwitchPlugin, ListItems, SwitchItem, RemoveFile, RemoveItem, RemoveFolder, TryToRemove, DeletePlugin
    <3> QED
      BY <3>1 DEF DeletePlugin
  <2> QED
    BY <2>1, <2>2
<1>13. r.op \in {pluginCall[a].op, "none"} /\ (r.pc # "idle" => r.alone = pluginCall[a].alone)
  BY <1>2 DEF NoCall, PluginCallBecomes
<1>14. PluginAloneIsAlone'
  BY <1>3, <1>4, <1>13 DEF PluginInv, PluginAloneIsAlone, Busy, CallAt
<1>15. InstallMeetsUninstall'
  BY <1>3, <1>4, <1>13 DEF PluginInv, InstallMeetsUninstall
<1>16. UnmixedIsQuiet'
  <2>1. SUFFICES ASSUME unmixed' # "nothing" PROVE \A b \in Admin : ~Busy(b)'
    BY DEF UnmixedIsQuiet
  <2>2. pluginCall[a].alone /\ pluginCall'[a] = NoCall
    BY <1>4, <2>1, PluginWorkMoves
  <2> QED
    BY <1>3, <1>4, <2>2 DEF PluginInv, PluginAloneIsAlone, Busy, CallAt, NoCall
<1>17. \A b \in Admin : (PluginCallShape(b) /\ PluginDoneSoFar(b) /\ SwitchedSoFar(b))'
  <2> TAKE b \in Admin
  <2>1. CASE b = a
    BY <2>1, PluginWorkGoesOn
  <2>2. CASE b # a
    BY <2>2, PluginOthersStay
  <2> QED
    BY <2>1, <2>2
<1> QED
  BY <1>10, <1>11, <1>12, <1>14, <1>15, <1>16, <1>17, PluginEndsAsItSays DEF PluginInv, PluginsInvariant
LEMMA PluginBeginInv ==
  ASSUME PluginInv, NEW a \in Admin,
         NEW op \in {"install", "switch", "uninstall"}, NEW first \in PluginPc, NEW want \in State, NEW wanted \in SUBSET Item,
         CallBegins(a, op, first, want, wanted),
         <<op, first>> \in {<<"install", "look">>, <<"switch", "toggle">>, <<"uninstall", "list">>},
         op = "switch" => want \in {"on", "off"}
  PROVE  PluginInv'
<1> DEFINE others == {b \in Admin : Busy(b)}
           mine == [op |-> op, pc |-> first, item |-> "tool", want |-> want, wanted |-> wanted,
                    seen |-> FALSE, alone |-> others = {}]
<1>1. /\ ~Busy(a) /\ pluginCalls < MaxPluginCalls /\ pluginCalls' = pluginCalls + 1 /\ unmixed' = "nothing"
      /\ pluginCall' = [b \in Admin |-> IF b = a THEN mine ELSE [pluginCall[b] EXCEPT !.alone = ~Busy(b)]]
      /\ installRaced' = (installRaced \/ \E b \in others : {op, pluginCall[b].op} = {"install", "uninstall"})
      /\ UNCHANGED <<plugin, declared, skillFile, undeleted, pluginGrants, pluginDied>>
  BY DEF CallBegins
<1>2. pluginCall \in [Admin -> PluginCallType]
  BY DEF PluginInv, PluginsInvariant, PluginsTypeOK, PluginCallType
<1>3. mine \in PluginCallType /\ mine.op = op /\ mine.pc = first /\ mine.item = "tool" /\ mine.want = want
      /\ mine.seen = FALSE /\ (mine.alone => others = {})
  BY DEF PluginCallType, Item
<1> HIDE DEF mine
<1>4. \A b \in Admin : b # a =>
        LET c == [pluginCall[b] EXCEPT !.alone = ~Busy(b)] IN
        /\ c \in PluginCallType /\ c.op = pluginCall[b].op /\ c.pc = pluginCall[b].pc /\ c.item = pluginCall[b].item
        /\ c.want = pluginCall[b].want /\ c.seen = pluginCall[b].seen /\ (c.alone <=> ~Busy(b))
  BY <1>2 DEF PluginCallType, Busy
<1>5. pluginCall' \in [Admin -> PluginCallType] /\ pluginCall'[a] = mine
      /\ \A b \in Admin : b # a =>
           /\ pluginCall'[b].op = pluginCall[b].op /\ pluginCall'[b].pc = pluginCall[b].pc
           /\ pluginCall'[b].item = pluginCall[b].item
           /\ pluginCall'[b].want = pluginCall[b].want /\ pluginCall'[b].seen = pluginCall[b].seen
           /\ (pluginCall'[b].alone <=> ~Busy(b))
  BY <1>1, <1>3, <1>4
<1>0. installRaced => installRaced'
  BY <1>1
<1>6. PluginsTypeOK'
  <2>1. skillFile' \in BOOLEAN /\ undeleted' \in BOOLEAN /\ installRaced' \in BOOLEAN /\ pluginDied' \in BOOLEAN
    BY <1>1, Zenon DEF PluginInv, PluginsInvariant, PluginsTypeOK
  <2>2. pluginCalls' \in 0..MaxPluginCalls
    BY <1>1, PluginsAssumption DEF PluginInv, PluginsInvariant, PluginsTypeOK
  <2> QED
    BY <1>1, <1>5, <2>1, <2>2 DEF PluginInv, PluginsInvariant, PluginsTypeOK, PluginCallType
<1>7. \A b \in Admin : PluginCallShape(b)'
  BY <1>3, <1>5 DEF PluginInv, PluginCallShape
<1>8. InstallMeetsUninstall'
  <2> SUFFICES ASSUME NEW b \in Admin, NEW c \in Admin, pluginCall'[b].op = "install", pluginCall'[c].op = "uninstall"
               PROVE  installRaced'
    BY DEF InstallMeetsUninstall
  <2>1. \A d \in Admin : pluginCall[d].op # "none" => d \in others
    BY DEF PluginInv, PluginCallShape, Busy, CallAt
  <2>2. CASE b # a /\ c # a
    BY <1>0, <1>5, <2>2 DEF PluginInv, InstallMeetsUninstall
  <2>3. CASE b = a /\ c # a
    <3>1. op = "install" /\ pluginCall[c].op = "uninstall" /\ c \in others
      BY <1>3, <1>5, <2>1, <2>3
    <3> QED
      BY <1>1, <3>1
  <2>4. CASE b # a /\ c = a
    <3>1. op = "uninstall" /\ pluginCall[b].op = "install" /\ b \in others
      BY <1>3, <1>5, <2>1, <2>4
    <3>2. {op, pluginCall[b].op} = {"install", "uninstall"}
      BY <3>1
    <3> QED
      BY <1>1, <3>1, <3>2
  <2> QED
    BY <1>5, <2>2, <2>3, <2>4
<1>9. PluginAloneIsAlone'
  <2> SUFFICES ASSUME NEW b \in Admin, NEW c \in Admin, b # c, Busy(b)', pluginCall'[b].alone PROVE ~Busy(c)'
    BY DEF PluginAloneIsAlone
  <2>1. \A d \in Admin : d # a => (Busy(d)' <=> Busy(d))
    BY <1>5 DEF Busy, CallAt
  <2>2. b = a
    BY <1>5, <2>1
  <2> QED
    BY <1>3, <1>5, <2>1, <2>2
<1>10. \A b \in Admin : (PluginDoneSoFar(b) /\ SwitchedSoFar(b))'
  <2> TAKE b \in Admin
  <2>1. CASE b = a
    BY <1>3, <1>5, <2>1 DEF PluginDoneSoFar, SwitchedSoFar
  <2>2. CASE b # a /\ ~Busy(b)
    BY <1>5, <2>2 DEF PluginInv, PluginCallShape, PluginDoneSoFar, SwitchedSoFar, Busy, CallAt
  <2>3. CASE b # a /\ Busy(b)
    <3>1. PluginDoneSoFar(b) /\ UNCHANGED <<plugin, declared, skillFile, undeleted>>
      BY <1>1 DEF PluginInv
    <3>2. ~pluginCall'[b].alone
      BY <1>5, <2>3
    <3>3. SwitchedSoFar(b)'
      BY <3>2 DEF SwitchedSoFar
    <3>4. PluginDoneSoFar(b)'
      BY <1>0, <1>5, <2>3, <3>1, <3>2 DEF PluginDoneSoFar
    <3> QED
      BY <3>3, <3>4
  <2> QED
    BY <2>1, <2>2, <2>3
<1>11. GrantsGoWithThePlugin' /\ OneRequestCleansUp' /\ OrphanNeedsARace' /\ UnmixedIsQuiet'
  BY <1>1 DEF PluginInv, PluginsInvariant, GrantsGoWithThePlugin, OneRequestCleansUp, OrphanNeedsARace, UnmixedIsQuiet
<1> QED
  BY <1>6, <1>7, <1>8, <1>9, <1>10, <1>11 DEF PluginInv, PluginsInvariant

LEMMA PluginStepInv == PluginInv /\ [PluginsNext]_pluginVars => PluginInv'
<1> SUFFICES ASSUME PluginInv, [PluginsNext]_pluginVars PROVE PluginInv'
  OBVIOUS
<1>1. ASSUME NEW a \in Admin, BeginPluginCall(a) PROVE PluginInv'
  <2>1. {"look", "toggle", "list"} \subseteq PluginPc /\ {"on", "off", "absent"} \subseteq State /\ {} \in SUBSET Item
    BY DEF PluginPc, State
  <2>2. ASSUME NEW wanted \in SUBSET Item, CallBegins(a, "install", "look", "on", wanted) PROVE PluginInv'
    BY <2>1, <2>2, PluginBeginInv
  <2>3. ASSUME NEW want \in {"on", "off"}, CallBegins(a, "switch", "toggle", want, {}) PROVE PluginInv'
    BY <2>1, <2>3, PluginBeginInv
  <2>4. CASE CallBegins(a, "uninstall", "list", "absent", {})
    BY <2>1, <2>4, PluginBeginInv
  <2> QED
    BY <1>1, <2>2, <2>3, <2>4 DEF BeginPluginCall
<1>2. ASSUME NEW a \in Admin, PluginWork(a) PROVE PluginInv'
  BY <1>2, PluginWorkInv
<1> USE DEF PluginInv, PluginsInvariant, PluginsTypeOK, GrantsGoWithThePlugin, OneRequestCleansUp, OrphanNeedsARace,
        PluginAloneIsAlone, InstallMeetsUninstall, UnmixedIsQuiet, PluginCallShape, PluginDoneSoFar, SwitchedSoFar, Busy, CallAt
<1>3. CASE GrantPermission
  <2>1. pluginGrants' \in [PluginGrant -> {"unused", "active", "revoked", "gone"}]
    BY <1>3 DEF GrantPermission
  <2> QED
    BY <1>3, <2>1 DEF GrantPermission
<1>4. CASE RevokePermission
  <2>1. pluginGrants' \in [PluginGrant -> {"unused", "active", "revoked", "gone"}] /\ plugin # "absent"
    BY <1>4 DEF RevokePermission
  <2> QED
    BY <1>4, <2>1 DEF RevokePermission
<1>5. CASE PluginApiDies
  <2>1. NoCall \in PluginCallType
    BY DEF NoCall, PluginCallType, PluginPc, Item, State
  <2>2. pluginCall' \in [Admin -> PluginCallType] /\ \A a \in Admin : pluginCall'[a] = NoCall
    BY <1>5, <2>1 DEF PluginApiDies
  <2>3. PluginsTypeOK'
    BY <1>5, <2>2 DEF PluginApiDies, PluginCallType
  <2> QED
    BY <1>5, <2>2, <2>3 DEF PluginApiDies, NoCall
<1>6. CASE UNCHANGED pluginVars
  BY <1>6 DEF pluginVars
<1> QED
  BY <1>1, <1>2, <1>3, <1>4, <1>5, <1>6 DEF PluginsNext, PluginWork
-----------------------------------------------------------------------------
(***************************************************************************)
(* The configuration of a plugin.  Again a request that runs alone finds   *)
(* what it did as it left it; and while no uninstall met a save or a reset *)
(* there is none of them once the plugin is gone.  That revisions stay     *)
(* within their bound needs a count: every request under way may still     *)
(* write once.                                                             *)
(***************************************************************************)
WorkingCallers == {c \in Caller : Working(c)}

RowIsCounted(row, pending, made) ==
  /\ row \in ConfigRow /\ (row.id = 0 => row = NoRow)
  /\ row.revision + pending <= made

RequestShape(c) ==
  /\ request[c].pc = "idle" => request[c] = Idle
  /\ request[c].pc # "idle" => request[c].op # "none"
  /\ request[c].pc = "secret" => request[c].op = "save" /\ request[c].secret \in {"set", "clear"}
  /\ request[c].pc = "put" => request[c].op = "save" /\ request[c].secret = "set"
  /\ request[c].pc \in {"check", "write"} => request[c].op \in {"save", "reset"}
  /\ request[c].pc = "secrets" => request[c].op \in {"reset", "uninstall"}
  /\ request[c].pc \in {"configs", "gone"} => request[c].op = "uninstall"

\* Of a save or a reset that runs alone.
RequestDoneSoFar(c) ==
  request[c].alone =>
    /\ request[c].pc = "put" /\ request[c].seen => MyTenant(c) \in secrets
    /\ request[c].pc \in {"check", "write"} =>
         /\ request[c].op = "save" /\ request[c].secret = "set" => MyTenant(c) \in secrets
         /\ request[c].op = "save" /\ request[c].secret = "clear" => MyTenant(c) \notin secrets
         /\ request[c].op = "reset" => MyTenant(c) \notin secrets
    /\ request[c].pc = "write" =>
         /\ request[c].stored = config[MyTenant(c)]
         /\ request[c].op = "save" /\ request[c].stored # NoRow => request[c].stored.revision = request[c].expected

\* Of an uninstall that met none of them.
CleanedSoFar(c) ==
  ~cleanRaced =>
    /\ request[c].pc \in {"secrets", "gone"} /\ request[c].op = "uninstall" => \A t \in Tenant : config[t] = NoRow
    /\ request[c].pc = "gone" => secrets = {}

RequestAloneIsAlone ==
  \A c, d \in Caller : c # d /\ Working(c) /\ request[c].alone => ~Working(d)
UninstallMeetsOthers ==
  \A c, d \in Caller : request[c].op = "uninstall" /\ request[d].op \in {"save", "reset"} => cleanRaced
GoneIsQuiet == ~ready /\ ~cleanRaced => \A c \in Caller : request[c].op \notin {"save", "reset"}
SettledIsQuiet == settled.op # "none" => \A c \in Caller : ~Working(c)
RequestsAreCounted ==
  /\ IsFiniteSet(WorkingCallers) /\ madeRows + Cardinality(WorkingCallers) <= requests
  /\ \A t \in Tenant : RowIsCounted(config[t], Cardinality(WorkingCallers), requests)
  /\ \A c \in Caller : RowIsCounted(request[c].stored, Cardinality(WorkingCallers), requests)

ConfigInv ==
  /\ PluginConfigInvariant /\ RequestsAreCounted /\ RequestAloneIsAlone /\ UninstallMeetsOthers
  /\ GoneIsQuiet /\ SettledIsQuiet
  /\ \A c \in Caller : RequestShape(c) /\ RequestDoneSoFar(c) /\ CleanedSoFar(c)

ConfigWork(c) ==
  \/ ClearSecret(c) \/ LookForSecret(c) \/ PutSecret(c)
  \/ CheckRevision(c) \/ WriteConfig(c) \/ DeleteConfigs(c) \/ DeleteSecrets(c) \/ PluginIsGone(c)

LEMMA SomeoneIsThere == Someone \in Tenant /\ NoRow \in ConfigRow /\ Idle \in Request /\ Unsettled.op = "none"
<1>1. \E t : t \in Tenant
  BY PluginConfigAssumption
<1>2. Someone \in Tenant
  BY <1>1 DEF Someone
<1>3. NoRow \in ConfigRow
  BY PluginConfigAssumption DEF NoRow, ConfigRow
<1> QED
  BY <1>2, <1>3, PluginConfigAssumption DEF Idle, Request, Unsettled

LEMMA ConfigInitInv == PluginConfigInit => ConfigInv
<1> SUFFICES ASSUME PluginConfigInit PROVE ConfigInv
  OBVIOUS
<1>1. \A c \in Caller : request[c] = Idle
  BY DEF PluginConfigInit
<1>2. PluginConfigTypeOK
  <2>1. config \in [Tenant -> ConfigRow] /\ request \in [Caller -> Request]
    BY SomeoneIsThere DEF PluginConfigInit
  <2>2. settled \in [op : {"none", "save", "reset", "uninstall"}, tenant : Tenant, ok : BOOLEAN,
                  secret : {"keep", "set", "clear"}, expected : 0..MaxConfigCalls, stored : ConfigRow]
    BY SomeoneIsThere, PluginConfigAssumption DEF PluginConfigInit, Unsettled
  <2>3. ready \in BOOLEAN /\ secrets \subseteq Tenant /\ cleanRaced \in BOOLEAN /\ configDied \in BOOLEAN
    BY DEF PluginConfigInit
  <2>4. madeRows \in 0..MaxConfigCalls /\ requests \in 0..MaxConfigCalls
    BY PluginConfigAssumption DEF PluginConfigInit
  <2> QED
    BY <2>1, <2>2, <2>3, <2>4 DEF PluginConfigTypeOK
<1>3. \A c \in Caller : ~Working(c) /\ request[c].op = "none" /\ request[c].stored = NoRow /\ request[c].pc = "idle"
  BY <1>1 DEF Idle, Working, RequestAt
<1>4. WorkingCallers = {} /\ IsFiniteSet(WorkingCallers) /\ Cardinality(WorkingCallers) = 0
  BY <1>3, FS_EmptySet DEF WorkingCallers
<1>5. RowIsCounted(NoRow, Cardinality(WorkingCallers), requests)
  BY <1>4, SomeoneIsThere DEF RowIsCounted, NoRow, PluginConfigInit
<1>6. RequestsAreCounted
  BY <1>3, <1>4, <1>5 DEF RequestsAreCounted, PluginConfigInit
<1>7. \A c \in Caller : RequestShape(c) /\ RequestDoneSoFar(c) /\ CleanedSoFar(c)
  BY <1>1, <1>3 DEF RequestShape, RequestDoneSoFar, CleanedSoFar
<1>8. OneRequestCounts /\ LeftoverNeedsARace /\ GoneIsQuiet /\ SettledIsQuiet
  BY SomeoneIsThere DEF PluginConfigInit, OneRequestCounts, LeftoverNeedsARace, GoneIsQuiet, SettledIsQuiet
<1>9. RequestAloneIsAlone /\ UninstallMeetsOthers
  BY <1>3 DEF RequestAloneIsAlone, UninstallMeetsOthers
<1> QED
  BY <1>2, <1>6, <1>7, <1>8, <1>9 DEF ConfigInv, PluginConfigInvariant

\* A request that works changes its own record only, keeps what it was asked, and ends,
\* if it ends, with what counts when it was alone.
RequestBecomes(c, r) ==
  \/ r = Idle
  \/ /\ r \in Request /\ r.pc # "idle" /\ r.op = request[c].op /\ r.tenant = request[c].tenant /\ r.alone = request[c].alone
     /\ r.expected = request[c].expected /\ r.secret = request[c].secret
     /\ r.stored \in {request[c].stored, config[MyTenant(c)]}

LEMMA ConfigWorkMoves ==
  ASSUME ConfigInv, NEW c \in Caller, ConfigWork(c)
  PROVE  /\ \E r : request' = [request EXCEPT ![c] = r] /\ RequestBecomes(c, r)
         /\ Working(c) /\ UNCHANGED <<requests, cleanRaced, configDied>>
         /\ settled' = settled \/ settled' = Unsettled \/ (request[c].alone /\ request'[c] = Idle)
<1>1. request \in [Caller -> Request] /\ config \in [Tenant -> ConfigRow]
  BY DEF ConfigInv, PluginConfigInvariant, PluginConfigTypeOK
<1>2. request[c] \in Request /\ RequestBecomes(c, Idle) /\ MyTenant(c) \in Tenant
  BY <1>1 DEF RequestBecomes, Request, MyTenant
<1>3. \A pc \in {"secret", "put", "check", "write", "secrets", "configs", "gone"} :
        RequestBecomes(c, [request[c] EXCEPT !.pc = pc])
  BY <1>2 DEF RequestBecomes, Request
<1>4. RequestBecomes(c, [request[c] EXCEPT !.seen = (MyTenant(c) \in secrets), !.pc = "put"])
  <2>1. \A s \in BOOLEAN : RequestBecomes(c, [request[c] EXCEPT !.seen = s, !.pc = "put"])
    BY <1>2 DEF RequestBecomes, Request
  <2>2. (MyTenant(c) \in secrets) \in BOOLEAN
    OBVIOUS
  <2> QED
    BY <2>1, <2>2, Zenon
<1>5. RequestBecomes(c, [request[c] EXCEPT !.stored = config[MyTenant(c)], !.pc = "write"])
  BY <1>1, <1>2 DEF RequestBecomes, Request
<1> USE <1>1, <1>2, <1>3, <1>4, <1>5 DEF Working, RequestAt, RequestGoes, RequestEnds
<1>6. CASE ClearSecret(c)
  BY <1>6 DEF ClearSecret
<1>7. CASE LookForSecret(c)
  BY <1>7 DEF LookForSecret
<1>8. CASE PutSecret(c)
  BY <1>8 DEF PutSecret
<1>9. CASE CheckRevision(c)
  BY <1>9 DEF CheckRevision
<1>10. CASE WriteConfig(c)
  BY <1>10 DEF WriteConfig
<1>11. CASE DeleteConfigs(c)
  BY <1>11 DEF DeleteConfigs
<1>12. CASE DeleteSecrets(c)
  BY <1>12 DEF DeleteSecrets
<1>13. CASE PluginIsGone(c)
  BY <1>13 DEF PluginIsGone
<1> QED
  BY <1>6, <1>7, <1>8, <1>9, <1>10, <1>11, <1>12, <1>13 DEF ConfigWork

\* What its step leaves behind of it.
LEMMA ConfigWorkGoesOn ==
  ASSUME ConfigInv, NEW c \in Caller, ConfigWork(c)
  PROVE  (RequestShape(c) /\ RequestDoneSoFar(c) /\ CleanedSoFar(c))'
<1>1. request \in [Caller -> Request] /\ config \in [Tenant -> ConfigRow] /\ cleanRaced \in BOOLEAN
      /\ request[c] \in Request /\ RequestShape(c) /\ RequestDoneSoFar(c) /\ CleanedSoFar(c)
  BY DEF ConfigInv, PluginConfigInvariant, PluginConfigTypeOK
<1>2. MyTenant(c) \in Tenant
  BY <1>1 DEF MyTenant, Request
<1>3. CASE request'[c] = Idle
  BY <1>3, SMTT(60) DEF RequestShape, RequestDoneSoFar, CleanedSoFar, Idle
<1>4. CASE request'[c] # Idle
  <2> USE <1>1, <1>2, <1>4 DEF RequestShape, RequestDoneSoFar, CleanedSoFar, MyTenant, RequestAt, RequestGoes, RequestEnds, Request
  <2>1. CASE ClearSecret(c)
    BY <2>1 DEF ClearSecret
  <2>2. CASE LookForSecret(c)
    <3>1. request'[c] = [request[c] EXCEPT !.seen = MyTenant(c) \in secrets, !.pc = "put"] /\ request[c].pc = "secret"
          /\ request[c].secret = "set" /\ UNCHANGED <<config, secrets, cleanRaced>>
      BY <2>2 DEF LookForSecret
    <3>2. request'[c].seen = (MyTenant(c) \in secrets) /\ request'[c].pc = "put" /\ request'[c].op = request[c].op
          /\ request'[c].secret = request[c].secret /\ request'[c].tenant = request[c].tenant
      BY <3>1
    <3>3. request'[c].seen => MyTenant(c) \in secrets
      BY <3>2, Zenon
    <3> QED
      BY <3>1, <3>2, <3>3
  <2>3. CASE PutSecret(c)
    BY <2>3 DEF PutSecret
  <2>4. CASE CheckRevision(c)
    <3>1. /\ request'[c] = [request[c] EXCEPT !.stored = config[MyTenant(c)], !.pc = "write"]
          /\ request[c].pc = "check" /\ UNCHANGED <<config, secrets, cleanRaced>>
          /\ request[c].op = "save" /\ config[MyTenant(c)] # NoRow => config[MyTenant(c)].revision = request[c].expected
      BY <2>4 DEF CheckRevision
    <3>2. /\ request'[c].pc = "write" /\ request'[c].stored = config[MyTenant(c)] /\ request'[c].op = request[c].op
          /\ request'[c].secret = request[c].secret /\ request'[c].tenant = request[c].tenant
          /\ request'[c].expected = request[c].expected /\ request'[c].alone = request[c].alone
      BY <3>1
    <3> QED
      BY <3>1, <3>2
  <2>5. CASE WriteConfig(c)
    BY <2>5 DEF WriteConfig
  <2>6. CASE DeleteConfigs(c)
    BY <2>6 DEF DeleteConfigs
  <2>7. CASE DeleteSecrets(c)
    <3>1. secrets' = {} /\ UNCHANGED <<config, cleanRaced>> /\ request[c].pc = "secrets"
          /\ \/ request[c].op = "reset" /\ request'[c] = [request[c] EXCEPT !.pc = "check"]
             \/ request[c].op = "uninstall" /\ request'[c] = [request[c] EXCEPT !.pc = "gone"]
      BY <2>7 DEF DeleteSecrets
    <3> QED
      BY <3>1
  <2>8. CASE PluginIsGone(c)
    BY <2>8 DEF PluginIsGone
  <2> QED
    BY <2>1, <2>2, <2>3, <2>4, <2>5, <2>6, <2>7, <2>8 DEF ConfigWork
<1> QED
  BY <1>3, <1>4

\* And of the others: one that runs alone meets none that works.
LEMMA ConfigOthersStay ==
  ASSUME ConfigInv, NEW c \in Caller, ConfigWork(c), NEW d \in Caller, d # c
  PROVE  (RequestShape(d) /\ RequestDoneSoFar(d) /\ CleanedSoFar(d))'
<1>1. request'[d] = request[d] /\ cleanRaced' = cleanRaced /\ Working(c)
  BY ConfigWorkMoves DEF ConfigInv, PluginConfigInvariant, PluginConfigTypeOK
<1>2. RequestShape(c) /\ RequestShape(d) /\ CleanedSoFar(d) /\ request[c] \in Request
  BY DEF ConfigInv, PluginConfigInvariant, PluginConfigTypeOK
<1>3. RequestShape(d)'
  BY <1>1, <1>2 DEF RequestShape
<1>4. RequestDoneSoFar(d)'
  <2>1. Working(d) => ~request[d].alone
    BY <1>1 DEF ConfigInv, RequestAloneIsAlone
  <2> QED
    BY <1>1, <2>1 DEF RequestDoneSoFar, Working, RequestAt
<1>5. CleanedSoFar(d)'
  <2> SUFFICES ASSUME ~cleanRaced, request[d].pc \in {"secrets", "gone"}, request[d].op = "uninstall" PROVE CleanedSoFar(d)'
    BY <1>1, <1>2 DEF CleanedSoFar, RequestShape
  <2>1. request[c].op = "uninstall"
    BY <1>1, <1>2 DEF ConfigInv, UninstallMeetsOthers, RequestShape, Working, RequestAt, Request
  <2>2. (config' = config \/ config' = [t \in Tenant |-> NoRow]) /\ (secrets' = secrets \/ secrets' = {})
    BY <1>2, <2>1 DEF ConfigWork, RequestShape, ClearSecret, LookForSecret, PutSecret, CheckRevision, WriteConfig, DeleteConfigs,
       DeleteSecrets, PluginIsGone, RequestAt
  <2> QED
    BY <1>1, <1>2, <2>2 DEF CleanedSoFar
<1> QED
  BY <1>3, <1>4, <1>5

\* What is so once the request has ended, when it was alone.
LEMMA ConfigEndsAsItSays ==
  ASSUME ConfigInv, NEW c \in Caller, ConfigWork(c) PROVE OneRequestCounts'
<1>1. request \in [Caller -> Request] /\ config \in [Tenant -> ConfigRow] /\ request[c] \in Request
      /\ RequestShape(c) /\ RequestDoneSoFar(c) /\ Working(c) /\ MyTenant(c) \in Tenant
      /\ RowIsCounted(config[MyTenant(c)], Cardinality(WorkingCallers), requests)
  BY ConfigWorkMoves DEF ConfigInv, PluginConfigInvariant, PluginConfigTypeOK, RequestsAreCounted, MyTenant, Request
<1>2. CASE settled' = settled
  <2>1. settled.op = "none"
    BY <1>1 DEF ConfigInv, SettledIsQuiet
  <2> QED
    BY <1>2, <2>1 DEF OneRequestCounts
<1>3. CASE settled' = Unsettled
  BY <1>3, SomeoneIsThere DEF OneRequestCounts
<1>4. CASE request[c].alone /\ request'[c] = Idle /\ settled' # settled /\ settled' # Unsettled
  <2>1. \/ CheckRevision(c) \/ WriteConfig(c) \/ PluginIsGone(c)
    BY <1>4 DEF ConfigWork, ClearSecret, LookForSecret, PutSecret, DeleteConfigs, DeleteSecrets, RequestGoes
  <2>2. \A ok \in BOOLEAN : RequestEnds(c, ok) =>
          /\ settled'.op = request[c].op /\ settled'.tenant = MyTenant(c) /\ settled'.ok = ok /\ settled'.secret = request[c].secret
          /\ settled'.expected = request[c].expected /\ settled'.stored = request[c].stored
    BY <1>4 DEF RequestEnds
  <2>3. CASE CheckRevision(c)
    <3>1. RequestEnds(c, FALSE) /\ request[c].op = "save" /\ config[MyTenant(c)].revision # request[c].expected /\ config' = config
      BY <1>4, <2>3 DEF CheckRevision
    <3> QED
      BY <2>2, <3>1 DEF OneRequestCounts
  <2>4. CASE WriteConfig(c)
    <3>1. request[c].stored = config[MyTenant(c)] /\ secrets' = secrets /\ request[c].op \in {"save", "reset"}
      BY <1>1, <1>4, <2>4 DEF WriteConfig, RequestAt, RequestDoneSoFar, RequestShape
    <3>2. RequestEnds(c, TRUE)
      BY <1>1, <2>4, <3>1 DEF WriteConfig, RowIsCounted
    <3>3. config'[MyTenant(c)].revision = (IF request[c].stored.id = 0 THEN 1 ELSE request[c].stored.revision + 1)
          /\ config'[MyTenant(c)].own = (request[c].op = "save")
      <4>1. request[c].stored \in ConfigRow /\ (request[c].stored.id = 0 => config[MyTenant(c)] = NoRow)
            /\ config[MyTenant(c)].id = request[c].stored.id
        BY <1>1, <3>1 DEF RowIsCounted
      <4>2. CASE request[c].stored.id = 0
        BY <1>1, <2>4, <4>1, <4>2 DEF WriteConfig
      <4>3. CASE request[c].stored.id # 0
        <5>1. \A row \in ConfigRow, n \in Nat, own \in BOOLEAN :
                LET q == [row EXCEPT !.revision = n, !.own = own] IN q.revision = n /\ q.own = own
          BY DEF ConfigRow
        <5>2. config' = [config EXCEPT ![MyTenant(c)] =
                           [request[c].stored EXCEPT !.revision = request[c].stored.revision + 1, !.own = (request[c].op = "save")]]
          BY <2>4, <4>1, <4>3 DEF WriteConfig
        <5>3. request[c].stored.revision + 1 \in Nat /\ (request[c].op = "save") \in BOOLEAN
          BY <4>1 DEF ConfigRow
        <5> QED
          BY <1>1, <4>1, <4>3, <5>1, <5>2, <5>3
      <4> QED
        BY <4>2, <4>3
    <3>4. request[c].op = "save" => config'[MyTenant(c)].own
      BY <3>3, Zenon
    <3>5. request[c].op = "reset" => ~config'[MyTenant(c)].own
      BY <3>3
    <3>6. request[c].stored.id = 0 => request[c].stored.revision = 0
      BY <1>1, <3>1 DEF RowIsCounted, NoRow
    <3>7. request[c].op = "save" /\ request[c].stored.id # 0 => request[c].stored.revision = request[c].expected
      BY <1>1, <1>4, <2>4 DEF WriteConfig, RequestAt, RequestDoneSoFar, NoRow
    <3>8. /\ request[c].op = "save" /\ request[c].secret = "set" => MyTenant(c) \in secrets
          /\ request[c].op = "save" /\ request[c].secret = "clear" => MyTenant(c) \notin secrets
          /\ request[c].op = "reset" => MyTenant(c) \notin secrets
      BY <1>1, <1>4, <2>4 DEF WriteConfig, RequestAt, RequestDoneSoFar
    <3>9. settled'.op = request[c].op /\ settled'.tenant = MyTenant(c) /\ settled'.ok = TRUE /\ settled'.secret = request[c].secret
          /\ settled'.expected = request[c].expected /\ settled'.stored = request[c].stored
      BY <2>2, <3>2
    <3>10. CASE request[c].op = "save"
      BY <3>1, <3>3, <3>4, <3>6, <3>7, <3>8, <3>9, <3>10 DEF OneRequestCounts
    <3>11. CASE request[c].op = "reset"
      BY <3>1, <3>3, <3>5, <3>6, <3>8, <3>9, <3>11 DEF OneRequestCounts
    <3> QED
      BY <3>1, <3>10, <3>11
  <2>5. CASE PluginIsGone(c)
    BY <1>1, <2>2, <2>5 DEF PluginIsGone, RequestShape, RequestAt, OneRequestCounts
  <2> QED
    BY <2>1, <2>3, <2>4, <2>5
<1> QED
  BY <1>2, <1>3, <1>4, ConfigWorkMoves

LEMMA FewerIsCounted ==
  ASSUME NEW row, NEW n \in Nat, NEW m \in Nat, NEW N \in Nat, NEW M \in Nat, RowIsCounted(row, n, N), M - m >= N - n
  PROVE  RowIsCounted(row, m, M)
  BY PluginConfigAssumption DEF RowIsCounted, ConfigRow

\* A request that ends leaves one less that may write.
LEMMA ConfigCountMoves ==
  ASSUME ConfigInv, NEW c \in Caller, ConfigWork(c)
  PROVE  /\ IsFiniteSet(WorkingCallers') /\ Cardinality(WorkingCallers') \in Nat /\ Cardinality(WorkingCallers) \in Nat
         /\ Cardinality(WorkingCallers') <= Cardinality(WorkingCallers)
         /\ request'[c] = Idle => Cardinality(WorkingCallers') = Cardinality(WorkingCallers) - 1
<1>1. PICK r : request' = [request EXCEPT ![c] = r] /\ RequestBecomes(c, r)
  BY ConfigWorkMoves
<1>2. request \in [Caller -> Request] /\ Working(c) /\ IsFiniteSet(WorkingCallers) /\ c \in WorkingCallers
  BY ConfigWorkMoves DEF ConfigInv, PluginConfigInvariant, PluginConfigTypeOK, RequestsAreCounted, WorkingCallers
<1>3. request'[c] = r /\ \A d \in Caller : d # c => request'[d] = request[d]
  BY <1>1, <1>2
<1>4. Cardinality(WorkingCallers) \in Nat /\ IsFiniteSet(WorkingCallers \ {c})
      /\ Cardinality(WorkingCallers \ {c}) = Cardinality(WorkingCallers) - 1
  BY <1>2, FS_RemoveElement, FS_CardinalityType
<1>5. CASE r = Idle
  <2>1. WorkingCallers' = WorkingCallers \ {c}
    BY <1>3, <1>5 DEF WorkingCallers, Working, RequestAt, Idle
  <2> QED
    BY <1>4, <2>1, FS_CardinalityType
<1>6. CASE r # Idle
  <2>1. WorkingCallers' = WorkingCallers
    BY <1>1, <1>2, <1>3, <1>6 DEF WorkingCallers, Working, RequestAt, RequestBecomes
  <2> QED
    BY <1>2, <1>3, <1>4, <1>6, <2>1
<1> QED
  BY <1>5, <1>6

LEMMA ConfigWorkInv ==
  ASSUME ConfigInv, NEW c \in Caller, ConfigWork(c) PROVE ConfigInv'
<1>1. /\ request \in [Caller -> Request] /\ config \in [Tenant -> ConfigRow] /\ request[c] \in Request /\ secrets \subseteq Tenant
      /\ madeRows \in 0..MaxConfigCalls /\ requests \in 0..MaxConfigCalls /\ ready \in BOOLEAN
      /\ MyTenant(c) \in Tenant /\ RequestShape(c) /\ CleanedSoFar(c)
      /\ madeRows + Cardinality(WorkingCallers) <= requests /\ MaxConfigCalls \in Nat
      /\ (\A t \in Tenant : RowIsCounted(config[t], Cardinality(WorkingCallers), requests))
      /\ RowIsCounted(request[c].stored, Cardinality(WorkingCallers), requests)
  BY PluginConfigAssumption DEF ConfigInv, PluginConfigInvariant, PluginConfigTypeOK, RequestsAreCounted, MyTenant, Request
<1>2. PICK r : request' = [request EXCEPT ![c] = r] /\ RequestBecomes(c, r)
  BY ConfigWorkMoves
<1>3. Idle \in Request /\ Idle.stored = NoRow /\ Idle.op = "none" /\ Idle.pc = "idle"
  BY SomeoneIsThere DEF Idle
<1>4. r \in Request /\ r.op \in {request[c].op, "none"} /\ (r.pc # "idle" => r.alone = request[c].alone)
      /\ r.stored \in {request[c].stored, config[MyTenant(c)], NoRow}
  BY <1>2, <1>3 DEF RequestBecomes
<1>5. request' \in [Caller -> Request] /\ request'[c] = r /\ \A d \in Caller : d # c => request'[d] = request[d]
  BY <1>1, <1>2, <1>4
<1>6. Working(c) /\ UNCHANGED <<requests, cleanRaced, configDied>> /\ settled.op = "none"
  BY ConfigWorkMoves DEF ConfigInv, SettledIsQuiet
<1>7. IsFiniteSet(WorkingCallers') /\ Cardinality(WorkingCallers') \in Nat /\ Cardinality(WorkingCallers) \in Nat
      /\ Cardinality(WorkingCallers') <= Cardinality(WorkingCallers)
      /\ (request'[c] = Idle => Cardinality(WorkingCallers') = Cardinality(WorkingCallers) - 1)
  BY ConfigCountMoves
<1> DEFINE before == Cardinality(WorkingCallers)
           after == Cardinality(WorkingCallers')
<1>8. \A row : RowIsCounted(row, before, requests) => RowIsCounted(row, after, requests)
  BY <1>1, <1>7, FewerIsCounted
<1>9. RowIsCounted(NoRow, before, requests)
  <2>1. before <= requests
    BY <1>1, <1>7
  <2> QED
    BY <2>1, <1>1, <1>7, SomeoneIsThere DEF RowIsCounted, NoRow
\* What is written has one more than what was read, and its request is no longer there.
<1>10. \/ config' = config /\ madeRows' = madeRows
       \/ config' = [t \in Tenant |-> NoRow] /\ madeRows' = madeRows
       \/ \E row \in ConfigRow :
            /\ config' = [config EXCEPT ![MyTenant(c)] = row] /\ RowIsCounted(row, after, requests)
            /\ madeRows' \in {madeRows, madeRows + 1} /\ madeRows' + after <= requests
  <2>1. CASE WriteConfig(c) /\ config' # config
    <3>1. request'[c] = Idle
      BY <1>1, <2>1 DEF WriteConfig, RequestEnds
    <3>2. after = before - 1
      BY <1>7, <3>1
    <3>3. \E mine \in BOOLEAN :
            \/ /\ config' = [config EXCEPT ![MyTenant(c)] = [id |-> madeRows + 1, revision |-> 1, own |-> mine]]
               /\ madeRows' = madeRows + 1
            \/ /\ config' = [config EXCEPT ![MyTenant(c)] =
                     [request[c].stored EXCEPT !.revision = request[c].stored.revision + 1, !.own = mine]]
               /\ madeRows' = madeRows /\ request[c].stored.id # 0
      <4>1. (request[c].op = "save") \in BOOLEAN
        OBVIOUS
      <4> QED
        BY <2>1, <4>1 DEF WriteConfig
    <3>4. ASSUME NEW mine \in BOOLEAN
          PROVE  LET row == [id |-> madeRows + 1, revision |-> 1, own |-> mine] IN
                 row \in ConfigRow /\ RowIsCounted(row, after, requests) /\ madeRows + 1 + after <= requests
      <4>1. madeRows + 1 \in 1..MaxConfigCalls /\ 1 \in 0..MaxConfigCalls /\ 1 + after <= requests
        BY <1>1, <1>7, <3>2
      <4> QED
        BY <1>1, <1>6, <1>7, <3>2, <4>1 DEF RowIsCounted, ConfigRow
    <3>5. ASSUME NEW mine \in BOOLEAN, request[c].stored.id # 0
          PROVE  LET row == [request[c].stored EXCEPT !.revision = request[c].stored.revision + 1, !.own = mine] IN
                 row \in ConfigRow /\ RowIsCounted(row, after, requests)
      <4>1. request[c].stored \in ConfigRow /\ request[c].stored.revision + 1 \in 0..MaxConfigCalls
            /\ request[c].stored.revision + 1 + after <= requests
        BY <1>1, <1>7, <3>2 DEF RowIsCounted, ConfigRow
      <4> QED
        BY <1>6, <3>5, <4>1 DEF RowIsCounted, ConfigRow
    <3>6. madeRows + after <= requests
      BY <1>1, <1>7
    <3> QED
      BY <3>3, <3>4, <3>5, <3>6
  <2>2. CASE ~WriteConfig(c)
    BY <2>2 DEF ConfigWork, ClearSecret, LookForSecret, PutSecret, CheckRevision, DeleteConfigs, DeleteSecrets, PluginIsGone
  <2>3. CASE WriteConfig(c) /\ config' = config
    <3>1. madeRows' = madeRows \/ (madeRows' = madeRows + 1 /\ request'[c] = Idle)
      BY <1>1, <2>3 DEF WriteConfig, RequestEnds
    <3>2. config' = [config EXCEPT ![MyTenant(c)] = config[MyTenant(c)]] /\ config[MyTenant(c)] \in ConfigRow
      BY <1>1, <2>3
    <3>3. madeRows' + after <= requests
      BY <1>1, <1>7, <3>1
    <3> QED
      BY <1>1, <1>8, <3>1, <3>2, <3>3
  <2> QED
    BY <2>1, <2>2, <2>3, SMTT(60)
<1>11. config' \in [Tenant -> ConfigRow] /\ madeRows' \in 0..MaxConfigCalls /\ madeRows' + after <= requests
       /\ \A t \in Tenant : RowIsCounted(config'[t], after, requests)
  <2>1. NoRow \in ConfigRow
    BY SomeoneIsThere
  <2>2. CASE config' = config /\ madeRows' = madeRows
    BY <1>1, <1>7, <1>8, <2>2
  <2>3. CASE config' = [t \in Tenant |-> NoRow] /\ madeRows' = madeRows
    BY <1>1, <1>7, <1>8, <1>9, <2>1, <2>3
  <2>4. ASSUME NEW row \in ConfigRow, config' = [config EXCEPT ![MyTenant(c)] = row], RowIsCounted(row, after, requests),
               madeRows' \in {madeRows, madeRows + 1}, madeRows' + after <= requests
        PROVE  config' \in [Tenant -> ConfigRow] /\ madeRows' \in 0..MaxConfigCalls
               /\ (madeRows' + after <= requests) /\ \A t \in Tenant : RowIsCounted(config'[t], after, requests)
    BY <1>1, <1>7, <1>8, <2>4
  <2> QED
    BY <1>10, <2>2, <2>3, <2>4
<1>12. RequestsAreCounted'
  <2>1. \A d \in Caller : RowIsCounted(request'[d].stored, after, requests)
    <3>1. RowIsCounted(r.stored, before, requests)
      BY <1>1, <1>4, <1>9
    <3> QED
      BY <1>5, <1>8, <3>1 DEF ConfigInv, RequestsAreCounted
  <2> QED
    BY <1>6, <1>7, <1>11, <2>1 DEF RequestsAreCounted
<1>13. PluginConfigTypeOK'
  <2>1. secrets' \subseteq Tenant /\ ready' \in BOOLEAN
    BY <1>1 DEF ConfigWork, ClearSecret, LookForSecret, PutSecret, CheckRevision, WriteConfig, DeleteConfigs,
       DeleteSecrets, PluginIsGone
  <2>2. settled' \in [op : {"none", "save", "reset", "uninstall"}, tenant : Tenant, ok : BOOLEAN,
                  secret : {"keep", "set", "clear"}, expected : 0..MaxConfigCalls, stored : ConfigRow]
    <3> DEFINE Settled == [op : {"none", "save", "reset", "uninstall"}, tenant : Tenant, ok : BOOLEAN,
                  secret : {"keep", "set", "clear"}, expected : 0..MaxConfigCalls, stored : ConfigRow]
    <3>1. settled \in Settled
      BY DEF ConfigInv, PluginConfigInvariant, PluginConfigTypeOK
    <3>2. Unsettled \in Settled
      BY SomeoneIsThere, PluginConfigAssumption DEF Unsettled
    <3>3. \A ok \in BOOLEAN : RequestEnds(c, ok) => settled' \in Settled
      BY <1>1, <3>2 DEF RequestEnds, Request
    <3>4. settled' = settled \/ RequestEnds(c, TRUE) \/ RequestEnds(c, FALSE)
      BY DEF ConfigWork, ClearSecret, LookForSecret, PutSecret, CheckRevision, WriteConfig, DeleteConfigs,
         DeleteSecrets, PluginIsGone, RequestGoes
    <3> QED
      BY <3>1, <3>3, <3>4
  <2> QED
    BY <1>5, <1>6, <1>11, <2>1, <2>2 DEF ConfigInv, PluginConfigInvariant, PluginConfigTypeOK
<1>14. RequestAloneIsAlone'
  BY <1>4, <1>5, <1>6 DEF ConfigInv, RequestAloneIsAlone, Working, RequestAt
<1>15. UninstallMeetsOthers'
  BY <1>4, <1>5, <1>6 DEF ConfigInv, UninstallMeetsOthers
<1>16. PluginIsGone(c) \/ ready' = ready
  BY DEF ConfigWork, ClearSecret, LookForSecret, PutSecret, CheckRevision, WriteConfig, DeleteConfigs, DeleteSecrets
<1>17. GoneIsQuiet'
  <2>1. CASE PluginIsGone(c)
    <3>1. request[c].op = "uninstall"
      BY <1>1, <2>1 DEF PluginIsGone, RequestShape, RequestAt
    <3> QED
      BY <1>4, <1>5, <1>6, <3>1 DEF ConfigInv, UninstallMeetsOthers, GoneIsQuiet
  <2>2. CASE ready' = ready
    BY <1>4, <1>5, <1>6, <2>2 DEF ConfigInv, GoneIsQuiet
  <2> QED
    BY <1>16, <2>1, <2>2
<1>18. SettledIsQuiet'
  <2> SUFFICES ASSUME settled'.op # "none" PROVE \A d \in Caller : ~Working(d)'
    BY DEF SettledIsQuiet
  <2>1. request[c].alone /\ request'[c] = Idle
    BY <1>6, ConfigWorkMoves, SomeoneIsThere
  <2> QED
    BY <1>3, <1>5, <1>6, <2>1 DEF ConfigInv, RequestAloneIsAlone, Working, RequestAt
<1>19. LeftoverNeedsARace'
  <2> SUFFICES ASSUME ~ready', ~cleanRaced PROVE \A t \in Tenant : config'[t] = NoRow /\ t \notin secrets'
    BY <1>6 DEF LeftoverNeedsARace
  <2>1. CASE PluginIsGone(c)
    BY <1>1, <2>1 DEF PluginIsGone, RequestAt, CleanedSoFar, RequestShape
  <2>2. CASE ready' = ready
    <3>1. request[c].op = "uninstall" /\ \A t \in Tenant : config[t] = NoRow /\ t \notin secrets
      BY <1>1, <1>6, <2>2
      DEF ConfigInv, GoneIsQuiet, PluginConfigInvariant, LeftoverNeedsARace, RequestShape, Request, Working, RequestAt
    <3>2. (config' = config \/ config' = [t \in Tenant |-> NoRow]) /\ (secrets' = secrets \/ secrets' = {})
      BY <1>1, <3>1 DEF ConfigWork, RequestShape, ClearSecret, LookForSecret, PutSecret, CheckRevision, WriteConfig, DeleteConfigs,
         DeleteSecrets, PluginIsGone, RequestAt
    <3> QED
      BY <3>1, <3>2
  <2> QED
    BY <1>16, <2>1, <2>2
<1>20. \A d \in Caller : (RequestShape(d) /\ RequestDoneSoFar(d) /\ CleanedSoFar(d))'
  <2> TAKE d \in Caller
  <2>1. CASE d = c
    BY <2>1, ConfigWorkGoesOn
  <2>2. CASE d # c
    BY <2>2, ConfigOthersStay
  <2> QED
    BY <2>1, <2>2
<1> QED
  BY <1>12, <1>13, <1>14, <1>15, <1>17, <1>18, <1>19, <1>20, ConfigEndsAsItSays DEF ConfigInv, PluginConfigInvariant

LEMMA ConfigBeginInv ==
  ASSUME ConfigInv, NEW c \in Caller,
         NEW op \in {"save", "reset", "uninstall"}, NEW first \in {"secret", "check", "secrets", "configs"}, NEW t \in Tenant,
         NEW expected \in Nat, NEW secret \in {"keep", "set", "clear"},
         expected = 0 \/ expected = 1 \/ expected = config[t].revision,
         RequestBegins(c, op, first, t, expected, secret),
         \/ op = "save" /\ first = "check" /\ secret = "keep"
         \/ op = "save" /\ first = "secret" /\ secret \in {"set", "clear"}
         \/ op = "reset" /\ first = "secrets"
         \/ op = "uninstall" /\ first = "configs"
  PROVE  ConfigInv'
<1> DEFINE others == {d \in Caller : Working(d)}
           mine == [Idle EXCEPT !.op = op, !.pc = first, !.tenant = t, !.expected = expected,
                                !.secret = secret, !.alone = others = {}]
<1>1. /\ ~Working(c) /\ requests < MaxConfigCalls /\ requests' = requests + 1 /\ settled' = Unsettled
      /\ (op # "uninstall" => ready)
      /\ request' = [d \in Caller |-> IF d = c THEN mine ELSE [request[d] EXCEPT !.alone = ~Working(d)]]
      /\ cleanRaced' = (cleanRaced \/ \E d \in others : (op = "uninstall") # (request[d].op = "uninstall"))
      /\ UNCHANGED <<ready, config, secrets, madeRows, configDied>>
  BY DEF RequestBegins
<1>2. /\ request \in [Caller -> Request] /\ config \in [Tenant -> ConfigRow] /\ requests \in 0..MaxConfigCalls
      /\ madeRows \in 0..MaxConfigCalls /\ cleanRaced \in BOOLEAN /\ MaxConfigCalls \in Nat
  BY PluginConfigAssumption DEF ConfigInv, PluginConfigInvariant, PluginConfigTypeOK
<1>3. expected \in 0..MaxConfigCalls
  <2>1. config[t] \in ConfigRow
    BY <1>2
  <2>2. config[t].revision \in 0..MaxConfigCalls
    BY <2>1, SMTT(60) DEF ConfigRow
  <2>3. requests < MaxConfigCalls
    BY DEF RequestBegins
  <2>4. 0 \in 0..MaxConfigCalls /\ 1 \in 0..MaxConfigCalls
    BY <1>2, <2>3
  <2> QED
    BY <2>2, <2>4
<1>4. mine \in Request /\ mine.op = op /\ mine.pc = first /\ mine.tenant = t /\ mine.secret = secret
      /\ mine.stored = NoRow /\ (mine.alone => others = {})
  <2>1. (others = {}) \in BOOLEAN
    OBVIOUS
  <2> HIDE DEF others
  <2>2. \A s \in BOOLEAN :
          LET m == [Idle EXCEPT !.op = op, !.pc = first, !.tenant = t, !.expected = expected, !.secret = secret, !.alone = s] IN
          m \in Request /\ m.op = op /\ m.pc = first /\ m.tenant = t /\ m.secret = secret /\ m.stored = NoRow /\ m.alone = s
    BY <1>3, SomeoneIsThere, ZenonT(60) DEF Idle, Request
  <2>3. mine.alone = (others = {})
    BY <2>1, <2>2
  <2>4. mine.alone => others = {}
    BY <2>3, Zenon
  <2> QED
    BY <2>1, <2>2, <2>4
<1> HIDE DEF mine
<1>5. \A d \in Caller : d # c =>
        LET q == [request[d] EXCEPT !.alone = ~Working(d)] IN
        /\ q \in Request /\ q.op = request[d].op /\ q.pc = request[d].pc /\ q.tenant = request[d].tenant
        /\ q.secret = request[d].secret /\ q.stored = request[d].stored /\ q.seen = request[d].seen
        /\ q.expected = request[d].expected /\ (q.alone <=> ~Working(d))
  <2>1. \A q \in Request, w \in BOOLEAN :
          LET m == [q EXCEPT !.alone = w] IN
          /\ m \in Request /\ m.op = q.op /\ m.pc = q.pc /\ m.tenant = q.tenant
          /\ m.secret = q.secret /\ m.stored = q.stored /\ m.seen = q.seen /\ m.expected = q.expected /\ m.alone = w
    BY DEF Request
  <2>2. \A d \in Caller : request[d] \in Request
    BY <1>2
  <2>3. \A d \in Caller : (~Working(d)) \in BOOLEAN
    BY DEF Working
  <2> SUFFICES ASSUME NEW d \in Caller
               PROVE  LET q == [request[d] EXCEPT !.alone = ~Working(d)] IN
                      /\ q \in Request /\ q.op = request[d].op /\ q.pc = request[d].pc /\ q.tenant = request[d].tenant
                      /\ q.secret = request[d].secret /\ q.stored = request[d].stored /\ q.seen = request[d].seen
                      /\ q.expected = request[d].expected /\ (q.alone <=> ~Working(d))
    OBVIOUS
  <2>4. \A w \in BOOLEAN :
          /\ [request[d] EXCEPT !.alone = w] \in Request /\ [request[d] EXCEPT !.alone = w].op = request[d].op
          /\ [request[d] EXCEPT !.alone = w].pc = request[d].pc /\ [request[d] EXCEPT !.alone = w].tenant = request[d].tenant
          /\ [request[d] EXCEPT !.alone = w].secret = request[d].secret /\ [request[d] EXCEPT !.alone = w].stored = request[d].stored
          /\ [request[d] EXCEPT !.alone = w].seen = request[d].seen /\ [request[d] EXCEPT !.alone = w].expected = request[d].expected
          /\ [request[d] EXCEPT !.alone = w].alone = w
    BY <2>1, <2>2
  <2>5. PICK w \in BOOLEAN : w = ~Working(d)
    BY <2>3, Zenon
  <2> QED
    BY <2>4, <2>5, Zenon
<1>6. request' \in [Caller -> Request] /\ request'[c] = mine
      /\ \A d \in Caller : d # c =>
           /\ request'[d].op = request[d].op /\ request'[d].pc = request[d].pc /\ request'[d].tenant = request[d].tenant
           /\ request'[d].secret = request[d].secret /\ request'[d].stored = request[d].stored
           /\ request'[d].seen = request[d].seen /\ request'[d].expected = request[d].expected
           /\ (request'[d].alone <=> ~Working(d))
  BY <1>1, <1>2, <1>4, <1>5
<1>7. cleanRaced => cleanRaced'
  BY <1>1
<1>8. \A d \in Caller : RequestShape(d) /\ RequestDoneSoFar(d) /\ CleanedSoFar(d)
  BY DEF ConfigInv
<1>9. \A d \in Caller : d # c => (Working(d)' <=> Working(d))
  BY <1>6 DEF Working, RequestAt
<1>10. Working(c)'
  BY <1>4, <1>6 DEF Working, RequestAt
<1>11. \A d \in Caller : RequestShape(d)'
  <2> TAKE d \in Caller
  <2>1. CASE d = c
    BY <1>4, <1>6, <2>1 DEF RequestShape
  <2>2. CASE d # c /\ Working(d)
    BY <1>6, <1>8, <2>2 DEF RequestShape, Working, RequestAt
  <2>3. CASE d # c /\ ~Working(d)
    <3>1. request[d] = Idle /\ request'[d] = [request[d] EXCEPT !.alone = ~Working(d)]
      BY <1>1, <1>2, <1>8, <2>3 DEF RequestShape, Working, RequestAt
    <3>2. Idle.alone = TRUE /\ request'[d] = [Idle EXCEPT !.alone = TRUE]
      BY <2>3, <3>1 DEF Idle
    <3>3. request'[d] = Idle
      BY <3>2 DEF Idle
    <3> QED
      BY <3>3 DEF RequestShape, Idle
  <2> QED
    BY <2>1, <2>2, <2>3
<1>12. RequestAloneIsAlone'
  <2> SUFFICES ASSUME NEW b \in Caller, NEW d \in Caller, b # d, Working(b)', request'[b].alone PROVE ~Working(d)'
    BY DEF RequestAloneIsAlone
  <2>1. b = c
    BY <1>6, <1>9
  <2> QED
    BY <1>4, <1>6, <1>9, <2>1
<1>13. \A d \in Caller : request[d].op # "none" => d \in others
  BY <1>8 DEF RequestShape, Working, RequestAt, Idle
<1>14. UninstallMeetsOthers'
  <2> SUFFICES ASSUME NEW b \in Caller, NEW d \in Caller, request'[b].op = "uninstall", request'[d].op \in {"save", "reset"}
               PROVE  cleanRaced'
    BY DEF UninstallMeetsOthers
  <2>1. CASE b # c /\ d # c
    BY <1>6, <1>7, <2>1 DEF ConfigInv, UninstallMeetsOthers
  <2>2. CASE b = c /\ d # c
    <3>1. op = "uninstall" /\ request[d].op # "uninstall" /\ d \in others
      BY <1>4, <1>6, <1>13, <2>2
    <3> QED
      BY <1>1, <3>1
  <2>3. CASE b # c /\ d = c
    <3>1. op # "uninstall" /\ request[b].op = "uninstall" /\ b \in others
      BY <1>4, <1>6, <1>13, <2>3
    <3> QED
      BY <1>1, <3>1
  <2> QED
    BY <1>6, <2>1, <2>2, <2>3
<1>15. GoneIsQuiet'
  <2> SUFFICES ASSUME ~ready, ~cleanRaced', NEW d \in Caller, request'[d].op \in {"save", "reset"} PROVE FALSE
    BY <1>1 DEF GoneIsQuiet
  <2>1. d # c
    BY <1>1, <1>4, <1>6
  <2> QED
    BY <1>6, <1>7, <2>1 DEF ConfigInv, GoneIsQuiet
<1>16. \A d \in Caller : RequestDoneSoFar(d)'
  <2> TAKE d \in Caller
  <2>1. CASE d = c
    BY <1>4, <1>6, <2>1 DEF RequestDoneSoFar
  <2>2. CASE d # c
    BY <1>6, <2>2 DEF RequestDoneSoFar, Working, RequestAt
  <2> QED
    BY <2>1, <2>2
<1>17. \A d \in Caller : CleanedSoFar(d)'
  <2> TAKE d \in Caller
  <2>1. CASE d = c
    BY <1>4, <1>6, <2>1 DEF CleanedSoFar
  <2>2. CASE d # c
    BY <1>1, <1>6, <1>7, <1>8, <2>2, SMTT(60) DEF CleanedSoFar
  <2> QED
    BY <2>1, <2>2
<1>18. OneRequestCounts' /\ SettledIsQuiet' /\ LeftoverNeedsARace'
  BY <1>1, <1>7, SomeoneIsThere DEF ConfigInv, PluginConfigInvariant, OneRequestCounts, SettledIsQuiet, LeftoverNeedsARace
<1>19. PluginConfigTypeOK'
  <2>1. settled' \in [op : {"none", "save", "reset", "uninstall"}, tenant : Tenant, ok : BOOLEAN,
                  secret : {"keep", "set", "clear"}, expected : 0..MaxConfigCalls, stored : ConfigRow]
    BY <1>1, SomeoneIsThere, PluginConfigAssumption DEF Unsettled
  <2>2. requests' \in 0..MaxConfigCalls
    BY <1>1, <1>2
  <2>3. cleanRaced' \in BOOLEAN
    BY <1>1
  <2> QED
    BY <1>1, <1>6, <2>1, <2>2, <2>3 DEF ConfigInv, PluginConfigInvariant, PluginConfigTypeOK
<1>20. IsFiniteSet(WorkingCallers') /\ Cardinality(WorkingCallers') = Cardinality(WorkingCallers) + 1
       /\ Cardinality(WorkingCallers) \in Nat
  <2>1. WorkingCallers' = WorkingCallers \cup {c} /\ c \notin WorkingCallers /\ IsFiniteSet(WorkingCallers)
    BY <1>1, <1>9, <1>10 DEF WorkingCallers, ConfigInv, RequestsAreCounted
  <2> QED
    BY <2>1, FS_AddElement, FS_CardinalityType
<1>21. RequestsAreCounted'
  <2>1. \A row : RowIsCounted(row, Cardinality(WorkingCallers), requests) => RowIsCounted(row, Cardinality(WorkingCallers'), requests')
    <3>1. requests \in Nat /\ requests' \in Nat /\ Cardinality(WorkingCallers) \in Nat /\ Cardinality(WorkingCallers') \in Nat
          /\ requests' - Cardinality(WorkingCallers') >= requests - Cardinality(WorkingCallers)
      BY <1>1, <1>2, <1>20
    <3> QED
      BY <3>1, FewerIsCounted
  <2>2. RowIsCounted(NoRow, Cardinality(WorkingCallers), requests)
    <3>1. madeRows + Cardinality(WorkingCallers) <= requests
      BY DEF ConfigInv, RequestsAreCounted
    <3> QED
      BY <1>2, <1>20, <3>1, SomeoneIsThere DEF RowIsCounted, NoRow
  <2>3. \A d \in Caller : request'[d].stored \in {NoRow, request[d].stored}
    BY <1>4, <1>6
  <2>4. madeRows' + Cardinality(WorkingCallers') <= requests'
    BY <1>1, <1>2, <1>20, SMTT(60) DEF ConfigInv, RequestsAreCounted
  <2> QED
    BY <1>1, <1>20, <2>1, <2>2, <2>3, <2>4 DEF ConfigInv, RequestsAreCounted
<1> QED
  BY <1>11, <1>12, <1>14, <1>15, <1>16, <1>17, <1>18, <1>19, <1>21 DEF ConfigInv, PluginConfigInvariant

LEMMA ConfigStepInv == ConfigInv /\ [PluginConfigNext]_configVars => ConfigInv'
<1> SUFFICES ASSUME ConfigInv, [PluginConfigNext]_configVars PROVE ConfigInv'
  OBVIOUS
<1>1. ASSUME NEW c \in Caller, BeginConfigCall(c) PROVE ConfigInv'
  <2>1. \A t \in Tenant : config[t].revision \in Nat
    BY DEF ConfigInv, PluginConfigInvariant, PluginConfigTypeOK, ConfigRow
  <2>2. ASSUME NEW t \in Tenant, NEW s \in {"keep", "set", "clear"}, NEW expected \in {1, config[t].revision},
               RequestBegins(c, "save", IF s = "keep" THEN "check" ELSE "secret", t, expected, s)
        PROVE  ConfigInv'
    <3>1. CASE s = "keep"
      <4>1. RequestBegins(c, "save", "check", t, expected, s) /\ expected \in Nat
        BY <2>1, <2>2, <3>1
      <4> QED
        BY <2>2, <3>1, <4>1, ConfigBeginInv
    <3>2. CASE s # "keep"
      <4>1. RequestBegins(c, "save", "secret", t, expected, s) /\ expected \in Nat
        BY <2>1, <2>2, <3>2
      <4> QED
        BY <2>2, <3>2, <4>1, ConfigBeginInv
    <3> QED
      BY <3>1, <3>2
  <2>3. ASSUME NEW t \in Tenant, RequestBegins(c, "reset", "secrets", t, 0, "clear") PROVE ConfigInv'
    BY <2>3, ConfigBeginInv
  <2>4. CASE RequestBegins(c, "uninstall", "configs", Someone, 0, "keep")
    BY <2>4, SomeoneIsThere, ConfigBeginInv, SMTT(60)
  <2> QED
    BY <1>1, <2>2, <2>3, <2>4 DEF BeginConfigCall
<1>2. ASSUME NEW c \in Caller, ConfigWork(c) PROVE ConfigInv'
  BY <1>2, ConfigWorkInv
<1> USE DEF ConfigInv, PluginConfigInvariant, PluginConfigTypeOK, OneRequestCounts, LeftoverNeedsARace, RequestsAreCounted,
        RequestAloneIsAlone, UninstallMeetsOthers, GoneIsQuiet, SettledIsQuiet, RequestShape, RequestDoneSoFar, CleanedSoFar,
        Working, RequestAt, WorkingCallers, RowIsCounted, MyTenant
<1>3. CASE PluginIsBack
  <2>1. settled' \in [op : {"none", "save", "reset", "uninstall"}, tenant : Tenant, ok : BOOLEAN,
                  secret : {"keep", "set", "clear"}, expected : 0..MaxConfigCalls, stored : ConfigRow]
        /\ settled'.op = "none" /\ ready' = TRUE
        /\ UNCHANGED <<config, secrets, madeRows, request, requests, cleanRaced, configDied>>
    BY <1>3, SomeoneIsThere, PluginConfigAssumption DEF Unsettled, PluginIsBack
  <2>2. WorkingCallers' = WorkingCallers
    BY <2>1
  <2>3. RequestsAreCounted'
    BY <2>1, <2>2
  <2>4. PluginConfigTypeOK'
    BY <2>1, SMTT(60)
  <2> QED
    BY <2>1, <2>3, <2>4
<1>4. CASE ConfigApiDies
  <2>1. settled' \in [op : {"none", "save", "reset", "uninstall"}, tenant : Tenant, ok : BOOLEAN,
                  secret : {"keep", "set", "clear"}, expected : 0..MaxConfigCalls, stored : ConfigRow]
        /\ settled'.op = "none" /\ configDied' = TRUE
        /\ UNCHANGED <<ready, config, secrets, madeRows, requests, cleanRaced>>
    BY <1>4, SomeoneIsThere, PluginConfigAssumption DEF Unsettled, ConfigApiDies
  <2>2. request' \in [Caller -> Request] /\ \A c \in Caller : request'[c] = Idle
    BY <1>4, SomeoneIsThere DEF ConfigApiDies
  <2>3. \A c \in Caller : request'[c].pc = "idle" /\ request'[c].op = "none" /\ request'[c].stored = NoRow
    BY <2>2 DEF Idle
  <2>13. WorkingCallers' = {}
    BY <2>3
  <2>14. IsFiniteSet(WorkingCallers)
    OBVIOUS
  <2>5. requests \in Nat /\ madeRows \in Nat
    OBVIOUS
  <2> HIDE DEF WorkingCallers
  <2>4. IsFiniteSet(WorkingCallers') /\ Cardinality(WorkingCallers') = 0 /\ Cardinality(WorkingCallers) \in Nat
    BY <2>13, <2>14, FS_EmptySet, FS_CardinalityType
  <2> HIDE DEF RowIsCounted
  <2>6. \A row : RowIsCounted(row, Cardinality(WorkingCallers), requests) => RowIsCounted(row, Cardinality(WorkingCallers'), requests')
    <3>1. requests' \in Nat /\ Cardinality(WorkingCallers') \in Nat
          /\ requests' - Cardinality(WorkingCallers') >= requests - Cardinality(WorkingCallers)
      BY <2>1, <2>4, <2>5
    <3> QED
      BY <2>4, <2>5, <3>1, FewerIsCounted
  <2>7. RowIsCounted(NoRow, Cardinality(WorkingCallers'), requests')
    BY <2>1, <2>4, <2>5, SomeoneIsThere DEF NoRow, RowIsCounted
  <2>8. RequestsAreCounted'
    BY <2>1, <2>3, <2>4, <2>5, <2>6, <2>7
  <2>9. PluginConfigTypeOK'
    BY <2>1, <2>2
  <2>10. \A c \in Caller : (RequestShape(c) /\ RequestDoneSoFar(c) /\ CleanedSoFar(c))'
    BY <2>2, <2>3
  <2>11. OneRequestCounts' /\ LeftoverNeedsARace' /\ GoneIsQuiet' /\ SettledIsQuiet'
    BY <2>1, <2>3
  <2>12. RequestAloneIsAlone' /\ UninstallMeetsOthers'
    BY <2>3, SMTT(60)
  <2> QED
    BY <2>8, <2>9, <2>10, <2>11, <2>12
<1>5. CASE UNCHANGED configVars
  <2>1. WorkingCallers' = WorkingCallers
    BY <1>5 DEF configVars
  <2> QED
    BY <1>5, <2>1 DEF configVars
<1> QED
  BY <1>1, <1>2, <1>3, <1>4, <1>5, Zenon DEF PluginConfigNext, ConfigWork
-----------------------------------------------------------------------------
(***************************************************************************)
(* The personas.  What an archived persona and a switch of the selection   *)
(* leave behind is told by the requests under way: one that is past its    *)
(* admission while the persona is archived has met a deletion.  Every      *)
(* request that has not selected yet may still make one row.               *)
(***************************************************************************)
PersonaRequest == [op : PersonaOp, pc : PersonaPc, persona : Persona, revision : 0..MaxPersonaRevisions,
                   found : Selection, alone : BOOLEAN]
MaySelect == {c \in PersonaCall : personaCall[c].pc \notin {"idle", "log"}}

PersonaShape(c) ==
  /\ personaCall[c].pc = "idle" <=> personaCall[c].op = "none"
  /\ personaCall[c].pc \in {"compare", "insert"} => personaCall[c].op = "update"
  /\ personaCall[c].pc \in {"archive", "unselect"} => personaCall[c].op = "delete"
  /\ personaCall[c].pc \in {"repoint", "active", "noteRollback"} => personaCall[c].op = "rollback"
  /\ personaCall[c].pc \in {"admit", "find", "select", "log"} => personaCall[c].op \in {"activate", "rollback"}
  /\ personaCall[c].op = "update" => personaCall[c].revision \in 1..newest[Whose(c)] /\ personaCall[c].revision < MaxPersonaRevisions
  /\ personaCall[c].op = "rollback" \/ personaCall[c].pc \in {"find", "select", "log"} => personaCall[c].revision \in RevisionNo
  /\ personaCall[c].pc = "unselect" => Whose(c) \in archived
  /\ personaCall[c].pc \in {"find", "select"} /\ Whose(c) \in archived => Whose(c) \in deleteRaced

PersonaDoneSoFar(c) ==
  personaCall[c].alone =>
    /\ personaCall[c].pc \in {"select", "noteRollback"} => personaCall[c].found = selection
    /\ personaCall[c].pc = "log" =>
         selection.id # 0 /\ selection.persona = Whose(c) /\ selection.revision = personaCall[c].revision
    /\ personaCall[c].op = "rollback" /\ personaCall[c].pc # "repoint" => current[Whose(c)] = personaCall[c].revision

PersonaAloneIsAlone ==
  \A c, d \in PersonaCall : c # d /\ Running(c) /\ personaCall[c].alone => ~Running(d)
DeletionsMeetOthers ==
  \A c, d \in PersonaCall : c # d /\ Running(c) /\ personaCall[d].op = "delete" => Whose(d) \in deleteRaced
LonelyIsQuiet == lonely.op # "none" => \A c \in PersonaCall : ~Running(c)
SelectionsAreCounted == IsFiniteSet(MaySelect) /\ selections + Cardinality(MaySelect) <= personaCalls

PersonaInv ==
  /\ PersonasInvariant /\ SelectionsAreCounted /\ PersonaAloneIsAlone /\ DeletionsMeetOthers /\ LonelyIsQuiet
  /\ \A c \in PersonaCall : PersonaShape(c) /\ PersonaDoneSoFar(c)

PersonaWork(c) ==
  \/ CompareRevision(c) \/ InsertRevision(c) \/ Archive(c) \/ Unselect(c)
  \/ AdmitActivation(c) \/ FindSelection(c) \/ Select(c) \/ LogSwitch(c)
  \/ Repoint(c) \/ LookAtSelection(c) \/ LogRollback(c)

LEMMA NoPersonaIsThere ==
  /\ NoSelection \in Selection /\ NoSelection.id = 0 /\ NoSelection.persona \in Persona
  /\ NoPersonaCall \in PersonaRequest /\ NoPersonaCall.op = "none" /\ NoPersonaCall.pc = "idle"
  /\ NoneLonely \in [op : PersonaOp, persona : Persona, revision : 0..MaxPersonaRevisions] /\ NoneLonely.op = "none"
<1>1. \E p : p \in Persona
  BY PersonasAssumption
<1>2. (CHOOSE p \in Persona : TRUE) \in Persona
  BY <1>1
<1>3. NoSelection \in Selection /\ NoSelection.id = 0 /\ NoSelection.persona \in Persona
  BY <1>2, PersonasAssumption DEF NoSelection, Selection
<1> HIDE DEF NoSelection
<1>4. NoPersonaCall \in PersonaRequest /\ NoPersonaCall.op = "none" /\ NoPersonaCall.pc = "idle"
  BY <1>3, PersonasAssumption DEF NoPersonaCall, PersonaRequest, PersonaOp, PersonaPc
<1>5. NoneLonely \in [op : PersonaOp, persona : Persona, revision : 0..MaxPersonaRevisions] /\ NoneLonely.op = "none"
  BY <1>3, PersonasAssumption DEF NoneLonely, PersonaOp
<1> QED
  BY <1>3, <1>4, <1>5

LEMMA PersonaInitInv == PersonasInit => PersonaInv
<1> SUFFICES ASSUME PersonasInit PROVE PersonaInv
  OBVIOUS
<1>1. \A c \in PersonaCall : personaCall[c] = NoPersonaCall
  BY DEF PersonasInit
<1>2. \A c \in PersonaCall : personaCall[c].op = "none" /\ personaCall[c].pc = "idle" /\ ~Running(c)
  BY <1>1, NoPersonaIsThere DEF Running, PersonaAt
<1>3. 1 \in RevisionNo /\ 0 \in 0..MaxPersonaCalls
  BY PersonasAssumption DEF RevisionNo
<1>4. accepted \in [Persona -> [RevisionNo -> 0..MaxPersonaCalls]] /\ newest \in [Persona -> RevisionNo]
      /\ current \in [Persona -> RevisionNo] /\ personaCall \in [PersonaCall -> PersonaRequest]
  BY <1>3, NoPersonaIsThere DEF PersonasInit
<1>5. PersonasTypeOK
  BY <1>3, <1>4, NoPersonaIsThere DEF PersonasInit, PersonasTypeOK, PersonaRequest
<1>6. OneUpdatePerRevision
  BY PersonasAssumption DEF PersonasInit, OneUpdatePerRevision, RevisionNo
<1>7. ArchivedIsNotSelected /\ SwitchesAreLogged /\ OneRequestDoesIt /\ LonelyIsQuiet
  BY NoPersonaIsThere DEF PersonasInit, ArchivedIsNotSelected, SwitchesAreLogged, OneRequestDoesIt, LonelyIsQuiet
<1>8. \A c \in PersonaCall : PersonaShape(c) /\ PersonaDoneSoFar(c)
  BY <1>2 DEF PersonaShape, PersonaDoneSoFar
<1>9. PersonaAloneIsAlone /\ DeletionsMeetOthers
  BY <1>2 DEF PersonaAloneIsAlone, DeletionsMeetOthers
<1>10. MaySelect = {}
  BY <1>2 DEF MaySelect
<1>11. SelectionsAreCounted
  BY <1>10, FS_EmptySet, SMTT(60) DEF SelectionsAreCounted, PersonasInit
<1> QED
  BY <1>5, <1>6, <1>7, <1>8, <1>9, <1>11 DEF PersonaInv, PersonasInvariant

\* A request that works changes its own record only and ends, if it ends, with what counts
\* when it was alone.
PersonaBecomes(c, r) ==
  \/ r = NoPersonaCall
  \/ r \in PersonaRequest /\ r.pc # "idle" /\ r.op = personaCall[c].op /\ r.persona = Whose(c) /\ r.alone = personaCall[c].alone

LEMMA PersonaWorkMoves ==
  ASSUME PersonaInv, NEW c \in PersonaCall, PersonaWork(c)
  PROVE  /\ \E r : personaCall' = [personaCall EXCEPT ![c] = r] /\ PersonaBecomes(c, r)
         /\ Running(c) /\ UNCHANGED <<personaCalls, deleteRaced, personaDied>>
         /\ lonely' = lonely \/ lonely' = NoneLonely \/ (personaCall[c].alone /\ personaCall'[c] = NoPersonaCall)
<1>1. personaCall \in [PersonaCall -> PersonaRequest] /\ selection \in Selection /\ current \in [Persona -> RevisionNo]
  BY DEF PersonaInv, PersonasInvariant, PersonasTypeOK, PersonaRequest
<1>2. personaCall[c] \in PersonaRequest /\ PersonaBecomes(c, NoPersonaCall) /\ Whose(c) \in Persona
  BY <1>1 DEF PersonaBecomes, PersonaRequest, Whose
<1>3. \A pc \in PersonaPc \ {"idle"} : PersonaBecomes(c, [personaCall[c] EXCEPT !.pc = pc])
  BY <1>2 DEF PersonaBecomes, PersonaRequest, Whose
<1>4. \A pc \in PersonaPc \ {"idle"} : PersonaBecomes(c, [personaCall[c] EXCEPT !.found = selection, !.pc = pc])
  BY <1>1, <1>2 DEF PersonaBecomes, PersonaRequest, Whose
<1>5. PersonaBecomes(c, [personaCall[c] EXCEPT !.pc = "find",
               !.revision = IF personaCall[c].revision = 0 THEN current[Whose(c)] ELSE personaCall[c].revision])
  <2>1. \A n \in 0..MaxPersonaRevisions : PersonaBecomes(c, [personaCall[c] EXCEPT !.pc = "find", !.revision = n])
    BY <1>2 DEF PersonaBecomes, PersonaRequest, Whose, PersonaPc
  <2>2. (IF personaCall[c].revision = 0 THEN current[Whose(c)] ELSE personaCall[c].revision) \in 0..MaxPersonaRevisions
    BY <1>1, <1>2 DEF PersonaRequest, RevisionNo
  <2> QED
    BY <2>1, <2>2
<1> USE <1>1, <1>2, <1>3, <1>4, <1>5 DEF Running, PersonaAt, PersonaGoes, PersonaEnds, PersonaPc
<1>6. CASE CompareRevision(c)
  BY <1>6 DEF CompareRevision
<1>7. CASE InsertRevision(c)
  BY <1>7 DEF InsertRevision
<1>8. CASE Archive(c)
  BY <1>8 DEF Archive
<1>9. CASE Unselect(c)
  BY <1>9 DEF Unselect
<1>10. CASE AdmitActivation(c)
  BY <1>10 DEF AdmitActivation
<1>11. CASE FindSelection(c)
  BY <1>11 DEF FindSelection
<1>12. CASE Select(c)
  BY <1>12 DEF Select
<1>13. CASE LogSwitch(c)
  BY <1>13 DEF LogSwitch
<1>14. CASE Repoint(c)
  BY <1>14 DEF Repoint
<1>15. CASE LookAtSelection(c)
  BY <1>15 DEF LookAtSelection
<1>16. CASE LogRollback(c)
  BY <1>16 DEF LogRollback
<1> QED
  BY <1>6, <1>7, <1>8, <1>9, <1>10, <1>11, <1>12, <1>13, <1>14, <1>15, <1>16 DEF PersonaWork

\* Revisions are never taken back, nor is an archived persona.
LEMMA PersonaRevisionsGrow ==
  ASSUME PersonaInv, NEW c \in PersonaCall, PersonaWork(c)
  PROVE  /\ newest' \in [Persona -> RevisionNo] /\ \A p \in Persona : newest'[p] >= newest[p]
         /\ archived' = archived \/ (archived' = archived \cup {Whose(c)} /\ personaCall[c].op = "delete")
<1>1. personaCall[c] \in PersonaRequest /\ newest \in [Persona -> RevisionNo] /\ PersonaShape(c) /\ Whose(c) \in Persona
  BY DEF PersonaInv, PersonasInvariant, PersonasTypeOK, PersonaRequest, Whose
<1>2. newest' = newest
      \/ \E r \in RevisionNo : r > newest[Whose(c)] /\ newest' = [newest EXCEPT ![Whose(c)] = r]
  <2>1. CASE InsertRevision(c)
    <3>1. personaCall[c].revision \in 1..newest[Whose(c)] /\ personaCall[c].revision < MaxPersonaRevisions
      BY <1>1, <2>1 DEF InsertRevision, PersonaShape, PersonaAt
    <3>2. personaCall[c].revision + 1 \in RevisionNo
      BY <1>1, <3>1, PersonasAssumption DEF RevisionNo
    <3>3. \/ newest' = newest
          \/ /\ ~(personaCall[c].revision + 1 <= newest[Whose(c)])
             /\ newest' = [newest EXCEPT ![Whose(c)] = personaCall[c].revision + 1]
      BY <2>1 DEF InsertRevision
    <3>4. newest[Whose(c)] \in Nat /\ personaCall[c].revision + 1 \in Nat
      BY <1>1, <3>2 DEF RevisionNo
    <3> QED
      BY <3>2, <3>3, <3>4
  <2>2. CASE ~InsertRevision(c)
    BY <2>2 DEF PersonaWork, CompareRevision, Archive, Unselect, AdmitActivation, FindSelection, Select, LogSwitch, Repoint,
       LookAtSelection, LogRollback
  <2> QED
    BY <2>1, <2>2
<1>3. newest' \in [Persona -> RevisionNo] /\ \A p \in Persona : newest'[p] >= newest[p]
  BY <1>1, <1>2 DEF RevisionNo
<1>4. archived' = archived \/ (archived' = archived \cup {Whose(c)} /\ personaCall[c].op = "delete")
  BY <1>1 DEF PersonaWork, CompareRevision, InsertRevision, Archive, Unselect, AdmitActivation, FindSelection, Select, LogSwitch,
     Repoint, LookAtSelection, LogRollback, PersonaShape, PersonaAt
<1> QED
  BY <1>3, <1>4

\* What its step leaves behind of it.
LEMMA PersonaWorkGoesOn ==
  ASSUME PersonaInv, NEW c \in PersonaCall, PersonaWork(c) PROVE (PersonaShape(c) /\ PersonaDoneSoFar(c))'
<1>1. personaCall \in [PersonaCall -> PersonaRequest] /\ personaCall[c] \in PersonaRequest /\ PersonaShape(c)
      /\ PersonaDoneSoFar(c) /\ Whose(c) \in Persona /\ current \in [Persona -> RevisionNo] /\ newest \in [Persona -> RevisionNo]
      /\ selection \in Selection /\ selections \in Nat
  BY DEF PersonaInv, PersonasInvariant, PersonasTypeOK, PersonaRequest, Whose
<1>2. UNCHANGED deleteRaced
  BY PersonaWorkMoves
<1>3. CASE personaCall'[c] = NoPersonaCall
  <2>1. personaCall'[c].pc = "idle" /\ personaCall'[c].op = "none"
    BY <1>3, NoPersonaIsThere, SMTT(60)
  <2> QED
    BY <2>1 DEF PersonaShape, PersonaDoneSoFar
<1>4. CASE personaCall'[c] # NoPersonaCall
  <2> USE <1>1, <1>2, <1>4 DEF PersonaShape, PersonaDoneSoFar, PersonaAt, PersonaGoes, PersonaEnds, PersonaRequest, Whose
  <2>1. CASE CompareRevision(c)
    <3>1. personaCall'[c] = [personaCall[c] EXCEPT !.pc = "insert"] /\ personaCall[c].pc = "compare"
          /\ UNCHANGED <<newest, current, archived, selection>>
      BY <2>1 DEF CompareRevision
    <3> QED
      BY <3>1
  <2>2. CASE InsertRevision(c)
    BY <2>2 DEF InsertRevision
  <2>3. CASE Archive(c)
    <3>1. personaCall'[c] = [personaCall[c] EXCEPT !.pc = "unselect"] /\ personaCall[c].pc = "archive"
          /\ UNCHANGED <<newest, current, selection>> /\ Whose(c) \in archived'
      BY <2>3 DEF Archive
    <3> QED
      BY <3>1
  <2>4. CASE Unselect(c)
    BY <2>4 DEF Unselect
  <2>5. CASE AdmitActivation(c)
    <3>1. \E n \in RevisionNo :
            /\ personaCall'[c] = [personaCall[c] EXCEPT !.pc = "find", !.revision = n] /\ personaCall[c].pc = "admit"
            /\ Whose(c) \notin archived /\ UNCHANGED <<newest, current, archived, selection>>
            /\ n = personaCall[c].revision \/ personaCall[c].op = "activate"
      <4>1. /\ personaCall'[c] = [personaCall[c] EXCEPT !.pc = "find",
                 !.revision = IF personaCall[c].revision = 0 THEN current[Whose(c)] ELSE personaCall[c].revision]
            /\ personaCall[c].pc = "admit" /\ Whose(c) \notin archived /\ UNCHANGED <<newest, current, archived, selection>>
        BY <2>5 DEF AdmitActivation
      <4>2. CASE personaCall[c].revision = 0
        <5>1. 0 \notin RevisionNo /\ current[Whose(c)] \in RevisionNo
          BY DEF RevisionNo
        <5>2. personaCall[c].op = "activate"
          BY <4>1, <4>2, <5>1
        <5>3. personaCall'[c] = [personaCall[c] EXCEPT !.pc = "find", !.revision = current[Whose(c)]]
          BY <4>1, <4>2
        <5> QED
          BY <4>1, <5>1, <5>2, <5>3
      <4>3. CASE personaCall[c].revision # 0
        <5>1. personaCall[c].revision \in 0..MaxPersonaRevisions
          OBVIOUS
        <5>2. personaCall[c].revision \in RevisionNo
          BY <4>3, <5>1, PersonasAssumption DEF RevisionNo
        <5>3. personaCall'[c] = [personaCall[c] EXCEPT !.pc = "find", !.revision = personaCall[c].revision]
          BY <4>1, <4>3
        <5> QED
          BY <4>1, <5>2, <5>3
      <4> QED
        BY <4>2, <4>3
    <3> QED
      BY <3>1, SMTT(60)
  <2>6. CASE FindSelection(c)
    <3>1. personaCall'[c] = [personaCall[c] EXCEPT !.found = selection, !.pc = "select"] /\ personaCall[c].pc = "find"
          /\ UNCHANGED <<newest, current, archived, selection>>
      BY <2>6 DEF FindSelection
    <3> QED
      BY <3>1
  <2>7. CASE Select(c)
    <3>1. personaCall'[c] = [personaCall[c] EXCEPT !.pc = "log"] /\ personaCall[c].pc = "select"
          /\ UNCHANGED <<newest, current, archived>>
      BY <2>7 DEF Select
    <3>2. personaCall[c].alone => selection'.id # 0 /\ selection'.persona = Whose(c) /\ selection'.revision = personaCall[c].revision
      BY <2>7, <3>1 DEF Select, Selection
    <3> QED
      BY <3>1, <3>2
  <2>8. CASE LogSwitch(c)
    BY <2>8 DEF LogSwitch
  <2>9. CASE Repoint(c)
    <3>1. personaCall'[c] = [personaCall[c] EXCEPT !.pc = "active"] /\ personaCall[c].pc = "repoint"
          /\ UNCHANGED <<newest, archived, selection>> /\ current'[Whose(c)] = personaCall[c].revision
      BY <2>9 DEF Repoint
    <3> QED
      BY <3>1
  <2>10. CASE LookAtSelection(c)
    <3>1. personaCall'[c] = [personaCall[c] EXCEPT !.found = selection, !.pc = "noteRollback"] /\ personaCall[c].pc = "active"
          /\ UNCHANGED <<newest, current, archived, selection>>
      BY <2>10 DEF LookAtSelection
    <3> QED
      BY <3>1
  <2>11. CASE LogRollback(c)
    <3>1. personaCall'[c] = [personaCall[c] EXCEPT !.pc = "admit"] /\ personaCall[c].pc = "noteRollback"
          /\ UNCHANGED <<newest, current, archived, selection>>
      BY <2>11 DEF LogRollback
    <3> QED
      BY <3>1
  <2> QED
    BY <2>1, <2>2, <2>3, <2>4, <2>5, <2>6, <2>7, <2>8, <2>9, <2>10, <2>11 DEF PersonaWork
<1> QED
  BY <1>3, <1>4

\* And of the others: one that runs alone meets none that works, and one that is admitted
\* has met the deletion that archives its persona.
LEMMA PersonaOthersStay ==
  ASSUME PersonaInv, NEW c \in PersonaCall, PersonaWork(c), NEW d \in PersonaCall, d # c
  PROVE  (PersonaShape(d) /\ PersonaDoneSoFar(d))'
<1>1. personaCall'[d] = personaCall[d] /\ deleteRaced' = deleteRaced /\ Running(c)
  BY PersonaWorkMoves DEF PersonaInv, PersonasInvariant, PersonasTypeOK
<1>2. PersonaShape(d) /\ personaCall[d] \in PersonaRequest /\ Whose(d) \in Persona /\ newest \in [Persona -> RevisionNo]
  BY DEF PersonaInv, PersonasInvariant, PersonasTypeOK, PersonaRequest, Whose
<1>3. /\ newest' \in [Persona -> RevisionNo] /\ \A p \in Persona : newest'[p] >= newest[p]
      /\ archived' = archived \/ (archived' = archived \cup {Whose(c)} /\ personaCall[c].op = "delete")
  BY PersonaRevisionsGrow
<1>4. Whose(d)' = Whose(d) /\ (Whose(d) \in archived => Whose(d) \in archived')
      /\ (personaCall[d].revision \in 1..newest[Whose(d)] => personaCall[d].revision \in 1..newest'[Whose(d)])
  <2>1. newest[Whose(d)] \in Nat /\ newest'[Whose(d)] \in Nat /\ newest'[Whose(d)] >= newest[Whose(d)]
    BY <1>2, <1>3 DEF RevisionNo
  <2> QED
    BY <1>1, <1>3, <2>1 DEF Whose
<1>5. Running(d) /\ Whose(d) \in archived' => Whose(d) \in archived \/ Whose(d) \in deleteRaced
  BY <1>1, <1>3 DEF PersonaInv, DeletionsMeetOthers
<1>6. PersonaShape(d)'
  BY <1>1, <1>2, <1>4, <1>5 DEF PersonaShape, Running, PersonaAt
<1>7. PersonaDoneSoFar(d)'
  <2>1. Running(d) => ~personaCall[d].alone
    BY <1>1 DEF PersonaInv, PersonaAloneIsAlone
  <2> QED
    BY <1>1, <1>2, <2>1 DEF PersonaDoneSoFar, PersonaShape, Running, PersonaAt
<1> QED
  BY <1>6, <1>7

\* What is so once the request has ended, when it was alone.
LEMMA PersonaEndsAsItSays ==
  ASSUME PersonaInv, NEW c \in PersonaCall, PersonaWork(c) PROVE OneRequestDoesIt'
<1>1. personaCall \in [PersonaCall -> PersonaRequest] /\ personaCall[c] \in PersonaRequest /\ PersonaShape(c)
      /\ PersonaDoneSoFar(c) /\ Whose(c) \in Persona /\ current \in [Persona -> RevisionNo] /\ newest \in [Persona -> RevisionNo]
      /\ selection \in Selection /\ Running(c)
  BY PersonaWorkMoves DEF PersonaInv, PersonasInvariant, PersonasTypeOK, PersonaRequest, Whose
<1>2. CASE lonely'.op = "none"
  BY <1>2 DEF OneRequestDoesIt
<1>3. CASE lonely'.op # "none"
  <2>1. lonely' # lonely /\ lonely' # NoneLonely
    BY <1>1, <1>3, NoPersonaIsThere DEF PersonaInv, LonelyIsQuiet
  <2>2. \A ok : PersonaEnds(c, ok) =>
          /\ personaCall[c].alone /\ ok /\ lonely'.op = personaCall[c].op /\ lonely'.persona = Whose(c)
          /\ lonely'.revision = personaCall[c].revision
    BY <2>1 DEF PersonaEnds
  <2>3. \/ InsertRevision(c) \/ Unselect(c) \/ AdmitActivation(c) \/ LogSwitch(c) \/ LogRollback(c)
    BY <2>1, <2>2 DEF PersonaWork, CompareRevision, Archive, FindSelection, Select, Repoint, LookAtSelection, PersonaGoes
  <2> USE <1>1, <2>1, <2>2 DEF PersonaShape, PersonaDoneSoFar, PersonaAt
  <2>4. CASE InsertRevision(c)
    <3>1. PersonaEnds(c, TRUE) /\ newest'[Whose(c)] = personaCall[c].revision + 1 /\ current'[Whose(c)] = personaCall[c].revision + 1
          /\ personaCall[c].op = "update"
      BY <2>4, ZenonT(60) DEF InsertRevision
    <3> QED
      BY <3>1 DEF OneRequestDoesIt
  <2>5. CASE Unselect(c)
    <3>1. PersonaEnds(c, TRUE) /\ personaCall[c].op = "delete" /\ Whose(c) \in archived' /\ (selection'.id = 0 \/ selection'.persona # Whose(c))
      BY <2>5, NoPersonaIsThere DEF Unselect
    <3> QED
      BY <3>1 DEF OneRequestDoesIt
  <2>6. CASE AdmitActivation(c)
    <3>1. PersonaEnds(c, personaCall[c].op = "rollback") /\ Whose(c) \in archived' /\ current' = current /\ personaCall[c].pc = "admit"
      BY <2>6 DEF AdmitActivation
    <3>2. personaCall[c].op = "rollback" /\ current'[Whose(c)] = personaCall[c].revision
      BY <3>1
    <3> QED
      BY <3>1, <3>2 DEF OneRequestDoesIt
  <2>7. CASE LogSwitch(c)
    <3>1. PersonaEnds(c, TRUE) /\ selection' = selection /\ current' = current /\ personaCall[c].pc = "log"
      BY <2>7 DEF LogSwitch
    <3> QED
      BY <3>1 DEF OneRequestDoesIt
  <2>8. CASE LogRollback(c)
    <3>1. PersonaEnds(c, TRUE) /\ selection' = selection /\ current' = current /\ personaCall[c].pc = "noteRollback"
          /\ ~(personaCall[c].found.id # 0 /\ personaCall[c].found.persona = Whose(c))
      BY <2>8 DEF LogRollback, PersonaGoes
    <3> QED
      BY <3>1 DEF OneRequestDoesIt
  <2> QED
    BY <2>3, <2>4, <2>5, <2>6, <2>7, <2>8
<1> QED
  BY <1>2, <1>3

\* A request that has selected makes no second row.
LEMMA PersonaCountMoves ==
  ASSUME PersonaInv, NEW c \in PersonaCall, PersonaWork(c) PROVE SelectionsAreCounted' /\ selections' \in 0..MaxPersonaCalls
<1>1. personaCall \in [PersonaCall -> PersonaRequest] /\ personaCalls \in 0..MaxPersonaCalls /\ selections \in 0..MaxPersonaCalls
      /\ IsFiniteSet(MaySelect) /\ selections + Cardinality(MaySelect) <= personaCalls
  BY DEF PersonaInv, PersonasInvariant, PersonasTypeOK, PersonaRequest, SelectionsAreCounted
<1>2. Running(c) /\ UNCHANGED personaCalls /\ \A d \in PersonaCall : d # c => personaCall'[d] = personaCall[d]
  BY <1>1, PersonaWorkMoves
<1>3. personaCall[c].pc = "log" => personaCall'[c].pc = "idle"
  BY <1>1, NoPersonaIsThere DEF PersonaWork, CompareRevision, InsertRevision, Archive, Unselect, AdmitActivation, FindSelection, Select,
     LogSwitch, Repoint, LookAtSelection, LogRollback, PersonaAt, PersonaEnds
<1>4. MaySelect' \subseteq MaySelect
  BY <1>2, <1>3 DEF MaySelect, Running, PersonaAt
<1>5. IsFiniteSet(MaySelect') /\ Cardinality(MaySelect') \in Nat /\ Cardinality(MaySelect) \in Nat
      /\ Cardinality(MaySelect') <= Cardinality(MaySelect)
  BY <1>1, <1>4, FS_Subset, FS_CardinalityType
<1>6. CASE selections' = selections
  BY <1>1, <1>2, <1>5, <1>6 DEF SelectionsAreCounted
<1>7. CASE selections' # selections
  <2>1. Select(c)
    BY <1>7 DEF PersonaWork, CompareRevision, InsertRevision, Archive, Unselect, AdmitActivation, FindSelection,
       LogSwitch, Repoint, LookAtSelection, LogRollback
  <2>2. selections' = selections + 1 /\ personaCall[c].pc = "select" /\ PersonaGoes(c, "log")
    BY <1>7, <2>1 DEF Select, PersonaAt
  <2>3. personaCall'[c].pc = "log"
    BY <1>1, <2>2 DEF PersonaGoes, PersonaRequest
  <2>4. c \in MaySelect /\ MaySelect' = MaySelect \ {c}
    BY <1>2, <2>2, <2>3 DEF MaySelect
  <2>5. Cardinality(MaySelect') = Cardinality(MaySelect) - 1
    BY <1>1, <2>4, FS_RemoveElement
  <2>6. selections' + Cardinality(MaySelect') <= personaCalls'
    BY <1>1, <1>2, <1>5, <2>2, <2>5
  <2>7. selections' \in 0..MaxPersonaCalls
    BY <1>1, <1>2, <1>5, <2>2, <2>6, PersonasAssumption
  <2> QED
    BY <1>5, <2>6, <2>7 DEF SelectionsAreCounted
<1> QED
  BY <1>6, <1>7

\* The second of two updates of one revision meets the unique index.
LEMMA PersonaUpdatesOnce ==
  ASSUME PersonaInv, NEW c \in PersonaCall, PersonaWork(c)
  PROVE  OneUpdatePerRevision' /\ accepted' \in [Persona -> [RevisionNo -> 0..MaxPersonaCalls]] /\ current' \in [Persona -> RevisionNo]
<1>1. /\ personaCall[c] \in PersonaRequest /\ PersonaShape(c) /\ Whose(c) \in Persona /\ OneUpdatePerRevision
      /\ newest \in [Persona -> RevisionNo] /\ current \in [Persona -> RevisionNo]
      /\ accepted \in [Persona -> [RevisionNo -> 0..MaxPersonaCalls]]
  BY DEF PersonaInv, PersonasInvariant, PersonasTypeOK, PersonaRequest, Whose
<1>2. CASE UNCHANGED <<newest, current, accepted>>
  BY <1>1, <1>2 DEF OneUpdatePerRevision
<1>3. CASE InsertRevision(c) /\ ~(personaCall[c].revision + 1 <= newest[Whose(c)])
  <2> DEFINE p == Whose(c)
             r == personaCall[c].revision + 1
  <2>1. newest' = [newest EXCEPT ![p] = r] /\ current' = [current EXCEPT ![p] = r]
        /\ accepted' = [accepted EXCEPT ![p] = [@ EXCEPT ![r] = accepted[p][r] + 1]] /\ personaCall[c].pc = "insert"
    BY <1>3 DEF InsertRevision, PersonaAt
  <2>2. personaCall[c].revision \in 1..newest[p] /\ personaCall[c].revision < MaxPersonaRevisions
    BY <1>1, <2>1 DEF PersonaShape
  <2>3. r \in RevisionNo /\ r = newest[p] + 1 /\ newest[p] \in Nat /\ r # 1
    <3>1. newest[p] \in RevisionNo
      BY <1>1
    <3> QED
      BY <1>3, <2>2, <3>1, PersonasAssumption DEF RevisionNo
  <2>4. 1 \in 0..MaxPersonaCalls
    <3>1. c \in MaySelect /\ IsFiniteSet(MaySelect) /\ selections + Cardinality(MaySelect) <= personaCalls
          /\ personaCalls \in 0..MaxPersonaCalls /\ selections \in Nat
      BY <2>1 DEF MaySelect, PersonaInv, SelectionsAreCounted, PersonasInvariant, PersonasTypeOK
    <3>2. Cardinality(MaySelect) # 0 /\ Cardinality(MaySelect) \in Nat
      BY <3>1, FS_EmptySet, FS_CardinalityType
    <3> QED
      BY <3>1, <3>2, PersonasAssumption
  <2>5. accepted[p][r] = 0
    BY <1>1, <2>3 DEF OneUpdatePerRevision
  <2> HIDE DEF p, r
  <2>6. current' \in [Persona -> RevisionNo] /\ newest' \in [Persona -> RevisionNo] /\ p \in Persona
    BY <1>1, <2>1, <2>3 DEF p
  <2>7. /\ \A q \in Persona : q # p => accepted'[q] = accepted[q]
        /\ accepted'[p] = [accepted[p] EXCEPT ![r] = 1] /\ accepted[p] \in [RevisionNo -> 0..MaxPersonaCalls]
    BY <1>1, <2>1, <2>5, <2>6
  <2>8. accepted'[p] \in [RevisionNo -> 0..MaxPersonaCalls]
    BY <2>3, <2>4, <2>7
  <2>9. accepted' \in [Persona -> [RevisionNo -> 0..MaxPersonaCalls]]
    <3>1. accepted' = [accepted EXCEPT ![p] = accepted'[p]]
      BY <1>1, <2>1, <2>6
    <3> QED
      BY <1>1, <2>8, <3>1
  <2>10. OneUpdatePerRevision'
    <3> SUFFICES ASSUME NEW q \in Persona, NEW n \in RevisionNo
                 PROVE  accepted'[q][n] = IF n = 1 \/ n > newest'[q] THEN 0 ELSE 1
      BY DEF OneUpdatePerRevision
    <3>1. accepted[q][n] = IF n = 1 \/ n > newest[q] THEN 0 ELSE 1
      BY <1>1 DEF OneUpdatePerRevision
    <3>2. CASE q # p
      <4>1. newest'[q] = newest[q] /\ accepted'[q] = accepted[q]
        BY <1>1, <2>1, <2>7, <3>2
      <4> QED
        BY <3>1, <4>1
    <3>3. CASE q = p /\ n = r
      <4>1. accepted'[q][n] = 1 /\ newest'[q] = n
        BY <1>1, <2>1, <2>3, <2>6, <2>7, <3>3
      <4>2. n \in Nat /\ n # 1
        BY <2>3, <3>3 DEF RevisionNo
      <4> QED
        BY <4>1, <4>2
    <3>4. CASE q = p /\ n # r
      <4>1. accepted'[q][n] = accepted[q][n] /\ newest'[q] = newest[q] + 1 /\ r = newest[q] + 1 /\ newest[q] \in Nat
        BY <1>1, <2>1, <2>3, <2>6, <2>7, <3>4
      <4>2. n \in Nat
        BY DEF RevisionNo
      <4>3. n > newest'[q] <=> n > newest[q]
        BY <3>4, <4>1, <4>2
      <4> QED
        BY <3>1, <4>1, <4>3
    <3> QED
      BY <3>2, <3>3, <3>4
  <2> QED
    BY <2>6, <2>9, <2>10
<1>4. CASE Repoint(c)
  <2>1. personaCall[c].revision \in RevisionNo /\ current' = [current EXCEPT ![Whose(c)] = personaCall[c].revision]
        /\ UNCHANGED <<newest, accepted>>
    BY <1>1, <1>4 DEF Repoint, PersonaShape, PersonaAt
  <2> QED
    BY <1>1, <2>1 DEF OneUpdatePerRevision
<1> QED
  BY <1>2, <1>3, <1>4 DEF PersonaWork, CompareRevision, InsertRevision, Archive, Unselect, AdmitActivation, FindSelection, Select,
     LogSwitch, LookAtSelection, LogRollback

\* What is selected: not an archived persona that met no deletion, and not without its entry.
LEMMA PersonaSelectionStays ==
  ASSUME PersonaInv, NEW c \in PersonaCall, PersonaWork(c)
  PROVE  ArchivedIsNotSelected' /\ SwitchesAreLogged' /\ selection' \in Selection /\ switchLog' \subseteq Persona \X RevisionNo
<1>1. /\ personaCall[c] \in PersonaRequest /\ PersonaShape(c) /\ Whose(c) \in Persona /\ selection \in Selection
      /\ personaCall \in [PersonaCall -> PersonaRequest]
      /\ switchLog \subseteq Persona \X RevisionNo /\ ArchivedIsNotSelected /\ SwitchesAreLogged
  BY DEF PersonaInv, PersonasInvariant, PersonasTypeOK, PersonaRequest, Whose
<1>2. Running(c) /\ UNCHANGED <<deleteRaced, personaDied>> /\ \A d \in PersonaCall : d # c => personaCall'[d] = personaCall[d]
  BY <1>1, PersonaWorkMoves
<1>3. selections' \in 0..MaxPersonaCalls
  BY PersonaCountMoves
<1>4. \A d \in PersonaCall : d # c => Whose(d)' = Whose(d)
  BY <1>2 DEF Whose
<1> USE DEF PersonaAt
<1>5. CASE Select(c) /\ selection' # selection
  <2>1. /\ \E id \in {selections', personaCall[c].found.id} :
             selection' = [id |-> id, persona |-> Whose(c), revision |-> personaCall[c].revision]
        /\ personaCall[c].pc = "select" /\ personaCall' = [personaCall EXCEPT ![c].pc = "log"] /\ UNCHANGED <<archived, switchLog>>
    BY <1>5 DEF Select, PersonaGoes
  <2>2. selection' \in Selection /\ selection'.persona = Whose(c) /\ selection'.revision = personaCall[c].revision
    BY <1>1, <1>3, <2>1 DEF Selection, PersonaRequest
  <2>3. ArchivedIsNotSelected'
    BY <1>1, <1>2, <2>1, <2>2 DEF ArchivedIsNotSelected, PersonaShape
  <2>4. personaCall'[c].pc = "log" /\ Whose(c)' = Whose(c) /\ personaCall'[c].revision = personaCall[c].revision
    BY <1>1, <2>1 DEF PersonaRequest, Whose
  <2>5. SwitchesAreLogged'
    BY <2>2, <2>4 DEF SwitchesAreLogged
  <2> QED
    BY <1>1, <2>1, <2>2, <2>3, <2>5
<1>6. CASE Unselect(c)
  <2>1. UNCHANGED <<archived, switchLog>> /\ personaCall[c].pc = "unselect"
    BY <1>6 DEF Unselect
  <2>2. CASE selection.persona = Whose(c)
    <3>1. selection' = NoSelection
      BY <1>6, <2>2 DEF Unselect
    <3> QED
      BY <1>1, <2>1, <3>1, NoPersonaIsThere DEF ArchivedIsNotSelected, SwitchesAreLogged
  <2>3. CASE selection.persona # Whose(c)
    <3>1. selection' = selection
      BY <1>6, <2>3 DEF Unselect
    <3>2. ArchivedIsNotSelected'
      BY <1>1, <1>2, <1>4, <2>1, <2>3, <3>1 DEF ArchivedIsNotSelected
    <3>3. SwitchesAreLogged'
      BY <1>1, <1>2, <1>4, <2>1, <3>1 DEF SwitchesAreLogged
    <3> QED
      BY <1>1, <2>1, <3>1, <3>2, <3>3
  <2> QED
    BY <2>2, <2>3
<1>7. CASE Archive(c)
  <2>1. archived' = archived \cup {Whose(c)} /\ UNCHANGED <<selection, switchLog>> /\ personaCall[c].pc = "archive"
        /\ personaCall' = [personaCall EXCEPT ![c].pc = "unselect"]
    BY <1>7 DEF Archive, PersonaGoes
  <2>2. personaCall'[c].pc = "unselect" /\ Whose(c)' = Whose(c)
    BY <1>1, <2>1 DEF PersonaRequest, Whose
  <2>3. ArchivedIsNotSelected'
    <3> SUFFICES ASSUME selection.id # 0, selection.persona \in archived'
                 PROVE  selection.persona \in deleteRaced
                        \/ \E d \in PersonaCall : personaCall'[d].pc = "unselect" /\ Whose(d)' = selection.persona
      BY <1>2, <2>1 DEF ArchivedIsNotSelected
    <3>1. CASE selection.persona = Whose(c)
      BY <2>2, <3>1
    <3>2. CASE selection.persona \in archived
      BY <1>1, <1>2, <1>4, <2>1, <3>2 DEF ArchivedIsNotSelected
    <3> QED
      BY <2>1, <3>1, <3>2
  <2>4. SwitchesAreLogged'
    BY <1>1, <1>2, <1>4, <2>1 DEF SwitchesAreLogged
  <2> QED
    BY <1>1, <2>1, <2>3, <2>4
<1>8. CASE LogSwitch(c)
  <2>1. switchLog' = switchLog \cup {<<Whose(c), personaCall[c].revision>>} /\ UNCHANGED <<selection, archived>>
        /\ personaCall[c].pc = "log"
    BY <1>8 DEF LogSwitch
  <2>2. personaCall[c].revision \in RevisionNo
    BY <1>1, <2>1 DEF PersonaShape
  <2>3. ArchivedIsNotSelected'
    BY <1>1, <1>2, <1>4, <2>1 DEF ArchivedIsNotSelected
  <2>4. SwitchesAreLogged'
    BY <1>1, <1>2, <1>4, <2>1 DEF SwitchesAreLogged
  <2> QED
    BY <1>1, <2>1, <2>2, <2>3, <2>4
<1>9. CASE ~Unselect(c) /\ ~Archive(c) /\ ~LogSwitch(c) /\ selection' = selection
  <2>1. UNCHANGED <<selection, archived>> /\ personaCall[c].pc \notin {"unselect", "log"}
        /\ (switchLog' = switchLog \/ (switchLog' = switchLog \cup {<<Whose(c), personaCall[c].revision>>} /\ personaCall[c].op = "rollback"))
    BY <1>1, <1>9 DEF PersonaWork, CompareRevision, InsertRevision, AdmitActivation, FindSelection, Select, Repoint, LookAtSelection,
       LogRollback, PersonaShape
  <2>2. switchLog' \subseteq Persona \X RevisionNo /\ switchLog \subseteq switchLog'
    BY <1>1, <2>1 DEF PersonaShape
  <2>3. ArchivedIsNotSelected'
    BY <1>1, <1>2, <1>4, <2>1 DEF ArchivedIsNotSelected
  <2>4. SwitchesAreLogged'
    BY <1>1, <1>2, <1>4, <2>1, <2>2 DEF SwitchesAreLogged
  <2> QED
    BY <1>1, <2>1, <2>2, <2>3, <2>4
<1>10. selection' = selection \/ Select(c) \/ Unselect(c)
  BY DEF PersonaWork, CompareRevision, InsertRevision, Archive, AdmitActivation, FindSelection, LogSwitch, Repoint, LookAtSelection,
     LogRollback
<1> QED
  BY <1>5, <1>6, <1>7, <1>8, <1>9, <1>10

LEMMA PersonaWorkInv ==
  ASSUME PersonaInv, NEW c \in PersonaCall, PersonaWork(c) PROVE PersonaInv'
<1>1. personaCall \in [PersonaCall -> PersonaRequest] /\ personaCall[c] \in PersonaRequest /\ archived \subseteq Persona
      /\ Whose(c) \in Persona /\ personaCalls \in 0..MaxPersonaCalls /\ deleteRaced \subseteq Persona /\ personaDied \in BOOLEAN
      /\ lonely \in [op : PersonaOp, persona : Persona, revision : 0..MaxPersonaRevisions]
  BY DEF PersonaInv, PersonasInvariant, PersonasTypeOK, PersonaRequest, Whose
<1>2. PICK r : personaCall' = [personaCall EXCEPT ![c] = r] /\ PersonaBecomes(c, r)
  BY PersonaWorkMoves
<1>3. r \in PersonaRequest /\ r.op \in {personaCall[c].op, "none"}
      /\ (r.pc # "idle" => r.alone = personaCall[c].alone) /\ (r.op # "none" => r.persona = Whose(c))
  BY <1>2, NoPersonaIsThere DEF PersonaBecomes
<1>4. personaCall' \in [PersonaCall -> PersonaRequest] /\ personaCall'[c] = r
      /\ \A d \in PersonaCall : d # c => personaCall'[d] = personaCall[d]
  BY <1>1, <1>2, <1>3
<1>5. Running(c) /\ UNCHANGED <<personaCalls, deleteRaced, personaDied>> /\ lonely.op = "none" /\ personaCall[c].op # "none"
  BY PersonaWorkMoves DEF PersonaInv, LonelyIsQuiet, PersonaShape, Running, PersonaAt
<1>6. PersonasTypeOK'
  <2>1. archived' \subseteq Persona /\ newest' \in [Persona -> RevisionNo]
    BY <1>1, PersonaRevisionsGrow
  <2>2. lonely' \in [op : PersonaOp, persona : Persona, revision : 0..MaxPersonaRevisions]
    <3>1. \A ok : PersonaEnds(c, ok) => lonely' \in [op : PersonaOp, persona : Persona, revision : 0..MaxPersonaRevisions]
      BY <1>1, NoPersonaIsThere DEF PersonaEnds, PersonaRequest
    <3>2. lonely' = lonely \/ \E ok : PersonaEnds(c, ok)
      BY DEF PersonaWork, CompareRevision, InsertRevision, Archive, Unselect, AdmitActivation, FindSelection, Select, LogSwitch,
         Repoint, LookAtSelection, LogRollback, PersonaGoes
    <3> QED
      BY <1>1, <3>1, <3>2
  <2> QED
    BY <1>1, <1>4, <1>5, <2>1, <2>2, PersonaCountMoves, PersonaUpdatesOnce, PersonaSelectionStays DEF PersonasTypeOK, PersonaRequest
<1>7. PersonaAloneIsAlone'
  BY <1>3, <1>4, <1>5 DEF PersonaInv, PersonaAloneIsAlone, Running, PersonaAt
<1>8. DeletionsMeetOthers'
  BY <1>3, <1>4, <1>5 DEF PersonaInv, DeletionsMeetOthers, Running, PersonaAt, Whose
<1>9. LonelyIsQuiet'
  <2> SUFFICES ASSUME lonely'.op # "none" PROVE \A d \in PersonaCall : ~Running(d)'
    BY DEF LonelyIsQuiet
  <2>1. personaCall[c].alone /\ personaCall'[c] = NoPersonaCall
    BY <1>5, PersonaWorkMoves, NoPersonaIsThere
  <2> QED
    BY <1>4, <1>5, <2>1, NoPersonaIsThere DEF PersonaInv, PersonaAloneIsAlone, Running, PersonaAt
<1>10. \A d \in PersonaCall : (PersonaShape(d) /\ PersonaDoneSoFar(d))'
  <2> TAKE d \in PersonaCall
  <2>1. CASE d = c
    BY <2>1, PersonaWorkGoesOn
  <2>2. CASE d # c
    BY <2>2, PersonaOthersStay
  <2> QED
    BY <2>1, <2>2
<1> QED
  BY <1>6, <1>7, <1>8, <1>9, <1>10, PersonaCountMoves, PersonaUpdatesOnce, PersonaSelectionStays, PersonaEndsAsItSays
  DEF PersonaInv, PersonasInvariant

LEMMA PersonaBeginInv ==
  ASSUME PersonaInv, NEW c \in PersonaCall,
         NEW op \in {"update", "delete", "activate", "rollback"}, NEW first \in {"compare", "archive", "admit", "repoint"},
         NEW p \in Persona, NEW r \in Nat, r <= newest[p],
         PersonaBegins(c, op, first, p, r),
         \/ op = "update" /\ first = "compare" /\ r >= 1 /\ r < MaxPersonaRevisions
         \/ op = "delete" /\ first = "archive"
         \/ op = "activate" /\ first = "admit"
         \/ op = "rollback" /\ first = "repoint" /\ r >= 1
  PROVE  PersonaInv'
<1> DEFINE others == {d \in PersonaCall : Running(d)}
           mine == [NoPersonaCall EXCEPT !.op = op, !.pc = first, !.persona = p, !.revision = r, !.alone = others = {}]
<1>a. personaCalls < MaxPersonaCalls /\ ~Running(c)
  BY DEF PersonaBegins
<1>1. /\ personaCalls' = personaCalls + 1 /\ lonely' = NoneLonely
      /\ personaCall' = [d \in PersonaCall |-> IF d = c THEN mine ELSE [personaCall[d] EXCEPT !.alone = ~Running(d)]]
      /\ deleteRaced' = deleteRaced \cup (IF op = "delete" /\ others # {} THEN {p} ELSE {})
                           \cup {Whose(d) : d \in {d \in others : personaCall[d].op = "delete"}}
      /\ UNCHANGED <<newest, current, archived, selection, selections, switchLog, accepted, personaDied>>
  BY DEF PersonaBegins
<1>2. /\ personaCall \in [PersonaCall -> PersonaRequest] /\ newest \in [Persona -> RevisionNo] /\ personaCalls \in 0..MaxPersonaCalls
      /\ deleteRaced \subseteq Persona /\ IsFiniteSet(MaySelect) /\ selections + Cardinality(MaySelect) <= personaCalls
      /\ selections \in Nat
  BY DEF PersonaInv, PersonasInvariant, PersonasTypeOK, PersonaRequest, SelectionsAreCounted
<1>3. r \in 0..MaxPersonaRevisions /\ newest[p] \in Nat
  <2>1. newest[p] \in RevisionNo
    BY <1>2
  <2> QED
    BY <2>1, PersonasAssumption DEF RevisionNo
<1>4. mine \in PersonaRequest /\ mine.op = op /\ mine.pc = first /\ mine.persona = p /\ mine.revision = r
      /\ (mine.alone => others = {})
  <2>1. (others = {}) \in BOOLEAN
    OBVIOUS
  <2> HIDE DEF others
  <2>2. \A s \in BOOLEAN :
          LET m == [NoPersonaCall EXCEPT !.op = op, !.pc = first, !.persona = p, !.revision = r, !.alone = s] IN
          m \in PersonaRequest /\ m.op = op /\ m.pc = first /\ m.persona = p /\ m.revision = r /\ m.alone = s
    BY <1>3, NoPersonaIsThere, ZenonT(60) DEF PersonaRequest, PersonaOp, PersonaPc
  <2>3. mine.alone = (others = {})
    BY <2>1, <2>2
  <2>4. mine.alone => others = {}
    BY <2>3, Zenon
  <2> QED
    BY <2>1, <2>2, <2>4
<1> HIDE DEF mine
<1>5. \A d \in PersonaCall : d # c =>
        LET q == [personaCall[d] EXCEPT !.alone = ~Running(d)] IN
        /\ q \in PersonaRequest /\ q.op = personaCall[d].op /\ q.pc = personaCall[d].pc /\ q.persona = personaCall[d].persona
        /\ q.revision = personaCall[d].revision /\ q.found = personaCall[d].found /\ (q.alone <=> ~Running(d))
  BY <1>2 DEF PersonaRequest, Running
<1>6. personaCall' \in [PersonaCall -> PersonaRequest] /\ personaCall'[c] = mine
      /\ \A d \in PersonaCall : d # c =>
           /\ personaCall'[d].op = personaCall[d].op /\ personaCall'[d].pc = personaCall[d].pc
           /\ personaCall'[d].persona = personaCall[d].persona /\ personaCall'[d].revision = personaCall[d].revision
           /\ personaCall'[d].found = personaCall[d].found /\ (personaCall'[d].alone <=> ~Running(d))
  BY <1>1, <1>2, <1>4, <1>5
<1>7. deleteRaced \subseteq deleteRaced' /\ deleteRaced' \subseteq Persona
      /\ (op = "delete" /\ others # {} => p \in deleteRaced')
      /\ \A d \in others : personaCall[d].op = "delete" => Whose(d) \in deleteRaced'
  <2>1. \A d \in PersonaCall : Whose(d) \in Persona
    BY <1>2 DEF PersonaRequest, Whose
  <2> QED
    BY <1>1, <1>2, <2>1
<1>8. \A d \in PersonaCall : PersonaShape(d) /\ PersonaDoneSoFar(d)
  BY DEF PersonaInv
<1>9. \A d \in PersonaCall : d # c => (Running(d)' <=> Running(d)) /\ Whose(d)' = Whose(d)
  BY <1>6 DEF Running, PersonaAt, Whose
<1>10. Running(c)' /\ Whose(c)' = p
  BY <1>4, <1>6 DEF Running, PersonaAt, Whose
<1>11. \A d \in PersonaCall : PersonaShape(d)'
  <2> TAKE d \in PersonaCall
  <2>1. CASE d = c
    BY <1>1, <1>3, <1>4, <1>6, <1>10, <2>1 DEF PersonaShape, RevisionNo
  <2>2. CASE d # c
    BY <1>1, <1>6, <1>7, <1>8, <1>9, <2>2 DEF PersonaShape
  <2> QED
    BY <2>1, <2>2
<1>12. PersonaAloneIsAlone'
  <2> SUFFICES ASSUME NEW b \in PersonaCall, NEW d \in PersonaCall, b # d, Running(b)', personaCall'[b].alone PROVE ~Running(d)'
    BY DEF PersonaAloneIsAlone
  <2>1. b = c
    BY <1>6, <1>9
  <2> QED
    BY <1>4, <1>6, <1>9, <2>1
<1>13. DeletionsMeetOthers'
  <2> SUFFICES ASSUME NEW b \in PersonaCall, NEW d \in PersonaCall, b # d, Running(b)', personaCall'[d].op = "delete"
               PROVE  Whose(d)' \in deleteRaced'
    BY DEF DeletionsMeetOthers
  <2>1. CASE d = c
    <3>1. b \in others /\ op = "delete"
      BY <1>4, <1>6, <1>9, <2>1
    <3> QED
      BY <1>7, <1>10, <2>1, <3>1
  <2>2. CASE d # c
    <3>1. personaCall[d].op = "delete" /\ d \in others
      BY <1>6, <1>8, <2>2 DEF PersonaShape, Running, PersonaAt
    <3> QED
      BY <1>7, <1>9, <2>2, <3>1
  <2> QED
    BY <2>1, <2>2
<1>14. \A d \in PersonaCall : PersonaDoneSoFar(d)'
  <2> TAKE d \in PersonaCall
  <2>1. CASE d = c
    BY <1>4, <1>6, <2>1 DEF PersonaDoneSoFar
  <2>2. CASE d # c
    BY <1>6, <1>8, <2>2 DEF PersonaDoneSoFar, PersonaShape, Running, PersonaAt
  <2> QED
    BY <2>1, <2>2
<1>15. OneRequestDoesIt' /\ LonelyIsQuiet' /\ OneUpdatePerRevision'
  BY <1>1, NoPersonaIsThere DEF OneRequestDoesIt, LonelyIsQuiet, PersonaInv, PersonasInvariant, OneUpdatePerRevision
<1>16. ArchivedIsNotSelected' /\ SwitchesAreLogged'
  <2>1. \A d \in PersonaCall : Running(d) => d # c /\ personaCall'[d].pc = personaCall[d].pc /\ Whose(d)' = Whose(d)
                                             /\ personaCall'[d].revision = personaCall[d].revision
    BY <1>a, <1>6, <1>9
  <2>2. ArchivedIsNotSelected'
    <3> SUFFICES ASSUME selection.id # 0, selection.persona \in archived, selection.persona \notin deleteRaced'
                 PROVE  \E d \in PersonaCall : personaCall'[d].pc = "unselect" /\ Whose(d)' = selection.persona
      BY <1>1 DEF ArchivedIsNotSelected, PersonaAt
    <3>1. PICK d \in PersonaCall : personaCall[d].pc = "unselect" /\ Whose(d) = selection.persona
      BY <1>7 DEF PersonaInv, PersonasInvariant, ArchivedIsNotSelected, PersonaAt
    <3> QED
      BY <2>1, <3>1 DEF Running, PersonaAt
  <2>3. SwitchesAreLogged'
    <3> SUFFICES ASSUME selection.id # 0, ~personaDied, <<selection.persona, selection.revision>> \notin switchLog
                 PROVE  \E d \in PersonaCall : personaCall'[d].pc = "log" /\ Whose(d)' = selection.persona
                                               /\ personaCall'[d].revision = selection.revision
      BY <1>1 DEF SwitchesAreLogged, PersonaAt
    <3>1. PICK d \in PersonaCall : personaCall[d].pc = "log" /\ Whose(d) = selection.persona
                                   /\ personaCall[d].revision = selection.revision
      BY DEF PersonaInv, PersonasInvariant, SwitchesAreLogged, PersonaAt
    <3> QED
      BY <2>1, <3>1 DEF Running, PersonaAt
  <2> QED
    BY <2>2, <2>3
<1>17. PersonasTypeOK'
  <2>1. personaCalls' \in 0..MaxPersonaCalls
    BY <1>a, <1>1, <1>2, PersonasAssumption
  <2> QED
    BY <1>1, <1>6, <1>7, <2>1, NoPersonaIsThere DEF PersonaInv, PersonasInvariant, PersonasTypeOK, PersonaRequest
<1>18. SelectionsAreCounted'
  <2>1. c \notin MaySelect /\ MaySelect' = MaySelect \cup {c}
    BY <1>a, <1>4, <1>6 DEF MaySelect, Running, PersonaAt
  <2>2. IsFiniteSet(MaySelect') /\ Cardinality(MaySelect') = Cardinality(MaySelect) + 1 /\ Cardinality(MaySelect) \in Nat
    BY <1>2, <2>1, FS_AddElement, FS_CardinalityType
  <2> QED
    BY <1>1, <1>2, <2>2 DEF SelectionsAreCounted
<1> QED
  BY <1>11, <1>12, <1>13, <1>14, <1>15, <1>16, <1>17, <1>18, SMTT(60) DEF PersonaInv, PersonasInvariant

LEMMA PersonaStepInv == PersonaInv /\ [PersonasNext]_personaVars => PersonaInv'
<1> SUFFICES ASSUME PersonaInv, [PersonasNext]_personaVars PROVE PersonaInv'
  OBVIOUS
<1>1. ASSUME NEW c \in PersonaCall, BeginPersonaCall(c) PROVE PersonaInv'
  <2>1. PICK p \in Persona :
          \/ \E r \in 1..newest[p] : r < MaxPersonaRevisions /\ PersonaBegins(c, "update", "compare", p, r)
          \/ PersonaBegins(c, "delete", "archive", p, 0)
          \/ \E r \in 0..newest[p] : PersonaBegins(c, "activate", "admit", p, r)
          \/ \E r \in 1..newest[p] : PersonaBegins(c, "rollback", "repoint", p, r)
    BY <1>1 DEF BeginPersonaCall
  <2>2. newest[p] \in Nat /\ newest[p] >= 0
    BY DEF PersonaInv, PersonasInvariant, PersonasTypeOK, RevisionNo
  <2>3. ASSUME NEW r \in 1..newest[p], r < MaxPersonaRevisions, PersonaBegins(c, "update", "compare", p, r) PROVE PersonaInv'
    <3>1. r \in Nat /\ r <= newest[p] /\ r >= 1
      BY <2>2
    <3> QED
      BY <2>3, <3>1, PersonaBeginInv
  <2>4. CASE PersonaBegins(c, "delete", "archive", p, 0)
    BY <2>2, <2>4, PersonaBeginInv
  <2>5. ASSUME NEW r \in 0..newest[p], PersonaBegins(c, "activate", "admit", p, r) PROVE PersonaInv'
    <3>1. r \in Nat /\ r <= newest[p]
      BY <2>2
    <3> QED
      BY <2>5, <3>1, PersonaBeginInv
  <2>6. ASSUME NEW r \in 1..newest[p], PersonaBegins(c, "rollback", "repoint", p, r) PROVE PersonaInv'
    <3>1. r \in Nat /\ r <= newest[p] /\ r >= 1
      BY <2>2
    <3> QED
      BY <2>6, <3>1, PersonaBeginInv
  <2> QED
    BY <2>1, <2>3, <2>4, <2>5, <2>6
<1>2. ASSUME NEW c \in PersonaCall, PersonaWork(c) PROVE PersonaInv'
  BY <1>2, PersonaWorkInv
<1>3. CASE PersonaApiDies
  <2>1. /\ personaDied' = TRUE /\ personaCall' = [c \in PersonaCall |-> NoPersonaCall] /\ lonely' = NoneLonely
        /\ deleteRaced' = deleteRaced \cup {Whose(c) : c \in {c \in PersonaCall : personaCall[c].op = "delete"}}
        /\ UNCHANGED <<newest, current, archived, selection, selections, switchLog, accepted, personaCalls>>
    BY <1>3 DEF PersonaApiDies
  <2>2. personaCall' \in [PersonaCall -> PersonaRequest]
        /\ \A c \in PersonaCall : personaCall'[c].op = "none" /\ personaCall'[c].pc = "idle"
    BY <2>1, NoPersonaIsThere
  <2>3. deleteRaced \subseteq deleteRaced' /\ deleteRaced' \subseteq Persona
    BY <2>1 DEF PersonaInv, PersonasInvariant, PersonasTypeOK, Whose
  <2>4. ArchivedIsNotSelected'
    <3> SUFFICES ASSUME selection.id # 0, selection.persona \in archived PROVE selection.persona \in deleteRaced'
      BY <2>1 DEF ArchivedIsNotSelected
    <3>1. \/ selection.persona \in deleteRaced
          \/ \E c \in PersonaCall : personaCall[c].pc = "unselect" /\ Whose(c) = selection.persona
      BY DEF PersonaInv, PersonasInvariant, ArchivedIsNotSelected, PersonaAt
    <3>2. \A c \in PersonaCall : personaCall[c].pc = "unselect" => personaCall[c].op = "delete"
      BY DEF PersonaInv, PersonaShape
    <3> QED
      BY <2>1, <3>1, <3>2
  <2>5. PersonasTypeOK'
    BY <2>1, <2>2, <2>3, NoPersonaIsThere DEF PersonaInv, PersonasInvariant, PersonasTypeOK, PersonaRequest
  <2>6. SwitchesAreLogged' /\ OneRequestDoesIt' /\ LonelyIsQuiet' /\ OneUpdatePerRevision'
    BY <2>1, NoPersonaIsThere
    DEF SwitchesAreLogged, OneRequestDoesIt, LonelyIsQuiet, OneUpdatePerRevision, PersonaInv, PersonasInvariant
  <2>7. PersonaAloneIsAlone' /\ DeletionsMeetOthers' /\ \A c \in PersonaCall : (PersonaShape(c) /\ PersonaDoneSoFar(c))'
    BY <2>2 DEF PersonaAloneIsAlone, DeletionsMeetOthers, PersonaShape, PersonaDoneSoFar, Running, PersonaAt
  <2>8. MaySelect' = {}
    BY <2>2 DEF MaySelect
  <2>9. IsFiniteSet(MaySelect') /\ Cardinality(MaySelect') = 0
    BY <2>8, FS_EmptySet
  <2>10. SelectionsAreCounted'
    <3>1. selections \in Nat /\ personaCalls \in Nat /\ IsFiniteSet(MaySelect) /\ selections + Cardinality(MaySelect) <= personaCalls
      BY DEF PersonaInv, PersonasInvariant, PersonasTypeOK, SelectionsAreCounted
    <3>2. Cardinality(MaySelect) \in Nat
      BY <3>1, FS_CardinalityType
    <3> QED
      BY <2>1, <2>9, <3>1, <3>2 DEF SelectionsAreCounted
  <2> QED
    BY <2>4, <2>5, <2>6, <2>7, <2>10 DEF PersonaInv, PersonasInvariant
<1>4. CASE UNCHANGED personaVars
  <2>1. UNCHANGED <<newest, current, archived, selection, selections, switchLog, accepted, personaCall, personaCalls,
                 deleteRaced, lonely, personaDied>> /\ MaySelect' = MaySelect
    BY <1>4 DEF personaVars, MaySelect
  <2>2. PersonasTypeOK' /\ OneUpdatePerRevision' /\ OneRequestDoesIt' /\ SelectionsAreCounted'
    BY <2>1 DEF PersonaInv, PersonasInvariant, PersonasTypeOK, OneUpdatePerRevision, OneRequestDoesIt, SelectionsAreCounted
  <2>3. ArchivedIsNotSelected' /\ SwitchesAreLogged'
    BY <2>1 DEF PersonaInv, PersonasInvariant, ArchivedIsNotSelected, SwitchesAreLogged, PersonaAt, Whose
  <2>4. PersonaAloneIsAlone' /\ DeletionsMeetOthers' /\ LonelyIsQuiet'
    BY <2>1 DEF PersonaInv, PersonaAloneIsAlone, DeletionsMeetOthers, LonelyIsQuiet, Running, PersonaAt, Whose
  <2>5. \A c \in PersonaCall : (PersonaShape(c) /\ PersonaDoneSoFar(c))'
    BY <2>1 DEF PersonaInv, PersonaShape, PersonaDoneSoFar, Whose
  <2> QED
    BY <2>2, <2>3, <2>4, <2>5 DEF PersonaInv, PersonasInvariant
<1> QED
  BY <1>1, <1>2, <1>3, <1>4 DEF PersonasNext, PersonaWork

-----------------------------------------------------------------------------
(***************************************************************************)
(* A connection beyond the network.  That only the user enables an entity  *)
(* rests on what the tasks have read: whoever writes it as enabled has     *)
(* read it so, and then the user had once asked for it.  The rest is said  *)
(* of tasks that meet no other: what such a task has done so far is still  *)
(* as it left it.                                                          *)
(***************************************************************************)
TaskType == [kind : TaskKind \cup {"none"}, pc : TaskPc, to : Row, read : Row, over : 0..MaxSockets]
HistoryType == [begun : 0..MaxTasks, met : BOOLEAN, enabled : BOOLEAN, word : Row, gone : BOOLEAN, called : BOOLEAN]

TaskShape(k) ==
  /\ task[k].kind = "none" => task[k] = NoTask
  /\ IsHome => task[k].pc # "refresh"
  /\ ~IsHome => task[k].pc \notin {"subscribe", "open", "choose"}
  /\ task[k].read = "on" => history.enabled
  /\ task[k].kind \in {"state", "event", "call"} /\ task[k].pc = "write" => history.enabled

TaskDoneSoFar(k) ==
  ~history.met =>
    /\ IsHome /\ task[k].pc = "cache" => task[k].read = entity
    /\ task[k].kind \in {"state", "event"} /\ task[k].pc = "write" => entity = "on"
    /\ task[k].pc \in {"subscribe", "open", "row", "entities", "samples"} => subscription = 0
    /\ task[k].pc \in {"entities", "samples"} => connection = "none"
    /\ task[k].pc = "samples" => entity = "none"
    /\ history.gone => task[k].kind # "connect" /\ task[k].pc \in {"end", "check", "fail"}

TasksMeet == ~history.met => \A j, k \in Task : task[j] # NoTask /\ task[k] # NoTask => j = k
OnlyHomeSubscribes == ~IsHome => subscription = 0

HomeInv ==
  /\ HomeInvariant /\ TasksMeet /\ OnlyHomeSubscribes
  /\ \A k \in Task : TaskShape(k) /\ TaskDoneSoFar(k)

HomeWork(k) ==
  \/ SyncChecks(k) \/ ConnectWrites(k) \/ Fetch(k) \/ Refresh(k)
  \/ Cache(k) \/ Mark(k) \/ SyncFails(k) \/ Subscribe(k) \/ Opened(k) \/ Choose(k)
  \/ PatchReads(k) \/ PatchWrites(k) \/ EntityReads(k) \/ EntityWrites(k) \/ CallChecks(k) \/ CallService(k)
  \/ DeleteLooks(k) \/ DeleteRow(k) \/ DeleteEntities(k) \/ DeleteSamples(k)

LEMMA NoTaskIsTyped == NoTask \in TaskType /\ NoTask.kind = "none" /\ NoTask.pc = "end" /\ NoTask.read = "none"
BY IntegrationsAssumption DEF NoTask, TaskType, TaskPc, Row

LEMMA HomeInitInv == HomeInit => HomeInv
<1> SUFFICES ASSUME HomeInit PROVE HomeInv
  OBVIOUS
<1>1. \A k \in Task : task[k] = NoTask
  BY DEF HomeInit
<1>2. HomeTypeOK
  <2>1. task \in [Task -> TaskType]
    BY NoTaskIsTyped DEF HomeInit
  <2>2. history \in HistoryType
    BY IntegrationsAssumption DEF HomeInit, HistoryType, Row
  <2>3. socket \in [Socket -> {"unused", "opening", "open", "left", "closed"}] /\ subscription \in 0..MaxSockets
    BY IntegrationsAssumption DEF HomeInit
  <2> QED
    BY <2>1, <2>2, <2>3 DEF HomeInit, HomeTypeOK, TaskType, HistoryType, Row
<1>3. OnlyTheUserEnables /\ AloneEachIsDone /\ OnlyHomeSubscribes
  BY DEF HomeInit, OnlyTheUserEnables, AloneEachIsDone, Delivering, OnlyHomeSubscribes
<1>4. OneCycleAtATime
  BY <1>1, NoTaskIsTyped DEF HomeInit, OneCycleAtATime
<1>5. TasksMeet /\ \A k \in Task : TaskShape(k) /\ TaskDoneSoFar(k)
  BY <1>1, NoTaskIsTyped DEF TasksMeet, TaskShape, TaskDoneSoFar
<1> QED
  BY <1>2, <1>3, <1>4, <1>5 DEF HomeInv, HomeInvariant

\* A task that works changes its own record only; it remains of its kind, or is a
\* connection that subscribes at last, or it ends.
TaskBecomes(k, r) ==
  \/ r = NoTask
  \/ r \in TaskType /\ r.kind \in {task[k].kind, "subscribe"} /\ (r.kind # task[k].kind => task[k].kind = "connect")

LEMMA HomeWorkMoves ==
  ASSUME HomeInv, NEW k \in Task, HomeWork(k)
  PROVE  /\ \E r : task' = [task EXCEPT ![k] = r] /\ TaskBecomes(k, r)
         /\ task[k] # NoTask /\ UNCHANGED <<provider, sourceActive>>
         /\ syncRunning' = syncRunning \/ (task[k].kind = "cycle" /\ syncRunning' = FALSE)
         /\ task[k].kind = "cycle" => (task'[k].kind = "cycle" /\ syncRunning' = syncRunning) \/ (task'[k] = NoTask /\ syncRunning' = FALSE)
<1>1. task \in [Task -> TaskType] /\ entity \in Row
  BY DEF HomeInv, HomeInvariant, HomeTypeOK, TaskType
<1>2. task[k] \in TaskType /\ TaskBecomes(k, NoTask)
  BY <1>1 DEF TaskBecomes
<1>3. \A pc \in TaskPc : LET r == [task[k] EXCEPT !.pc = pc] IN TaskBecomes(k, r) /\ r.kind = task[k].kind
  BY <1>2 DEF TaskBecomes, TaskType
<1>4. \A pc \in TaskPc : LET r == [task[k] EXCEPT !.pc = pc, !.read = entity] IN TaskBecomes(k, r) /\ r.kind = task[k].kind
  BY <1>1, <1>2 DEF TaskBecomes, TaskType
<1>5. \A pc \in TaskPc, s \in Socket : LET r == [task[k] EXCEPT !.pc = pc, !.over = s] IN TaskBecomes(k, r) /\ r.kind = task[k].kind
  <2>1. \A s \in Socket : s \in 0..MaxSockets
    BY IntegrationsAssumption DEF Socket
  <2> QED
    BY <1>2, <2>1 DEF TaskBecomes, TaskType
<1>6. task[k].kind = "connect" => TaskBecomes(k, [task[k] EXCEPT !.kind = "subscribe", !.pc = "subscribe"])
  BY <1>2 DEF TaskBecomes, TaskType, TaskKind, TaskPc
<1> DEFINE Moved == \E r : task' = [task EXCEPT ![k] = r] /\ TaskBecomes(k, r)
           Same == task'[k].kind = task[k].kind
           Done == task'[k] = NoTask /\ syncRunning' = IF task[k].kind = "cycle" THEN FALSE ELSE syncRunning
<1>a. \A pc \in TaskPc : Goes(k, pc) => Moved /\ Same
  BY <1>1, <1>3 DEF Goes
<1>b. TaskEnds(k) => Moved /\ Done
  BY <1>1, <1>2 DEF TaskEnds
<1>c. task' = [task EXCEPT ![k].pc = "cache"] => Moved /\ Same
  BY <1>1, <1>3 DEF TaskPc
<1>d. task' = [task EXCEPT ![k] = [@ EXCEPT !.pc = "cache", !.read = entity]] => Moved /\ Same
  BY <1>1, <1>4, Zenon DEF TaskPc
<1>e. ASSUME NEW s \in Socket, task' = [task EXCEPT ![k] = [@ EXCEPT !.pc = "open", !.over = s]] PROVE Moved /\ Same
  <2> DEFINE r == [task[k] EXCEPT !.pc = "open", !.over = s]
  <2>1. TaskBecomes(k, r) /\ r.kind = task[k].kind
    BY <1>5, Zenon DEF TaskPc
  <2>2. task' = [task EXCEPT ![k] = r]
    BY <1>e
  <2> HIDE DEF r
  <2>3. task'[k] = r
    BY <1>1, <2>2
  <2> QED
    BY <2>1, <2>2, <2>3, Zenon
<1>f. task[k].kind = "connect" /\ task' = [task EXCEPT ![k] = [@ EXCEPT !.kind = "subscribe", !.pc = "subscribe"]] => Moved
  BY <1>1, <1>6
<1>g. {"test", "fetch", "fail", "refresh", "mark", "subscribe", "choose", "write", "row", "entities", "samples"} \subseteq TaskPc
  BY DEF TaskPc
<1>h. \A kinds, pc : AtStep(k, kinds, pc) => task[k].kind \in kinds
  BY DEF AtStep
<1>i. task[k].kind # "none" => task[k] # NoTask
  BY NoTaskIsTyped
<1> HIDE DEF Moved
<1> SUFFICES /\ Moved /\ task[k].kind # "none" /\ UNCHANGED <<provider, sourceActive>>
             /\ (Same /\ syncRunning' = syncRunning) \/ Done \/ (task[k].kind = "connect" /\ syncRunning' = syncRunning)
  <2> SUFFICES ASSUME /\ Moved /\ task[k].kind # "none" /\ UNCHANGED <<provider, sourceActive>>
                      /\ (Same /\ syncRunning' = syncRunning) \/ Done \/ (task[k].kind = "connect" /\ syncRunning' = syncRunning)
               PROVE  /\ Moved /\ task[k] # NoTask /\ UNCHANGED <<provider, sourceActive>>
                      /\ syncRunning' = syncRunning \/ (task[k].kind = "cycle" /\ syncRunning' = FALSE)
                      /\ task[k].kind = "cycle" => \/ task'[k].kind = "cycle" /\ syncRunning' = syncRunning
                                                   \/ task'[k] = NoTask /\ syncRunning' = FALSE
    BY DEF Moved
  <2> QED
    BY <1>i
<1> USE <1>a, <1>b, <1>g, <1>h
<1>7. CASE SyncChecks(k)
  BY <1>7 DEF SyncChecks, Syncing
<1>8. CASE ConnectWrites(k)
  BY <1>8 DEF ConnectWrites
<1>9. CASE Fetch(k)
  BY <1>9, <1>d DEF Fetch, Syncing
<1>10. CASE Refresh(k)
  BY <1>10, <1>c DEF Refresh, Syncing
<1>11. CASE Cache(k)
  BY <1>11 DEF Cache, Syncing
<1>12. CASE Mark(k)
  BY <1>12 DEF Mark, Syncing
<1>13. CASE SyncFails(k)
  BY <1>13 DEF SyncFails, Syncing
<1>14. CASE Subscribe(k)
  BY <1>14, <1>e DEF Subscribe, Syncing, SubscribeFails
<1>15. CASE Opened(k)
  <2>1. task[k].kind # "none"
    <3>1. task[k].pc = "open"
      BY <1>15 DEF Opened
    <3> QED
      BY <3>1, NoTaskIsTyped DEF HomeInv, TaskShape
  <2> QED
    BY <1>15, <2>1 DEF Opened, Subscribed, SubscribeFails
<1>16. CASE Choose(k)
  BY <1>16, <1>f DEF Choose
<1>17. CASE PatchReads(k)
  BY <1>17 DEF PatchReads
<1>18. CASE PatchWrites(k)
  BY <1>18 DEF PatchWrites
<1>19. CASE EntityReads(k)
  BY <1>19 DEF EntityReads
<1>20. CASE EntityWrites(k)
  BY <1>20 DEF EntityWrites
<1>21. CASE CallChecks(k)
  BY <1>21 DEF CallChecks
<1>22. CASE CallService(k)
  BY <1>22 DEF CallService
<1>23. CASE DeleteLooks(k)
  BY <1>23 DEF DeleteLooks
<1>24. CASE DeleteRow(k)
  BY <1>24 DEF DeleteRow
<1>25. CASE DeleteEntities(k)
  BY <1>25 DEF DeleteEntities
<1>26. CASE DeleteSamples(k)
  BY <1>26 DEF DeleteSamples
<1> QED
  BY <1>7, <1>8, <1>9, <1>10, <1>11, <1>12, <1>13, <1>14, <1>15, <1>16, <1>17, <1>18, <1>19, <1>20, <1>21, <1>22, <1>23,
     <1>24, <1>25, <1>26 DEF HomeWork

\* What the user last said of it, and whether a service was called.
LEMMA HomeHistoryMoves ==
  ASSUME HomeInv, NEW k \in Task, HomeWork(k)
  PROVE  /\ history' \in HistoryType /\ history'.met = history.met
         /\ history.enabled => history'.enabled
         /\ history'.gone => history.gone \/ DeleteSamples(k)
         /\ history.gone => history'.gone
         /\ history'.called => history.called \/ CallService(k)
         /\ \/ history'.word = history.word
            \/ Choose(k) /\ entity # "none" /\ history'.word = task[k].to
            \/ PatchWrites(k) /\ history'.word = task[k].to
            \/ DeleteEntities(k)
         /\ PatchWrites(k) \/ (Choose(k) /\ entity # "none") => (history'.word = task[k].to /\ (task[k].to = "on" => history'.enabled))
         /\ DeleteSamples(k) => history'.gone
<1>1. history \in HistoryType /\ task[k].to \in Row
  BY SMTT(60) DEF HomeInv, HomeInvariant, HomeTypeOK, HistoryType
<1>2. \/ history' = history /\ ~PatchWrites(k) /\ ~(Choose(k) /\ entity # "none") /\ ~DeleteSamples(k)
      \/ /\ PatchWrites(k) \/ (Choose(k) /\ entity # "none")
         /\ history' = [history EXCEPT !.word = task[k].to, !.enabled = (history.enabled \/ task[k].to = "on")]
         /\ ~DeleteSamples(k)
      \/ CallService(k) /\ history' = [history EXCEPT !.called = (history.called \/ connection # "none")]
         /\ ~PatchWrites(k) /\ ~Choose(k) /\ ~DeleteSamples(k)
      \/ DeleteEntities(k) /\ history' = [history EXCEPT !.word = "off"] /\ ~PatchWrites(k) /\ ~Choose(k) /\ ~DeleteSamples(k)
      \/ DeleteSamples(k) /\ history' = [history EXCEPT !.gone = TRUE] /\ ~PatchWrites(k) /\ ~Choose(k)
  BY ZenonT(60) DEF HomeWork, SyncChecks, ConnectWrites, Fetch, Refresh, Cache, Mark, SyncFails, Subscribe, Opened, Choose, PatchReads,
     PatchWrites, EntityReads, EntityWrites, CallChecks, CallService, DeleteLooks, DeleteRow, DeleteEntities, DeleteSamples, AtStep
<1>3. CASE history' = history /\ ~PatchWrites(k) /\ ~(Choose(k) /\ entity # "none") /\ ~DeleteSamples(k)
  BY <1>1, <1>3
<1>4. CASE /\ PatchWrites(k) \/ (Choose(k) /\ entity # "none")
           /\ history' = [history EXCEPT !.word = task[k].to, !.enabled = (history.enabled \/ task[k].to = "on")]
           /\ ~DeleteSamples(k)
  <2>1. \A e \in BOOLEAN :
          LET h == [history EXCEPT !.word = task[k].to, !.enabled = e] IN
          /\ h \in HistoryType /\ h.met = history.met /\ h.gone = history.gone /\ h.called = history.called
          /\ h.word = task[k].to /\ h.enabled = e
    BY <1>1 DEF HistoryType
  <2>2. (history.enabled \/ task[k].to = "on") \in BOOLEAN
    OBVIOUS
  <2>3. history' \in HistoryType /\ history'.met = history.met /\ history'.gone = history.gone /\ history'.called = history.called
        /\ history'.word = task[k].to /\ history'.enabled = (history.enabled \/ task[k].to = "on")
    BY <1>4, <2>1, <2>2, Zenon
  <2> QED
    BY <1>4, <2>3, Zenon
<1>5. CASE CallService(k) /\ history' = [history EXCEPT !.called = (history.called \/ connection # "none")]
           /\ ~PatchWrites(k) /\ ~Choose(k) /\ ~DeleteSamples(k)
  BY <1>1, <1>5 DEF HistoryType
<1>6. CASE DeleteEntities(k) /\ history' = [history EXCEPT !.word = "off"] /\ ~PatchWrites(k) /\ ~Choose(k) /\ ~DeleteSamples(k)
  BY <1>1, <1>6 DEF HistoryType, Row
<1>7. CASE DeleteSamples(k) /\ history' = [history EXCEPT !.gone = TRUE] /\ ~PatchWrites(k) /\ ~Choose(k)
  BY <1>1, <1>7 DEF HistoryType
<1> QED
  BY <1>2, <1>3, <1>4, <1>5, <1>6, <1>7

\* What its step leaves behind of it.
LEMMA HomeTaskGoesOn ==
  ASSUME HomeInv, NEW k \in Task, HomeWork(k) PROVE TaskShape(k)'
<1>1. task \in [Task -> TaskType] /\ task[k] \in TaskType /\ entity \in Row /\ TaskShape(k) /\ (entity = "on" => history.enabled)
  BY DEF HomeInv, HomeInvariant, HomeTypeOK, TaskType, OnlyTheUserEnables
<1>2. (history.enabled => history'.enabled) /\ IsHome' = IsHome
  BY HomeHistoryMoves, HomeWorkMoves DEF IsHome
<1>3. CASE task'[k] = NoTask
  BY <1>3, NoTaskIsTyped DEF TaskShape
<1>4. SUFFICES ASSUME task'[k] # NoTask PROVE TaskShape(k)'
  BY <1>3
<1>a. \A pc : Goes(k, pc) => task'[k].pc = pc /\ task'[k].kind = task[k].kind /\ task'[k].read = task[k].read
  BY <1>1 DEF Goes, TaskType
<1>b. ~TaskEnds(k)
  BY <1>1, <1>4 DEF TaskEnds
<1>c. task[k].kind # "none" /\ (task'[k].kind = task[k].kind => task'[k].kind # "none")
  BY <1>1, HomeWorkMoves DEF TaskShape
<1>d. task' = [task EXCEPT ![k] = [@ EXCEPT !.pc = "cache", !.read = entity]] =>
        task'[k].pc = "cache" /\ task'[k].kind = task[k].kind /\ task'[k].read = entity
  BY <1>1 DEF TaskType
<1>e. \A s \in Socket : task' = [task EXCEPT ![k] = [@ EXCEPT !.pc = "open", !.over = s]] =>
        task'[k].pc = "open" /\ task'[k].kind = task[k].kind /\ task'[k].read = task[k].read
  BY <1>1 DEF TaskType
<1>f. task' = [task EXCEPT ![k] = [@ EXCEPT !.kind = "subscribe", !.pc = "subscribe"]] =>
        task'[k].pc = "subscribe" /\ task'[k].kind = "subscribe" /\ task'[k].read = task[k].read
  BY <1>1 DEF TaskType
<1>g. task' = [task EXCEPT ![k].pc = "cache"] => task'[k].pc = "cache" /\ task'[k].kind = task[k].kind /\ task'[k].read = task[k].read
  BY <1>1 DEF TaskType
<1> USE <1>1, <1>2, <1>4, <1>a, <1>b, <1>c DEF AtStep, TaskShape
<1>5. CASE SyncChecks(k)
  BY <1>5 DEF SyncChecks, Syncing
<1>6. CASE ConnectWrites(k)
  BY <1>6 DEF ConnectWrites
<1>7. CASE Fetch(k)
  BY <1>7, <1>d DEF Fetch, Syncing
<1>8. CASE Refresh(k)
  BY <1>8, <1>g DEF Refresh, Syncing
<1>9. CASE Cache(k)
  BY <1>9 DEF Cache, Syncing
<1>10. CASE Mark(k)
  BY <1>10 DEF Mark, Syncing, CloseRegistered
<1>11. CASE SyncFails(k)
  BY <1>11, SMTT(60) DEF SyncFails, Syncing
<1>12. CASE Subscribe(k)
  <2>1. task[k].pc = "subscribe"
    BY <1>12, ZenonT(60) DEF Subscribe
  <2>2. \/ \E s \in Socket : task' = [task EXCEPT ![k] = [@ EXCEPT !.pc = "open", !.over = s]]
        \/ SubscribeFails(k)
    BY <1>12 DEF Subscribe
  <2>3. ASSUME NEW s \in Socket, task' = [task EXCEPT ![k] = [@ EXCEPT !.pc = "open", !.over = s]] PROVE TaskShape(k)'
    BY <1>e, <2>1, <2>3
  <2>4. CASE SubscribeFails(k)
    BY <2>1, <2>4 DEF SubscribeFails
  <2> QED
    BY <2>2, <2>3, <2>4
<1>13. CASE Opened(k)
  BY <1>13 DEF Opened, Subscribed, SubscribeFails
<1>14. CASE Choose(k)
  BY <1>14, <1>f DEF Choose
<1>15. CASE PatchReads(k)
  BY <1>15 DEF PatchReads
<1>16. CASE PatchWrites(k)
  BY <1>16 DEF PatchWrites
<1>17. CASE EntityReads(k)
  BY <1>17 DEF EntityReads
<1>18. CASE EntityWrites(k)
  BY <1>18 DEF EntityWrites
<1>19. CASE CallChecks(k)
  BY <1>19 DEF CallChecks
<1>20. CASE CallService(k)
  BY <1>20 DEF CallService
<1>21. CASE DeleteLooks(k)
  BY <1>21 DEF DeleteLooks, CloseRegistered
<1>22. CASE DeleteRow(k)
  BY <1>22 DEF DeleteRow
<1>23. CASE DeleteEntities(k)
  BY <1>23 DEF DeleteEntities
<1>24. CASE DeleteSamples(k)
  BY <1>24 DEF DeleteSamples
<1> QED
  BY <1>5, <1>6, <1>7, <1>8, <1>9, <1>10, <1>11, <1>12, <1>13, <1>14, <1>15, <1>16, <1>17, <1>18, <1>19, <1>20, <1>21, <1>22, <1>23, <1>24 DEF HomeWork

LEMMA HomeWorkTypes ==
  ASSUME HomeInv, NEW k \in Task, HomeWork(k) PROVE HomeTypeOK'
<1>1. /\ task \in [Task -> TaskType] /\ task[k] \in TaskType /\ entity \in Row /\ connection \in {"none", "active", "error"}
      /\ sample \in BOOLEAN /\ socket \in [Socket -> {"unused", "opening", "open", "left", "closed"}]
      /\ subscription \in 0..MaxSockets /\ task[k].to \in Row /\ task[k].read \in Row /\ task[k].over \in 0..MaxSockets
      /\ provider \in {"home_assistant", "xiaomi_health"} /\ sourceActive \in BOOLEAN /\ syncRunning \in BOOLEAN
  BY DEF HomeInv, HomeInvariant, HomeTypeOK, TaskType
<1>2. PICK r : task' = [task EXCEPT ![k] = r] /\ TaskBecomes(k, r)
  BY HomeWorkMoves
<1>3. task' \in [Task -> TaskType]
  BY <1>1, <1>2, NoTaskIsTyped DEF TaskBecomes
<1>4. history' \in HistoryType
  BY HomeHistoryMoves
<1>5. provider' = provider /\ sourceActive' = sourceActive /\ syncRunning' \in BOOLEAN
  BY <1>1, HomeWorkMoves
<1>6. entity' \in Row
  BY <1>1, ZenonT(60) DEF HomeWork, SyncChecks, ConnectWrites, Fetch, Refresh, Cache, Mark, SyncFails, Subscribe, Opened, Choose, PatchReads,
     PatchWrites, EntityReads, EntityWrites, CallChecks, CallService, DeleteLooks, DeleteRow, DeleteEntities, DeleteSamples, Row
<1>7. connection' \in {"none", "active", "error"}
  BY <1>1, ZenonT(60) DEF HomeWork, SyncChecks, ConnectWrites, Fetch, Refresh, Cache, Mark, SyncFails, Subscribe, Opened, Choose, PatchReads,
     PatchWrites, EntityReads, EntityWrites, CallChecks, CallService, DeleteLooks, DeleteRow, DeleteEntities, DeleteSamples
<1>8. sample' \in BOOLEAN
  BY <1>1, ZenonT(60) DEF HomeWork, SyncChecks, ConnectWrites, Fetch, Refresh, Cache, Mark, SyncFails, Subscribe, Opened, Choose, PatchReads,
     PatchWrites, EntityReads, EntityWrites, CallChecks, CallService, DeleteLooks, DeleteRow, DeleteEntities, DeleteSamples
<1>9. subscription' \in 0..MaxSockets
  <2>1. 0 \in 0..MaxSockets
    BY IntegrationsAssumption
  <2> QED
    BY <1>1, <2>1 DEF HomeWork, SyncChecks, ConnectWrites, Fetch, Refresh, Cache, Mark, SyncFails, Subscribe, Opened, Choose, PatchReads,
     PatchWrites, EntityReads, EntityWrites, CallChecks, CallService, DeleteLooks, DeleteRow, DeleteEntities, DeleteSamples, CloseRegistered
<1>10. socket' \in [Socket -> {"unused", "opening", "open", "left", "closed"}]
  <2>1. \/ socket' = socket
        \/ socket' = [s \in Socket |-> IF s = subscription THEN "closed" ELSE socket[s]]
        \/ \E s, how : how \in {"opening", "open", "left", "closed"} /\ socket' = [socket EXCEPT ![s] = how]
    BY DEF HomeWork, SyncChecks, ConnectWrites, Fetch, Refresh, Cache, Mark, SyncFails, Subscribe, Opened, Choose, PatchReads,
     PatchWrites, EntityReads, EntityWrites, CallChecks, CallService, DeleteLooks, DeleteRow, DeleteEntities, DeleteSamples, CloseRegistered
  <2> QED
    BY <1>1, <2>1, SMTT(60)
<1> QED
  BY <1>1, <1>3, <1>4, <1>5, <1>6, <1>7, <1>8, <1>9, <1>10 DEF HomeTypeOK, TaskType, HistoryType

\* Only the user enables.
LEMMA HomeWorkMeans ==
  ASSUME HomeInv, NEW k \in Task, HomeWork(k) PROVE OnlyTheUserEnables' /\ OnlyHomeSubscribes'
<1>1. TaskShape(k) /\ OnlyTheUserEnables /\ OnlyHomeSubscribes
  BY DEF HomeInv, HomeInvariant
<1>2. history'.called => history'.enabled
  BY <1>1, HomeHistoryMoves DEF OnlyTheUserEnables, CallService, AtStep, TaskShape
<1>3. entity' = "on" => history'.enabled
  <2>1. CASE PatchWrites(k) \/ (Choose(k) /\ entity # "none")
    BY <2>1, HomeHistoryMoves DEF PatchWrites, Choose
  <2>2. CASE ~PatchWrites(k) /\ ~(Choose(k) /\ entity # "none")
    <3>1. entity' = "on" => entity = "on" \/ task[k].read = "on" \/ EntityWrites(k)
      BY <2>2 DEF HomeWork, SyncChecks, ConnectWrites, Fetch, Refresh, Cache, Mark, SyncFails, Subscribe, Opened, Choose, PatchReads,
         EntityReads, CallChecks, CallService, DeleteLooks, DeleteRow, DeleteEntities, DeleteSamples
    <3>2. EntityWrites(k) => history.enabled
      BY <1>1 DEF EntityWrites, AtStep, TaskShape
    <3> QED
      BY <1>1, <3>1, <3>2, HomeHistoryMoves, SMTT(60) DEF OnlyTheUserEnables, TaskShape
  <2> QED
    BY <2>1, <2>2, SMTT(60)
<1>4. OnlyHomeSubscribes'
  <2>1. IsHome' = IsHome
    BY HomeWorkMoves DEF IsHome
  <2>2. ~IsHome => subscription' = subscription \/ subscription' = 0
    BY <1>1, ZenonT(60) DEF HomeWork, SyncChecks, ConnectWrites, Fetch, Refresh, Cache, Mark, SyncFails, Subscribe, Opened, Choose, PatchReads,
       PatchWrites, EntityReads, EntityWrites, CallChecks, CallService, DeleteLooks, DeleteRow, DeleteEntities, DeleteSamples,
       CloseRegistered, TaskShape
  <2> QED
    BY <1>1, <2>1, <2>2 DEF OnlyHomeSubscribes
<1> QED
  BY <1>2, <1>3, <1>4 DEF OnlyTheUserEnables

\* One that meets no other finds everything as it left it.
LEMMA HomeWorkAlone ==
  ASSUME HomeInv, NEW k \in Task, HomeWork(k), ~history.met
  PROVE  AloneEachIsDone' /\ TaskDoneSoFar(k)'
<1>1. /\ task \in [Task -> TaskType] /\ task[k] \in TaskType /\ entity \in Row /\ connection \in {"none", "active", "error"}
      /\ socket \in [Socket -> {"unused", "opening", "open", "left", "closed"}] /\ 0 \notin Socket
      /\ subscription \in 0..MaxSockets /\ task[k].over \in 0..MaxSockets
  BY DEF HomeInv, HomeInvariant, HomeTypeOK, TaskType, Socket
<1>2. TaskShape(k) /\ TaskDoneSoFar(k) /\ AloneEachIsDone /\ OnlyHomeSubscribes
  BY DEF HomeInv, HomeInvariant
<1>3. IsHome' = IsHome /\ history'.met = history.met
  BY HomeWorkMoves, HomeHistoryMoves DEF IsHome
<1>4. /\ history'.gone <=> history.gone \/ DeleteSamples(k)
      /\ \/ history'.word = history.word
         \/ Choose(k) /\ entity # "none" /\ history'.word = task[k].to
         \/ PatchWrites(k) /\ history'.word = task[k].to
         \/ DeleteEntities(k)
      /\ PatchWrites(k) \/ (Choose(k) /\ entity # "none") => history'.word = task[k].to
  BY HomeHistoryMoves
<1>a. \A pc : Goes(k, pc) => task'[k].pc = pc /\ task'[k].kind = task[k].kind /\ task'[k].read = task[k].read
  BY <1>1 DEF Goes, TaskType
<1>b. TaskEnds(k) => task'[k].pc = "end" /\ task'[k].kind = "none"
  BY <1>1, NoTaskIsTyped DEF TaskEnds
<1>d. task' = [task EXCEPT ![k] = [@ EXCEPT !.pc = "cache", !.read = entity]] =>
        task'[k].pc = "cache" /\ task'[k].kind = task[k].kind /\ task'[k].read = entity
  BY <1>1 DEF TaskType
<1>e. \A s \in Socket : task' = [task EXCEPT ![k] = [@ EXCEPT !.pc = "open", !.over = s]] =>
        task'[k].pc = "open" /\ task'[k].kind = task[k].kind /\ task'[k].read = task[k].read
  BY <1>1 DEF TaskType
<1>f. task' = [task EXCEPT ![k] = [@ EXCEPT !.kind = "subscribe", !.pc = "subscribe"]] =>
        task'[k].pc = "subscribe" /\ task'[k].kind = "subscribe" /\ task'[k].read = task[k].read
  BY <1>1 DEF TaskType
<1>g. task' = [task EXCEPT ![k].pc = "cache"] => task'[k].pc = "cache" /\ task'[k].kind = task[k].kind /\ task'[k].read = task[k].read
  BY <1>1 DEF TaskType
<1> USE <1>1, <1>2, <1>3, <1>4, <1>a, <1>b DEF AtStep, TaskShape, TaskDoneSoFar, AloneEachIsDone, Delivering, OnlyHomeSubscribes
<1>9. CASE SyncChecks(k)
  BY <1>9 DEF SyncChecks, Syncing
<1>10. CASE ConnectWrites(k)
  BY <1>10 DEF ConnectWrites
<1>11. CASE Fetch(k)
  BY <1>11, <1>d DEF Fetch, Syncing
<1>12. CASE Refresh(k)
  BY <1>12, <1>g DEF Refresh, Syncing
<1>13. CASE Cache(k)
  BY <1>13 DEF Cache, Syncing
<1>14. CASE Mark(k)
  BY <1>14 DEF Mark, Syncing, CloseRegistered
<1>15. CASE SyncFails(k)
  BY <1>15, SMTT(60) DEF SyncFails, Syncing
<1>16. CASE Subscribe(k)
  <2>1. task[k].pc = "subscribe" /\ UNCHANGED <<connection, entity, sample, subscription, history>>
    BY <1>16, ZenonT(60) DEF Subscribe
  <2>2. \/ /\ \E s \in Socket : task' = [task EXCEPT ![k] = [@ EXCEPT !.pc = "open", !.over = s]]
           /\ \E s \in Socket : socket' = [socket EXCEPT ![s] = "opening"]
        \/ SubscribeFails(k) /\ socket' = socket
    BY <1>16, ZenonT(60) DEF Subscribe
  <2>3. \A s \in Socket : socket'[s] = "open" => socket[s] = "open"
    BY <2>2
  <2>4. AloneEachIsDone'
    BY <2>1, <2>3
  <2>5. ASSUME NEW s \in Socket, task' = [task EXCEPT ![k] = [@ EXCEPT !.pc = "open", !.over = s]] PROVE TaskDoneSoFar(k)'
    BY <1>e, <2>1, <2>5
  <2>6. ASSUME SubscribeFails(k) PROVE TaskDoneSoFar(k)'
    <3>1. task'[k].pc \in {"end", "fail"} /\ (task'[k].kind = "none" \/ task'[k].kind = task[k].kind)
      BY <2>6 DEF SubscribeFails
    <3>2. ~history.gone
      BY <2>1
    <3> HIDE <1>4
    <3> QED
      BY <2>1, <3>1, <3>2
  <2> QED
    BY <2>2, <2>4, <2>5, <2>6, Zenon
<1>17. CASE Opened(k)
  BY <1>17 DEF Opened, Subscribed, SubscribeFails
<1>18. CASE Choose(k)
  BY <1>18, <1>f DEF Choose
<1>19. CASE PatchReads(k)
  BY <1>19 DEF PatchReads
<1>20. CASE PatchWrites(k)
  BY <1>20 DEF PatchWrites
<1>21. CASE EntityReads(k)
  BY <1>21 DEF EntityReads
<1>22. CASE EntityWrites(k)
  BY <1>22 DEF EntityWrites
<1>23. CASE CallChecks(k)
  BY <1>23 DEF CallChecks
<1>24. CASE CallService(k)
  BY <1>24 DEF CallService
<1>25. CASE DeleteLooks(k)
  BY <1>25 DEF DeleteLooks, CloseRegistered
<1>26. CASE DeleteRow(k)
  BY <1>26 DEF DeleteRow
<1>27. CASE DeleteEntities(k)
  BY <1>27 DEF DeleteEntities
<1>28. CASE DeleteSamples(k)
  BY <1>28 DEF DeleteSamples
<1> QED
  BY <1>9, <1>10, <1>11, <1>12, <1>13, <1>14, <1>15, <1>16, <1>17, <1>18, <1>19, <1>20, <1>21, <1>22, <1>23, <1>24, <1>25, <1>26, <1>27, <1>28 DEF HomeWork

LEMMA HomeWorkInv ==
  ASSUME HomeInv, NEW k \in Task, HomeWork(k) PROVE HomeInv'
<1>1. task \in [Task -> TaskType] /\ TaskShape(k) /\ TasksMeet /\ OneCycleAtATime /\ syncRunning \in BOOLEAN
  BY DEF HomeInv, HomeInvariant, HomeTypeOK, TaskType
<1>2. PICK r : task' = [task EXCEPT ![k] = r] /\ TaskBecomes(k, r)
  BY HomeWorkMoves
<1>3. task'[k] = r /\ \A j \in Task : j # k => task'[j] = task[j]
  BY <1>1, <1>2
<1>4. task[k] # NoTask /\ history'.met = history.met /\ IsHome' = IsHome /\ (history.enabled => history'.enabled)
  BY HomeWorkMoves, HomeHistoryMoves DEF IsHome
<1>5. TasksMeet'
  BY <1>1, <1>3, <1>4 DEF TasksMeet
<1>6. \A j \in Task : (TaskShape(j) /\ TaskDoneSoFar(j))'
  <2> TAKE j \in Task
  <2>1. CASE j = k
    <3>1. TaskDoneSoFar(k)'
      BY <1>4, HomeWorkAlone DEF TaskDoneSoFar
    <3> QED
      BY <2>1, <3>1, HomeTaskGoesOn
  <2>2. CASE j # k
    <3>1. TaskShape(j)'
      BY <1>3, <1>4, <2>2 DEF HomeInv, TaskShape
    <3>2. ~history.met => task'[j] = NoTask
      BY <1>1, <1>3, <1>4, <2>2 DEF TasksMeet
    <3>3. TaskDoneSoFar(j)'
      BY <1>4, <3>2, NoTaskIsTyped DEF TaskDoneSoFar
    <3> QED
      BY <3>1, <3>3
  <2> QED
    BY <2>1, <2>2
<1>7. OneCycleAtATime'
  <2>1. CASE task[k].kind = "cycle"
    <3>1. syncRunning /\ \A j \in Task : j # k => task'[j].kind # "cycle"
      BY <1>1, <1>3, <2>1 DEF OneCycleAtATime
    <3>2. (task'[k].kind = "cycle" /\ syncRunning' = syncRunning) \/ (task'[k] = NoTask /\ syncRunning' = FALSE)
      BY <2>1, HomeWorkMoves
    <3> QED
      BY <3>1, <3>2, NoTaskIsTyped DEF OneCycleAtATime
  <2>2. CASE task[k].kind # "cycle"
    <3>1. syncRunning' = syncRunning /\ task'[k].kind # "cycle"
      BY <1>2, <1>3, <2>2, HomeWorkMoves, NoTaskIsTyped, ZenonT(60) DEF TaskBecomes
    <3> QED
      BY <1>1, <1>3, <2>2, <3>1 DEF OneCycleAtATime
  <2> QED
    BY <2>1, <2>2
<1>8. AloneEachIsDone'
  BY <1>4, HomeWorkAlone DEF AloneEachIsDone, Delivering
<1> QED
  BY <1>5, <1>6, <1>7, <1>8, HomeWorkTypes, HomeWorkMeans DEF HomeInv, HomeInvariant

\* A task is begun.
LEMMA HomeBeginInv ==
  ASSUME HomeInv, NEW k \in Task, NEW kind \in TaskKind, NEW to \in Row, NEW over \in 0..MaxSockets,
         BeginTask(k, kind, to, over), UNCHANGED <<provider, connection, entity, sample, socket, subscription, sourceActive>>,
         IF kind = "cycle" THEN ~syncRunning /\ connection = "active" /\ syncRunning' = TRUE ELSE syncRunning' = syncRunning
  PROVE  HomeInv'
<1> DEFINE mine == [kind |-> kind, pc |-> "check", to |-> to, read |-> "none", over |-> over]
<1>1. /\ task \in [Task -> TaskType] /\ history \in HistoryType /\ entity \in Row
      /\ task[k] = NoTask /\ history.begun < MaxTasks
      /\ task' = [task EXCEPT ![k] = mine]
      /\ history' = [history EXCEPT !.begun = @ + 1, !.met = @ \/ \E j \in Task : task[j] # NoTask,
                                    !.gone = @ /\ kind # "connect"]
  BY DEF BeginTask, HomeInv, HomeInvariant, HomeTypeOK, TaskType, HistoryType
<1>2. mine \in TaskType /\ mine.kind = kind /\ mine.pc = "check" /\ mine.read = "none" /\ mine # NoTask
  BY DEF TaskType, TaskPc, Row, NoTask
<1> HIDE DEF mine
<1>3. task' \in [Task -> TaskType] /\ task'[k] = mine /\ \A j \in Task : j # k => task'[j] = task[j]
  BY <1>1, <1>2
<1>4. history' \in HistoryType /\ history'.word = history.word /\ history'.enabled = history.enabled
      /\ history'.called = history.called
      /\ (history'.met <=> history.met \/ \E j \in Task : task[j] # NoTask)
      /\ (history'.gone <=> history.gone /\ kind # "connect")
  <2>0. history.begun + 1 \in 0..MaxTasks
    <3>1. history.begun \in 0..MaxTasks
      BY <1>1 DEF HistoryType
    <3> QED
      BY <1>1, <3>1, IntegrationsAssumption
  <2>1. \A m \in BOOLEAN, g \in BOOLEAN :
          LET h == [history EXCEPT !.begun = history.begun + 1, !.met = m, !.gone = g] IN
          /\ h \in HistoryType /\ h.word = history.word /\ h.enabled = history.enabled /\ h.called = history.called
          /\ h.met = m /\ h.gone = g
    BY <1>1, <2>0 DEF HistoryType
  <2>2. PICK m \in BOOLEAN : m <=> (history.met \/ \E j \in Task : task[j] # NoTask)
    OBVIOUS
  <2>3. PICK g \in BOOLEAN : g <=> (history.gone /\ kind # "connect")
    OBVIOUS
  <2>4. m = (history.met \/ \E j \in Task : task[j] # NoTask) /\ g = (history.gone /\ kind # "connect")
    <3>1. history.met \in BOOLEAN /\ history.gone \in BOOLEAN
      BY <1>1 DEF HistoryType
    <3> QED
      BY <2>2, <2>3, <3>1
  <2>5. history' = [history EXCEPT !.begun = history.begun + 1, !.met = m, !.gone = g]
    BY <1>1, <2>4, Zenon
  <2>6. /\ history' \in HistoryType /\ history'.word = history.word /\ history'.enabled = history.enabled
        /\ history'.called = history.called /\ history'.met = m /\ history'.gone = g
    BY <2>1, <2>5, ZenonT(60)
  <2> QED
    BY <2>2, <2>3, <2>6
<1>5. HomeTypeOK'
  <2>1. syncRunning' \in BOOLEAN
    BY DEF HomeInv, HomeInvariant, HomeTypeOK
  <2> QED
    BY <1>3, <1>4, <2>1 DEF HomeInv, HomeInvariant, HomeTypeOK, TaskType, HistoryType
<1>6. IsHome' = IsHome
  BY DEF IsHome
<1>7. OnlyTheUserEnables' /\ OnlyHomeSubscribes' /\ AloneEachIsDone'
  BY <1>4, <1>6 DEF HomeInv, HomeInvariant, OnlyTheUserEnables, OnlyHomeSubscribes, AloneEachIsDone, Delivering
<1>8. TasksMeet'
  BY <1>3, <1>4 DEF TasksMeet
<1>9. OneCycleAtATime'
  <2>1. NoTask.kind # "cycle"
    BY NoTaskIsTyped
  <2> QED
    BY <1>1, <1>2, <1>3, <2>1 DEF HomeInv, HomeInvariant, OneCycleAtATime
<1>10. \A j \in Task : (TaskShape(j) /\ TaskDoneSoFar(j))'
  <2> TAKE j \in Task
  <2>1. CASE j = k
    <3>1. task'[j].kind = kind /\ task'[j].pc = "check" /\ task'[j].read = "none"
      BY <1>2, <1>3, <2>1
    <3>2. TaskShape(j)'
      BY <1>2, <1>3, <2>1, <3>1 DEF TaskShape, TaskKind
    <3>3. TaskDoneSoFar(j)'
      BY <1>4, <3>1 DEF TaskDoneSoFar
    <3> QED
      BY <3>2, <3>3
  <2>2. CASE j # k
    <3>1. TaskShape(j) /\ task'[j] = task[j]
      BY <1>3, <2>2 DEF HomeInv
    <3>2. ~history'.met => task'[j] = NoTask
      BY <1>4, <3>1
    <3>3. TaskShape(j)'
      BY <1>4, <1>6, <3>1 DEF TaskShape
    <3>4. TaskDoneSoFar(j)'
      BY <3>2, NoTaskIsTyped DEF TaskDoneSoFar
    <3> QED
      BY <3>3, <3>4
  <2> QED
    BY <2>1, <2>2
<1> QED
  BY <1>5, <1>7, <1>8, <1>9, <1>10 DEF HomeInv, HomeInvariant

LEMMA HomeStepInv == HomeInv /\ [HomeNext]_homeVars => HomeInv'
<1> SUFFICES ASSUME HomeInv, [HomeNext]_homeVars PROVE HomeInv'
  OBVIOUS
<1>1. ASSUME NEW k \in Task, AskHome(k) PROVE HomeInv'
  <2>1. UNCHANGED <<provider, connection, entity, sample, socket, subscription, syncRunning, sourceActive>>
    BY <1>1 DEF AskHome
  <2>2. \E kind \in TaskKind \ {"cycle"}, to \in Row, over \in 0..MaxSockets : BeginTask(k, kind, to, over)
    <3>1. "none" \in Row /\ {"off", "on"} \subseteq Row /\ 0 \in 0..MaxSockets /\ Socket \subseteq 0..MaxSockets
      BY IntegrationsAssumption DEF Row, Socket
    <3>2. {"connect", "sync", "subscribe", "patch", "state", "event", "call", "delete"} \subseteq TaskKind \ {"cycle"}
      BY DEF TaskKind
    <3> QED
      BY <1>1, <3>1, <3>2 DEF AskHome, Delivering
  <2> QED
    BY <2>1, <2>2, HomeBeginInv
<1>2. ASSUME NEW k \in Task, SyncAll(k) PROVE HomeInv'
  <2>1. "none" \in Row /\ 0 \in 0..MaxSockets /\ "cycle" \in TaskKind
    BY IntegrationsAssumption DEF Row, TaskKind
  <2>2. BeginTask(k, "cycle", "none", 0) /\ ~syncRunning /\ connection = "active" /\ syncRunning' = TRUE
        /\ UNCHANGED <<provider, connection, entity, sample, socket, subscription, sourceActive>>
    BY <1>2 DEF SyncAll
  <2> QED
    BY <2>1, <2>2, HomeBeginInv
<1>3. ASSUME NEW k \in Task, HomeWork(k) PROVE HomeInv'
  BY <1>3, HomeWorkInv
<1>4. CASE TurnSource
  <2>1. sourceActive' \in BOOLEAN /\ UNCHANGED <<provider, connection, entity, sample, socket, subscription, syncRunning, task, history>>
    BY <1>4 DEF TurnSource
  <2> QED
    BY <2>1 DEF HomeInv, HomeInvariant, HomeTypeOK, OnlyTheUserEnables, AloneEachIsDone, Delivering, OneCycleAtATime, TasksMeet,
       OnlyHomeSubscribes, TaskShape, TaskDoneSoFar, IsHome
<1>5. CASE HomeRestarts
  <2>1. /\ task' = [k \in Task |-> NoTask]
        /\ socket' = [s \in Socket |-> IF socket[s] = "unused" THEN "unused" ELSE "closed"]
        /\ subscription' = 0 /\ syncRunning' = FALSE
        /\ history' = [history EXCEPT !.met = TRUE]
        /\ UNCHANGED <<provider, connection, entity, sample, sourceActive>>
    BY <1>5 DEF HomeRestarts
  <2>2. task' \in [Task -> TaskType] /\ \A k \in Task : task'[k] = NoTask
    BY <2>1, NoTaskIsTyped
  <2>3. history' \in HistoryType /\ history'.met = TRUE /\ history'.enabled = history.enabled /\ history'.called = history.called
    BY <2>1 DEF HomeInv, HomeInvariant, HomeTypeOK, HistoryType
  <2>4. socket' \in [Socket -> {"unused", "opening", "open", "left", "closed"}] /\ subscription' \in 0..MaxSockets
    BY <2>1, IntegrationsAssumption
  <2>5. HomeTypeOK'
    BY <2>1, <2>2, <2>3, <2>4 DEF HomeInv, HomeInvariant, HomeTypeOK, TaskType, HistoryType
  <2>6. OnlyTheUserEnables' /\ AloneEachIsDone' /\ TasksMeet' /\ OnlyHomeSubscribes'
    BY <2>1, <2>3 DEF HomeInv, HomeInvariant, OnlyTheUserEnables, AloneEachIsDone, Delivering, TasksMeet, OnlyHomeSubscribes
  <2>7. OneCycleAtATime'
    BY <2>1, <2>2, NoTaskIsTyped DEF OneCycleAtATime
  <2>8. \A k \in Task : (TaskShape(k) /\ TaskDoneSoFar(k))'
    BY <2>2, <2>3, NoTaskIsTyped DEF TaskShape, TaskDoneSoFar
  <2> QED
    BY <2>5, <2>6, <2>7, <2>8 DEF HomeInv, HomeInvariant
<1>6. ASSUME NEW s \in Socket, PeerCloses(s) PROVE HomeInv'
  <2>1. socket' = [socket EXCEPT ![s] = "closed"]
        /\ UNCHANGED <<provider, connection, entity, sample, subscription, syncRunning, sourceActive, task, history>>
    BY <1>6 DEF PeerCloses, Delivering
  <2>2. socket \in [Socket -> {"unused", "opening", "open", "left", "closed"}]
    BY DEF HomeInv, HomeInvariant, HomeTypeOK
  <2>3. socket' \in [Socket -> {"unused", "opening", "open", "left", "closed"}] /\ \A t \in Socket : socket'[t] \in {"open", "left"} => socket'[t] = socket[t]
    BY <2>1, <2>2
  <2> QED
    BY <2>1, <2>3 DEF HomeInv, HomeInvariant, HomeTypeOK, OnlyTheUserEnables, AloneEachIsDone, Delivering, OneCycleAtATime, TasksMeet,
       OnlyHomeSubscribes, TaskShape, TaskDoneSoFar, IsHome
<1>7. CASE UNCHANGED homeVars
  BY <1>7 DEF homeVars, HomeInv, HomeInvariant, HomeTypeOK, OnlyTheUserEnables, AloneEachIsDone, Delivering, OneCycleAtATime, TasksMeet,
     OnlyHomeSubscribes, TaskShape, TaskDoneSoFar, IsHome
<1> QED
  BY <1>1, <1>2, <1>3, <1>4, <1>5, <1>6, <1>7 DEF HomeNext, HomeWork

(***************************************************************************)
(* The grants of the proactive mode.  The revision that counts now is the  *)
(* first in an order; that there is one, and only one, is what the steps   *)
(* of a request rest on.  While no two requests met, a withdrawn revision  *)
(* is superseded or revoked, and a superseded one has a later of its       *)
(* device, so it is not first.                                             *)
(***************************************************************************)
LEMMA LeastExists == ASSUME NEW S \in SUBSET Nat, S # {} PROVE \E n \in S : \A m \in S : n <= m
<1>1. PICK n \in S : \A m \in S : ~ (<<m, n>> \in OpToRel(<, Nat))
  BY NatLessThanWellFounded, WFMin, Zenon
<1>2. \A m \in S : ~ (m < n)
  BY <1>1 DEF OpToRel
<1> QED
  BY <1>2

LEMMA GreatestExists ==
  ASSUME NEW S \in SUBSET Nat, S # {}, NEW b \in Nat, \A m \in S : m <= b
  PROVE  \E n \in S : \A m \in S : m <= n
<1> DEFINE above == {n \in Nat : \A m \in S : m <= n}
<1>1. PICK n \in above : \A m \in above : n <= m
  <2>1. above \in SUBSET Nat /\ b \in above
    OBVIOUS
  <2> HIDE DEF above
  <2> QED
    BY <2>1, LeastExists
<1>2. n \in S
  <2> SUFFICES ASSUME n \notin S PROVE FALSE
    OBVIOUS
  <2>1. n \in Nat /\ \A m \in S : m \in Nat /\ m <= n /\ m # n
    BY <1>1
  <2>2. n - 1 \in Nat /\ \A m \in S : m <= n - 1
    <3>1. PICK m \in S : TRUE
      OBVIOUS
    <3>2. n > 0
      BY <2>1, <3>1
    <3> QED
      BY <2>1, <3>2
  <2>3. n - 1 \in above
    BY <2>2
  <2> QED
    BY <1>1, <2>1, <2>3
<1> QED
  BY <1>1, <1>2

Numbered(R) == R \in Seq(RevisionRow) /\ Len(R) <= MaxRevisions
BeforeIn(R, r, s) ==
  \/ R[r].number > R[s].number
  \/ /\ R[r].number = R[s].number
     /\ \/ StatusOrder[R[r].status] < StatusOrder[R[s].status]
        \/ R[r].status = R[s].status /\ r <= s
IsFirst(R, r) == r \in DOMAIN R /\ \A s \in DOMAIN R : BeforeIn(R, r, s)
FirstOf(R) == CHOOSE r \in DOMAIN R : \A s \in DOMAIN R : BeforeIn(R, r, s)

LEMMA FirstIsCurrent == CurrentRevision = FirstOf(revision)
  BY DEF CurrentRevision, FirstOf, IsBefore, BeforeIn, Revisions

LEMMA RowsAreTyped ==
  ASSUME NEW R, Numbered(R)
  PROVE  /\ DOMAIN R = 1..Len(R) /\ Len(R) \in Nat /\ Len(R) <= MaxRevisions /\ DOMAIN R \subseteq Nat
         /\ \A r \in DOMAIN R : R[r] \in RevisionRow /\ R[r].number \in Nat /\ R[r].number <= MaxRevisions /\ R[r].number >= 1
<1>1. R \in Seq(RevisionRow) /\ Len(R) \in Nat /\ DOMAIN R = 1..Len(R) /\ Len(R) <= MaxRevisions
  BY DEF Numbered
<1>2. \A r \in DOMAIN R : R[r] \in RevisionRow
  BY <1>1
<1>3. \A row \in RevisionRow : row.number \in Nat /\ row.number <= MaxRevisions /\ row.number >= 1
  BY GrantsAssumption DEF RevisionRow
<1> QED
  BY <1>1, <1>2, <1>3

LEMMA StatusIsOrdered ==
  /\ \A x \in {"draft", "active", "superseded", "revoked"} : StatusOrder[x] \in Nat
  /\ \A x, y \in {"draft", "active", "superseded", "revoked"} : StatusOrder[x] = StatusOrder[y] => x = y
  BY DEF StatusOrder

LEMMA FirstIsUnique ==
  ASSUME NEW R, Numbered(R), NEW r, NEW s, IsFirst(R, r), IsFirst(R, s)
  PROVE  r = s
<1>1. r \in Nat /\ s \in Nat /\ R[r].number \in Nat /\ R[s].number \in Nat
      /\ R[r].status \in {"draft", "active", "superseded", "revoked"} /\ R[s].status \in {"draft", "active", "superseded", "revoked"}
  BY RowsAreTyped DEF IsFirst, RevisionRow
<1>2. BeforeIn(R, r, s) /\ BeforeIn(R, s, r)
  BY DEF IsFirst
<1>3. StatusOrder[R[r].status] \in Nat /\ StatusOrder[R[s].status] \in Nat
      /\ (StatusOrder[R[r].status] = StatusOrder[R[s].status] => R[r].status = R[s].status)
  BY <1>1, StatusIsOrdered
<1> QED
  BY <1>1, <1>2, <1>3 DEF BeforeIn

\* There is a first revision: of the highest number, there of the first status, there the oldest.
LEMMA FirstExists ==
  ASSUME NEW R, Numbered(R), R # <<>>
  PROVE  IsFirst(R, FirstOf(R)) /\ \A r : IsFirst(R, r) => r = FirstOf(R)
<1> DEFINE order(r) == StatusOrder[R[r].status]
<1>1. /\ DOMAIN R = 1..Len(R) /\ DOMAIN R # {} /\ DOMAIN R \subseteq Nat
      /\ \A r \in DOMAIN R : R[r].number \in Nat /\ R[r].number <= MaxRevisions /\ R[r].status \in {"draft", "active", "superseded", "revoked"}
  <2>1. Len(R) \in Nat /\ Len(R) # 0
    BY DEF Numbered
  <2> QED
    BY <2>1, RowsAreTyped DEF RevisionRow
<1>2. PICK n \in Nat : /\ \E r \in DOMAIN R : R[r].number = n
                       /\ \A r \in DOMAIN R : R[r].number <= n
  <2> DEFINE S == {R[r].number : r \in DOMAIN R}
  <2>1. S \in SUBSET Nat /\ S # {} /\ \A m \in S : m <= MaxRevisions
    BY <1>1
  <2>2. \E n \in S : \A m \in S : m <= n
    <3> HIDE DEF S
    <3> QED
      BY <2>1, GreatestExists, GrantsAssumption
  <2> QED
    BY <2>1, <2>2
<1>3. PICK o \in Nat : /\ \E r \in DOMAIN R : R[r].number = n /\ order(r) = o
                       /\ \A r \in DOMAIN R : R[r].number = n => o <= order(r)
  <2> DEFINE S == {order(r) : r \in {r \in DOMAIN R : R[r].number = n}}
  <2>1. S \in SUBSET Nat /\ S # {}
    <3>1. \A r \in DOMAIN R : order(r) \in Nat
      BY <1>1, StatusIsOrdered
    <3> HIDE DEF order
    <3> QED
      BY <1>2, <3>1
  <2>2. \E m \in S : \A k \in S : m <= k
    <3> HIDE DEF S
    <3> QED
      BY <2>1, LeastExists
  <2> HIDE DEF order
  <2> QED
    BY <2>1, <2>2
<1>4. PICK r \in DOMAIN R : /\ R[r].number = n /\ order(r) = o
                            /\ \A s \in DOMAIN R : R[s].number = n /\ order(s) = o => r <= s
  <2> DEFINE S == {r \in DOMAIN R : R[r].number = n /\ order(r) = o}
  <2>1. S \in SUBSET Nat /\ S # {}
    BY <1>1, <1>3
  <2>2. \E m \in S : \A k \in S : m <= k
    <3> HIDE DEF S
    <3> QED
      BY <2>1, LeastExists
  <2> QED
    BY <2>2
<1>5. ASSUME NEW s \in DOMAIN R PROVE BeforeIn(R, r, s)
  <2>1. R[s].number \in Nat /\ R[s].number <= n /\ order(s) \in Nat
    BY <1>1, <1>2, StatusIsOrdered
  <2>2. R[s].number = n => o <= order(s)
    BY <1>3
  <2>3. R[s].number = n /\ order(s) = o => r <= s /\ R[s].status = R[r].status
    BY <1>1, <1>4, StatusIsOrdered
  <2> QED
    BY <1>4, <2>1, <2>2, <2>3 DEF BeforeIn
<1>6. IsFirst(R, r)
  BY <1>5 DEF IsFirst
<1>7. IsFirst(R, FirstOf(R))
  BY <1>6 DEF IsFirst, FirstOf
<1> QED
  BY <1>7, FirstIsUnique

\* The first stays where it is while no number or status changes, and a row added is first or leaves it.
LEMMA SameFirst ==
  ASSUME NEW R, NEW Q, Numbered(R), Numbered(Q), DOMAIN Q = DOMAIN R,
         \A r \in DOMAIN R : Q[r].number = R[r].number /\ Q[r].status = R[r].status, R # <<>>
  PROVE  FirstOf(Q) = FirstOf(R)
<1>1. IsFirst(R, FirstOf(R))
  BY FirstExists
<1>2. IsFirst(Q, FirstOf(R))
  BY <1>1 DEF IsFirst, BeforeIn
<1>3. Q # <<>>
  BY <1>1 DEF IsFirst
<1> QED
  BY <1>2, <1>3, FirstExists

\* A revocation puts a row behind the first it was behind.
LEMMA FirstOutlivesAnother ==
  ASSUME NEW R, NEW Q, NEW r \in DOMAIN R, Numbered(R), Numbered(Q), DOMAIN Q = DOMAIN R, R # <<>>, FirstOf(R) # r,
         \A s \in DOMAIN R : Q[s].number = R[s].number /\ (s # r => Q[s].status = R[s].status),
         Q[r].status = "revoked",
         R[r].status = "superseded" => \E s \in DOMAIN R : R[s].number > R[r].number
  PROVE  FirstOf(Q) = FirstOf(R)
<1> DEFINE f == FirstOf(R)
<1>1. IsFirst(R, f) /\ f \in DOMAIN R /\ f # r
  BY FirstExists DEF IsFirst
<1> HIDE DEF f
<1>2. \A s \in DOMAIN R : R[s].number \in Nat /\ R[s].status \in {"draft", "active", "superseded", "revoked"}
  BY RowsAreTyped DEF RevisionRow
<1>3. R[r].number <= R[f].number /\ (R[r].status = "superseded" => R[r].number < R[f].number)
  <2>1. \A s \in DOMAIN R : R[s].number <= R[f].number
    BY <1>1, <1>2 DEF IsFirst, BeforeIn
  <2> QED
    BY <1>1, <1>2, <2>1
<1>4. BeforeIn(R, f, r)
  BY <1>1 DEF IsFirst
<1>5. BeforeIn(Q, f, r)
  <2>1. CASE R[r].number < R[f].number
    BY <1>1, <2>1 DEF BeforeIn
  <2>2. CASE R[r].number = R[f].number
    <3>1. R[r].status \in {"draft", "active", "revoked"} /\ R[f].status \in {"draft", "active", "superseded", "revoked"}
          /\ Q[f].number = R[f].number /\ Q[f].status = R[f].status /\ Q[r].number = R[r].number
      BY <1>1, <1>2, <1>3, <2>2
    <3>2. StatusOrder[R[f].status] < StatusOrder[R[r].status] \/ (R[f].status = R[r].status /\ f <= r)
      BY <1>2, <1>4, <2>2 DEF BeforeIn
    <3>3. /\ StatusOrder["active"] = 1 /\ StatusOrder["draft"] = 2 /\ StatusOrder["revoked"] = 3 /\ StatusOrder["superseded"] = 4
      BY DEF StatusOrder
    <3>4. StatusOrder[R[f].status] < StatusOrder["revoked"] \/ (R[f].status = "revoked" /\ f <= r)
      BY <3>1, <3>2, <3>3
    <3> QED
      BY <2>2, <3>1, <3>4 DEF BeforeIn
  <2> QED
    BY <1>1, <1>2, <1>3, <2>1, <2>2
<1>6. \A s \in DOMAIN R : s # r => BeforeIn(Q, f, s)
  BY <1>1 DEF IsFirst, BeforeIn
<1>7. IsFirst(Q, f) /\ Q # <<>>
  BY <1>1, <1>5, <1>6 DEF IsFirst
<1> QED
  BY <1>7, FirstExists DEF f

LEMMA AppendedFirst ==
  ASSUME NEW R, NEW row \in RevisionRow, Numbered(R), Numbered(Append(R, row))
  PROVE  FirstOf(Append(R, row)) = Len(R) + 1 \/ (R # <<>> /\ FirstOf(Append(R, row)) = FirstOf(R))
<1> DEFINE Q == Append(R, row)
           f == FirstOf(Q)
<1>1. Len(R) \in Nat /\ DOMAIN R = 1..Len(R) /\ DOMAIN Q = 1..Len(R) + 1 /\ Q # <<>> /\ \A r \in DOMAIN R : Q[r] = R[r]
  <2>1. R \in Seq(RevisionRow) /\ Len(R) \in Nat /\ DOMAIN R = 1..Len(R)
    BY DEF Numbered
  <2>2. Len(Q) = Len(R) + 1 /\ DOMAIN Q = 1..Len(R) + 1 /\ \A r \in DOMAIN R : Q[r] = R[r]
    BY <2>1
  <2> QED
    BY <2>1, <2>2
<1>2. IsFirst(Q, f)
  BY <1>1, FirstExists
<1>3. CASE f = Len(R) + 1
  BY <1>3
<1>4. CASE f # Len(R) + 1
  <2>1. f \in DOMAIN R
    BY <1>1, <1>2, <1>4 DEF IsFirst
  <2>2. IsFirst(R, f)
    <3>1. \A s \in DOMAIN R : BeforeIn(Q, f, s)
      BY <1>1, <1>2 DEF IsFirst
    <3> HIDE DEF Q, f
    <3> QED
      BY <1>1, <2>1, <3>1 DEF IsFirst, BeforeIn
  <2>3. R # <<>>
    BY <2>1
  <2> QED
    BY <2>2, <2>3, FirstExists
<1> QED
  BY <1>3, <1>4

\* The numbers of a device.
RevisionsInv(R) ==
  /\ Numbered(R)
  /\ \A r \in DOMAIN R : R[r].number <= r
  /\ \A r, s \in DOMAIN R : R[r].device = R[s].device /\ R[r].number = R[s].number => r = s

LEMMA LatestIsGreatest ==
  ASSUME NEW d, RevisionsInv(revision)
  PROVE  /\ Latest(d) \in Nat /\ Latest(d) <= Len(revision)
         /\ \A r \in DOMAIN revision : revision[r].device = d => revision[r].number <= Latest(d)
<1> DEFINE S == {revision[r].number : r \in {r \in Revisions : revision[r].device = d}}
<1>1. /\ Len(revision) \in Nat /\ DOMAIN revision = 1..Len(revision)
      /\ \A r \in DOMAIN revision : revision[r].number \in Nat /\ revision[r].number <= Len(revision)
  BY RowsAreTyped DEF RevisionsInv
<1>2. S \in SUBSET Nat /\ (\A m \in S : m <= Len(revision)) /\ \A r \in DOMAIN revision : revision[r].device = d => revision[r].number \in S
  BY <1>1 DEF Revisions
<1>3. Latest(d) = IF S = {} THEN 0 ELSE CHOOSE n \in S : \A m \in S : m <= n
  BY DEF Latest
<1> HIDE DEF S
<1>4. CASE S = {}
  BY <1>1, <1>2, <1>3, <1>4
<1>5. CASE S # {}
  <2>1. \E n \in S : \A m \in S : m <= n
    BY <1>1, <1>2, <1>5, GreatestExists
  <2>2. Latest(d) \in S /\ \A m \in S : m <= Latest(d)
    BY <1>3, <1>5, <2>1
  <2> QED
    BY <1>2, <2>2
<1> QED
  BY <1>4, <1>5

LEMMA RowIsAdded ==
  ASSUME NEW R, NEW row \in RevisionRow, RevisionsInv(R), Len(R) < MaxRevisions, row.number <= Len(R) + 1,
         \A r \in DOMAIN R : R[r].device = row.device => R[r].number # row.number
  PROVE  RevisionsInv(Append(R, row))
<1> DEFINE Q == Append(R, row)
<1>1. /\ Len(R) \in Nat /\ DOMAIN R = 1..Len(R) /\ R \in Seq(RevisionRow)
      /\ MaxRevisions \in Nat
  BY GrantsAssumption, RowsAreTyped DEF RevisionsInv, Numbered
<1>2. /\ Q \in Seq(RevisionRow) /\ Len(Q) = Len(R) + 1 /\ DOMAIN Q = 1..Len(R) + 1
      /\ Q[Len(R) + 1] = row /\ \A r \in DOMAIN R : Q[r] = R[r]
  BY <1>1
<1> HIDE DEF Q
<1>3. Numbered(Q)
  BY <1>1, <1>2 DEF Numbered
<1>4. \A r \in DOMAIN Q : r \in DOMAIN R \/ r = Len(R) + 1
  BY <1>1, <1>2
<1>5. \A r \in DOMAIN Q : Q[r].number <= r
  BY <1>2, <1>4 DEF RevisionsInv
<1>6. ASSUME NEW r \in DOMAIN Q, NEW s \in DOMAIN Q, Q[r].device = Q[s].device, Q[r].number = Q[s].number PROVE r = s
  BY <1>2, <1>4, <1>6 DEF RevisionsInv
<1> QED
  BY <1>3, <1>5, <1>6 DEF RevisionsInv, Q

LEMMA RowsAreRewritten ==
  ASSUME NEW R, NEW Q \in Seq(RevisionRow), RevisionsInv(R), Len(Q) = Len(R),
         \A r \in DOMAIN R : Q[r].device = R[r].device /\ Q[r].number = R[r].number
  PROVE  RevisionsInv(Q) /\ DOMAIN Q = DOMAIN R
<1>1. DOMAIN R = 1..Len(R) /\ DOMAIN Q = DOMAIN R
  BY RowsAreTyped DEF RevisionsInv
<1> QED
  BY <1>1 DEF RevisionsInv, Numbered

GrantCallType ==
  [op : {"none", "confirm", "draft", "state", "source", "activate", "heartbeat"},
   pc : {"end", "read", "write", "consents"}, on : 0..MaxRevisions + MaxLeases,
   to : Device \cup {"none", "enabled", "paused", "revoked"} \cup SourceState,
   read : {"none", "draft", "active", "superseded", "revoked"}]
PastType ==
  [begun : 0..MaxGrantCalls, met : BOOLEAN, ended : SUBSET (1..MaxLeases), withdrawn : SUBSET (1..MaxRevisions),
   silent : BOOLEAN, word : {"none", "enabled", "paused", "revoked"}]

\* What a request holds: a device, a row that is there, the next number of a device.
GrantShape(c, R, L) ==
  /\ c.op \in {"confirm", "draft", "activate"} => c.to \in Device
  /\ c.op = "draft" /\ c.pc = "write" => c.on \in 1..MaxRevisions /\ c.on <= Len(R) + 1
  /\ c.op = "state" => c.to \in {"enabled", "paused", "revoked"} /\ R # <<>> /\ c.on \in {0} \cup DOMAIN R
  /\ c.op = "state" /\ c.pc = "write" => c.on \in DOMAIN R /\ c.read # "none"
  /\ c.op = "source" => c.on \in DOMAIN R /\ c.to \in SourceState
  /\ c.op = "activate" => c.on \in DOMAIN R
  /\ c.op = "heartbeat" => c.on \in DOMAIN L

CallsInv(G, R, L) == G \in [GrantCall -> GrantCallType] /\ \A k \in GrantCall : GrantShape(G[k], R, L)
LeasesInv(L, ended) ==
  /\ L \in Seq(LeaseRow) /\ Len(L) <= MaxLeases
  /\ ended \subseteq DOMAIN L /\ \A l \in ended : L[l].status # "active"
ConsentsInv(C, silent) ==
  /\ C \in [1..MaxRevisions -> {"none", "active", "revoked"}]
  /\ \A r, s \in 1..MaxRevisions : C[r] = "active" /\ C[s] = "active" => r = s
  /\ silent => \A r \in 1..MaxRevisions : C[r] # "active"

\* While no two requests met: one is under way at most, what a change of state has read is so,
\* what was withdrawn is, and a pause holds.
OneCall(G) == \A j, k \in GrantCall : G[j] # NoGrantCall /\ G[k] # NoGrantCall => j = k
StateSeen(c, R) == c.op = "state" /\ c.pc = "write" => c.read = R[c.on].status
Withdrawn(R, gone) ==
  /\ gone \subseteq DOMAIN R /\ \A r \in gone : R[r].status \in {"superseded", "revoked"}
  /\ \A r \in DOMAIN R : R[r].status = "superseded" =>
       \E s \in DOMAIN R : R[s].device = R[r].device /\ R[s].number > R[r].number
  /\ \A r, s \in DOMAIN R : R[r].status = "active" /\ R[s].status = "active" /\ R[r].device = R[s].device => r = s
PauseHolds(R, word) == word = "paused" /\ R # <<>> => R[FirstOf(R)].desired # "enabled"
Undisturbed(R, G, p) ==
  ~p.met => /\ OneCall(G) /\ \A k \in GrantCall : StateSeen(G[k], R)
            /\ Withdrawn(R, p.withdrawn) /\ PauseHolds(R, p.word)

GrantsInv ==
  /\ RevisionsInv(revision) /\ ConsentsInv(consent, past.silent) /\ LeasesInv(leases, past.ended)
  /\ CallsInv(grantCall, revision, leases) /\ past \in PastType /\ Undisturbed(revision, grantCall, past)

LEMMA NoGrantIsTyped ==
  NoGrantCall \in GrantCallType /\ \A R, L : GrantShape(NoGrantCall, R, L) /\ StateSeen(NoGrantCall, R)
<1>1. 0 \in 0..MaxRevisions + MaxLeases
  BY GrantsAssumption
<1>2. NoGrantCall \in GrantCallType
  BY <1>1 DEF NoGrantCall, GrantCallType
<1>3. NoGrantCall.op = "none"
  BY DEF NoGrantCall
<1> QED
  BY <1>2, <1>3 DEF GrantShape, StateSeen

\* The rows only grow, and a request holds what it held.
LEMMA ShapeIsKept ==
  ASSUME NEW c, NEW R, NEW Q, NEW L, NEW M, GrantShape(c, R, L),
         DOMAIN R \subseteq DOMAIN Q, Len(R) \in Nat, Len(Q) \in Nat, Len(R) <= Len(Q), Q = <<>> => R = <<>>, DOMAIN L \subseteq DOMAIN M
  PROVE  GrantShape(c, Q, M)
<1>1. \A n \in 1..MaxRevisions : n <= Len(R) + 1 => n <= Len(Q) + 1
  OBVIOUS
<1> QED
  BY <1>1 DEF GrantShape

LEMMA CallWorks ==
  ASSUME GrantsInv, NEW k \in GrantCall, NEW c \in GrantCallType, NEW Q, NEW M, grantCall[k] # NoGrantCall,
         grantCall' = [grantCall EXCEPT ![k] = c], GrantShape(c, Q, M),
         DOMAIN revision \subseteq DOMAIN Q, Len(Q) \in Nat, Len(revision) <= Len(Q), Q = <<>> => revision = <<>>,
         DOMAIN leases \subseteq DOMAIN M
  PROVE  /\ CallsInv(grantCall', Q, M)
         /\ ~past.met => OneCall(grantCall')
         /\ ~past.met /\ StateSeen(c, Q) => \A j \in GrantCall : StateSeen(grantCall'[j], Q)
<1>1. /\ grantCall \in [GrantCall -> GrantCallType] /\ \A j \in GrantCall : GrantShape(grantCall[j], revision, leases)
      /\ Len(revision) \in Nat
  BY RowsAreTyped DEF GrantsInv, CallsInv, RevisionsInv
<1>2. grantCall' \in [GrantCall -> GrantCallType] /\ grantCall'[k] = c /\ \A j \in GrantCall : j # k => grantCall'[j] = grantCall[j]
  BY <1>1
<1>3. ASSUME NEW j \in GrantCall PROVE GrantShape(grantCall'[j], Q, M)
  <2>1. CASE j = k
    BY <1>2, <2>1
  <2>2. CASE j # k
    <3>1. GrantShape(grantCall[j], Q, M)
      BY <1>1, ShapeIsKept
    <3> QED
      BY <1>2, <2>2, <3>1
  <2> QED
    BY <2>1, <2>2
<1>4. ASSUME ~past.met PROVE OneCall(grantCall') /\ \A j \in GrantCall : j # k => grantCall'[j] = NoGrantCall
  BY <1>2, <1>4 DEF GrantsInv, Undisturbed, OneCall
<1>5. ASSUME ~past.met, StateSeen(c, Q), NEW j \in GrantCall PROVE StateSeen(grantCall'[j], Q)
  BY <1>2, <1>4, <1>5, NoGrantIsTyped
<1> QED
  BY <1>2, <1>3, <1>4, <1>5 DEF CallsInv

LEMMA GrantsInitInv == GrantsInit => GrantsInv
<1> SUFFICES ASSUME GrantsInit PROVE GrantsInv
  OBVIOUS
<1>1. revision = <<>> /\ leases = <<>> /\ Len(revision) = 0 /\ Len(leases) = 0 /\ DOMAIN revision = {} /\ DOMAIN leases = {}
      /\ revision \in Seq(RevisionRow) /\ leases \in Seq(LeaseRow)
  BY DEF GrantsInit
<1>2. RevisionsInv(revision) /\ LeasesInv(leases, past.ended)
  BY <1>1, GrantsAssumption DEF GrantsInit, RevisionsInv, Numbered, LeasesInv
<1>3. ConsentsInv(consent, past.silent)
  BY DEF GrantsInit, ConsentsInv
<1>4. CallsInv(grantCall, revision, leases)
  BY NoGrantIsTyped DEF GrantsInit, CallsInv
<1>5. past \in PastType
  BY GrantsAssumption DEF GrantsInit, PastType
<1>6. OneCall(grantCall) /\ \A k \in GrantCall : StateSeen(grantCall[k], revision)
  BY NoGrantIsTyped DEF GrantsInit, OneCall
<1>7. past.withdrawn = {} /\ past.word = "none"
  BY DEF GrantsInit
<1>8. Withdrawn(revision, past.withdrawn) /\ PauseHolds(revision, past.word)
  BY <1>1, <1>7 DEF Withdrawn, PauseHolds
<1> QED
  BY <1>2, <1>3, <1>4, <1>5, <1>6, <1>8 DEF GrantsInv, Undisturbed

\* What the invariant says of the run's property.
LEMMA GrantsInvImplies == GrantsInv => GrantsInvariant
<1> SUFFICES ASSUME GrantsInv PROVE GrantsInvariant
  OBVIOUS
<1>1. GrantsTypeOK
  BY DEF GrantsInv, GrantsTypeOK, RevisionsInv, Numbered, ConsentsInv, LeasesInv, CallsInv, GrantCallType, PastType
<1>2. NumbersAndConsentsAreUnique
  <2>1. IsFiniteSet(ActiveConsents) /\ \A r, s \in ActiveConsents : r = s
    <3>1. IsFiniteSet(1..MaxRevisions)
      BY FS_Interval, GrantsAssumption
    <3> QED
      BY <3>1, FS_Subset DEF ActiveConsents, GrantsInv, ConsentsInv
  <2>2. Cardinality(ActiveConsents) <= 1
    <3>1. CASE ActiveConsents = {}
      BY <3>1, FS_EmptySet
    <3>2. CASE \E r : ActiveConsents = {r}
      <4>1. Cardinality(ActiveConsents) = 1
        BY <2>1, <3>2, FS_Singleton
      <4> QED
        BY <4>1
    <3> QED
      BY <2>1, <3>1, <3>2
  <2> QED
    BY <2>2 DEF NumbersAndConsentsAreUnique, Revisions, GrantsInv, RevisionsInv
<1>3. WithdrawnStaysWithdrawn
  <2> SUFFICES ASSUME ~past.met PROVE
        /\ past.word = "paused" => ~IsActive
        /\ IsActive => CurrentRevision \notin past.withdrawn
        /\ \A r \in past.withdrawn : revision[r].status # "active"
        /\ \A r, s \in Revisions : revision[r].status = "active" /\ revision[s].status = "active"
                                   /\ revision[r].device = revision[s].device => r = s
    BY DEF WithdrawnStaysWithdrawn
  <2>1. Withdrawn(revision, past.withdrawn) /\ PauseHolds(revision, past.word)
    BY DEF GrantsInv, Undisturbed
  <2>2. past.word = "paused" => ~IsActive
    BY <2>1, FirstIsCurrent DEF PauseHolds, IsActive
  <2>3. ASSUME IsActive, CurrentRevision \in past.withdrawn PROVE FALSE
    <3>1. revision # <<>> /\ revision[CurrentRevision].status = "superseded"
      BY <2>1, <2>3 DEF IsActive, Withdrawn
    <3>2. IsFirst(revision, CurrentRevision)
      BY <3>1, FirstIsCurrent, FirstExists DEF GrantsInv, RevisionsInv
    <3>3. PICK s \in DOMAIN revision : revision[s].number > revision[CurrentRevision].number
      BY <2>1, <3>1, <3>2 DEF Withdrawn, IsFirst
    <3>4. revision[s].number \in Nat /\ revision[CurrentRevision].number \in Nat
      BY <3>2, RowsAreTyped DEF IsFirst, GrantsInv, RevisionsInv
    <3> QED
      BY <3>2, <3>3, <3>4 DEF IsFirst, BeforeIn
  <2>4. \A r \in past.withdrawn : revision[r].status # "active"
    BY <2>1 DEF Withdrawn
  <2>5. \A r, s \in Revisions : revision[r].status = "active" /\ revision[s].status = "active"
                                   /\ revision[r].device = revision[s].device => r = s
    BY <2>1 DEF Withdrawn, Revisions
  <2> QED
    BY <2>2, <2>3, <2>4, <2>5
<1>4. RevokedIsSilent
  BY DEF RevokedIsSilent, GrantsInv, ConsentsInv, ActiveConsents
<1>5. EndedLeaseStaysEnded
  BY DEF EndedLeaseStaysEnded, GrantsInv, LeasesInv
<1> QED
  BY <1>1, <1>2, <1>3, <1>4, <1>5 DEF GrantsInvariant

LEMMA GrantsBegin ==
  ASSUME GrantsInv, NEW k \in GrantCall, NEW op, NEW on, NEW to, BeginGrant(k, op, on, to),
         [op |-> op, pc |-> "read", on |-> on, to |-> to, read |-> "none"] \in GrantCallType,
         GrantShape([op |-> op, pc |-> "read", on |-> on, to |-> to, read |-> "none"], revision, leases)
  PROVE  GrantsInv'
<1> DEFINE mine == [op |-> op, pc |-> "read", on |-> on, to |-> to, read |-> "none"]
<1>1. /\ grantCall' = [grantCall EXCEPT ![k] = mine] /\ grantCall \in [GrantCall -> GrantCallType]
      /\ past \in PastType /\ past.begun < MaxGrantCalls
      /\ past' = [past EXCEPT !.begun = @ + 1, !.met = @ \/ \E j \in GrantCall : grantCall[j] # NoGrantCall]
      /\ UNCHANGED <<revision, consent, leases>>
  BY DEF BeginGrant, CallOf, GrantsInv, CallsInv
<1>2. mine \in GrantCallType /\ GrantShape(mine, revision, leases) /\ mine.pc = "read"
  OBVIOUS
<1> HIDE DEF mine
<1>3. grantCall' \in [GrantCall -> GrantCallType] /\ grantCall'[k] = mine /\ \A j \in GrantCall : j # k => grantCall'[j] = grantCall[j]
  BY <1>1, <1>2
<1>4. /\ past' \in PastType /\ past'.ended = past.ended /\ past'.withdrawn = past.withdrawn /\ past'.silent = past.silent
      /\ past'.word = past.word /\ (past'.met <=> past.met \/ \E j \in GrantCall : grantCall[j] # NoGrantCall)
  <2>1. past.begun + 1 \in 0..MaxGrantCalls
    <3>1. past.begun \in 0..MaxGrantCalls
      BY <1>1 DEF PastType
    <3> QED
      BY <1>1, <3>1, GrantsAssumption
  <2>2. \A m \in BOOLEAN : LET p == [past EXCEPT !.begun = past.begun + 1, !.met = m] IN
          /\ p \in PastType /\ p.ended = past.ended /\ p.withdrawn = past.withdrawn /\ p.silent = past.silent
          /\ p.word = past.word /\ p.met = m
    BY <1>1, <2>1 DEF PastType
  <2>3. PICK m \in BOOLEAN : m <=> (past.met \/ \E j \in GrantCall : grantCall[j] # NoGrantCall)
    OBVIOUS
  <2>4. m = (past.met \/ \E j \in GrantCall : grantCall[j] # NoGrantCall)
    <3>1. past.met \in BOOLEAN
      BY <1>1 DEF PastType
    <3> QED
      BY <2>3, <3>1
  <2>5. past' = [past EXCEPT !.begun = past.begun + 1, !.met = m]
    BY <1>1, <2>4, Zenon
  <2>6. /\ past' \in PastType /\ past'.ended = past.ended /\ past'.withdrawn = past.withdrawn /\ past'.silent = past.silent
        /\ past'.word = past.word /\ past'.met = m
    BY <2>2, <2>5
  <2> QED
    BY <2>3, <2>6
<1>5. RevisionsInv(revision') /\ ConsentsInv(consent', past'.silent) /\ LeasesInv(leases', past'.ended)
  BY <1>1, <1>4 DEF GrantsInv
<1>6. CallsInv(grantCall', revision', leases')
  <2>1. \A j \in GrantCall : GrantShape(grantCall'[j], revision, leases)
    BY <1>2, <1>3 DEF GrantsInv, CallsInv
  <2> QED
    BY <1>1, <1>3, <2>1 DEF CallsInv
<1>7. Undisturbed(revision', grantCall', past')
  <2> SUFFICES ASSUME ~past'.met
               PROVE  /\ OneCall(grantCall') /\ \A j \in GrantCall : StateSeen(grantCall'[j], revision')
                      /\ Withdrawn(revision', past'.withdrawn) /\ PauseHolds(revision', past'.word)
    BY DEF Undisturbed
  <2>1. ~past.met /\ \A j \in GrantCall : grantCall[j] = NoGrantCall
    BY <1>4
  <2>2. Withdrawn(revision', past'.withdrawn) /\ PauseHolds(revision', past'.word)
    BY <1>1, <1>4, <2>1 DEF GrantsInv, Undisturbed
  <2>3. OneCall(grantCall')
    BY <1>3, <2>1 DEF OneCall
  <2>4. ASSUME NEW j \in GrantCall PROVE StateSeen(grantCall'[j], revision')
    BY <1>2, <1>3, <2>1, NoGrantIsTyped DEF StateSeen
  <2> QED
    BY <2>2, <2>3, <2>4
<1> QED
  BY <1>4, <1>5, <1>6, <1>7 DEF GrantsInv

LEMMA GrantsAsk == ASSUME GrantsInv, NEW k \in GrantCall, AskGrant(k) PROVE GrantsInv'
<1> DEFINE row(op, on, to) == [op |-> op, pc |-> "read", on |-> on, to |-> to, read |-> "none"]
<1>1. /\ MaxRevisions \in Nat /\ MaxLeases \in Nat /\ Revisions = 1..Len(revision) /\ Len(revision) <= MaxRevisions
      /\ Len(revision) \in Nat /\ DOMAIN leases = 1..Len(leases) /\ Len(leases) <= MaxLeases /\ Len(leases) \in Nat
      /\ \A r \in Revisions : revision[r].device \in Device
  BY GrantsAssumption, RowsAreTyped DEF GrantsInv, RevisionsInv, LeasesInv, Revisions, RevisionRow
<1>2. 0 \in 0..MaxRevisions + MaxLeases /\ Revisions \subseteq 0..MaxRevisions + MaxLeases /\ DOMAIN leases \subseteq 0..MaxRevisions + MaxLeases
  BY <1>1
<1>3. \A d \in Device : /\ row("confirm", 0, d) \in GrantCallType /\ GrantShape(row("confirm", 0, d), revision, leases)
                        /\ row("draft", 0, d) \in GrantCallType /\ GrantShape(row("draft", 0, d), revision, leases)
  BY <1>2 DEF GrantCallType, GrantShape
<1>4. ASSUME revision # <<>>, NEW r \in {0} \cup Revisions, NEW to \in {"enabled", "paused", "revoked"}
      PROVE  row("state", r, to) \in GrantCallType /\ GrantShape(row("state", r, to), revision, leases)
  BY <1>2, <1>4 DEF GrantCallType, GrantShape, Revisions
<1>5. ASSUME NEW r \in Revisions
      PROVE  /\ \A to \in SourceState : row("source", r, to) \in GrantCallType /\ GrantShape(row("source", r, to), revision, leases)
             /\ row("activate", r, revision[r].device) \in GrantCallType
             /\ GrantShape(row("activate", r, revision[r].device), revision, leases)
  BY <1>1, <1>2 DEF GrantCallType, GrantShape, Revisions
<1>6. ASSUME NEW l \in DOMAIN leases
      PROVE  row("heartbeat", l, "none") \in GrantCallType /\ GrantShape(row("heartbeat", l, "none"), revision, leases)
  BY <1>2 DEF GrantCallType, GrantShape
<1>7. \A op, on, to : BeginGrant(k, op, on, to) /\ row(op, on, to) \in GrantCallType /\ GrantShape(row(op, on, to), revision, leases)
                        => GrantsInv'
  BY GrantsBegin
<1> HIDE DEF row
<1> QED
  BY <1>3, <1>4, <1>5, <1>6, <1>7 DEF AskGrant

\* A request that goes on, or ends, and changes no revision.
LEMMA CallWorksQuietly ==
  ASSUME GrantsInv, NEW k \in GrantCall, NEW c \in GrantCallType, grantCall[k] # NoGrantCall,
         grantCall' = [grantCall EXCEPT ![k] = c], GrantShape(c, revision, leases'), DOMAIN leases \subseteq DOMAIN leases',
         ~past.met => StateSeen(c, revision), UNCHANGED revision,
         past'.met = past.met, past'.withdrawn = past.withdrawn, past'.word = past.word
  PROVE  CallsInv(grantCall', revision', leases') /\ Undisturbed(revision', grantCall', past') /\ RevisionsInv(revision')
<1>1. Len(revision) \in Nat /\ Len(revision) <= Len(revision)
  BY RowsAreTyped DEF GrantsInv, RevisionsInv
<1>2. /\ CallsInv(grantCall', revision, leases')
      /\ ~past.met => OneCall(grantCall')
      /\ ~past.met => \A j \in GrantCall : StateSeen(grantCall'[j], revision)
  BY <1>1, CallWorks
<1> QED
  BY <1>2 DEF GrantsInv, Undisturbed

LEMMA GrantEndsWell ==
  ASSUME GrantsInv, NEW k \in GrantCall, GrantEnds(k)
  PROVE  grantCall' = [grantCall EXCEPT ![k] = NoGrantCall] /\ NoGrantCall \in GrantCallType
         /\ \A R, L : GrantShape(NoGrantCall, R, L) /\ StateSeen(NoGrantCall, R)
  BY NoGrantIsTyped DEF GrantEnds

LEMMA AwaitingIsBusy ==
  ASSUME NEW k, NEW op \in {"confirm", "draft", "state", "source", "activate", "heartbeat"}, NEW pc, Awaits(k, op, pc)
  PROVE  grantCall[k] # NoGrantCall /\ grantCall[k].op = op /\ grantCall[k].pc = pc
<1>1. NoGrantCall.op = "none"
  BY DEF NoGrantCall
<1> QED
  BY <1>1 DEF Awaits, CallOf

LEMMA GrantsReadTo ==
  ASSUME GrantsInv, NEW k \in GrantCall, NEW c \in GrantCallType, grantCall[k] # NoGrantCall,
         grantCall' = [grantCall EXCEPT ![k] = c], GrantShape(c, revision, leases),
         ~past.met => StateSeen(c, revision), UNCHANGED <<revision, consent, leases, past>>
  PROVE  GrantsInv'
<1>1. CallsInv(grantCall', revision', leases') /\ Undisturbed(revision', grantCall', past') /\ RevisionsInv(revision')
  BY CallWorksQuietly
<1> QED
  BY <1>1 DEF GrantsInv

LEMMA GrantsDraftReads == ASSUME GrantsInv, NEW k \in GrantCall, DraftReads(k) PROVE GrantsInv'
<1> DEFINE n == Latest(grantCall[k].to) + 1
           c == [grantCall[k] EXCEPT !.pc = "write", !.on = n]
<1>1. /\ UNCHANGED <<revision, consent, leases, past>> /\ grantCall[k].op = "draft" /\ grantCall[k] # NoGrantCall
      /\ Latest(grantCall[k].to) < MaxRevisions /\ grantCall' = [grantCall EXCEPT ![k] = c]
  BY AwaitingIsBusy DEF DraftReads, CallOf
<1>2. grantCall[k] \in GrantCallType /\ GrantShape(grantCall[k], revision, leases)
  BY DEF GrantsInv, CallsInv
<1>3. n \in 1..MaxRevisions /\ n <= Len(revision) + 1 /\ n \in 0..MaxRevisions + MaxLeases
  <2>1. Latest(grantCall[k].to) \in Nat /\ Latest(grantCall[k].to) <= Len(revision) /\ Len(revision) \in Nat
    BY LatestIsGreatest, RowsAreTyped DEF GrantsInv, RevisionsInv
  <2> QED
    BY <1>1, <2>1, GrantsAssumption
<1> HIDE DEF n
<1>4. c \in GrantCallType /\ c.op = "draft" /\ c.pc = "write" /\ c.on = n /\ c.to = grantCall[k].to
  BY <1>1, <1>2, <1>3 DEF GrantCallType
<1> HIDE DEF c
<1>5. GrantShape(c, revision, leases) /\ StateSeen(c, revision)
  BY <1>1, <1>2, <1>3, <1>4 DEF GrantShape, StateSeen
<1> QED
  BY <1>1, <1>4, <1>5, GrantsReadTo

LEMMA GrantsStateReads == ASSUME GrantsInv, NEW k \in GrantCall, StateReads(k) PROVE GrantsInv'
<1> DEFINE r == IF grantCall[k].on = 0 THEN CurrentRevision ELSE grantCall[k].on
           c == [grantCall[k] EXCEPT !.pc = "write", !.on = r, !.read = revision[r].status]
<1>1. /\ UNCHANGED <<revision, consent, leases, past>> /\ grantCall[k].op = "state" /\ grantCall[k] # NoGrantCall
      /\ grantCall' = [grantCall EXCEPT ![k] = c]
  BY AwaitingIsBusy DEF StateReads, CallOf
<1>2. grantCall[k] \in GrantCallType /\ GrantShape(grantCall[k], revision, leases) /\ revision # <<>>
      /\ grantCall[k].on \in {0} \cup DOMAIN revision
  BY <1>1 DEF GrantsInv, CallsInv, GrantShape
<1>3. /\ r \in DOMAIN revision /\ r \in 0..MaxRevisions + MaxLeases
      /\ revision[r].status \in {"draft", "active", "superseded", "revoked"}
  <2>1. IsFirst(revision, CurrentRevision)
    BY <1>2, FirstIsCurrent, FirstExists DEF GrantsInv, RevisionsInv
  <2>2. r \in DOMAIN revision
    BY <1>2, <2>1 DEF IsFirst
  <2> HIDE DEF r
  <2>3. /\ r \in 1..Len(revision) /\ Len(revision) <= MaxRevisions /\ Len(revision) \in Nat
        /\ revision[r].status \in {"draft", "active", "superseded", "revoked"}
    BY <2>2, RowsAreTyped DEF GrantsInv, RevisionsInv, RevisionRow
  <2> QED
    BY <2>2, <2>3, GrantsAssumption
<1> HIDE DEF r
<1>4. c \in GrantCallType /\ c.op = "state" /\ c.pc = "write" /\ c.on = r /\ c.to = grantCall[k].to
      /\ c.read = revision[r].status
  BY <1>1, <1>2, <1>3 DEF GrantCallType
<1> HIDE DEF c
<1>5. GrantShape(c, revision, leases) /\ StateSeen(c, revision)
  BY <1>1, <1>2, <1>3, <1>4 DEF GrantShape, StateSeen
<1> QED
  BY <1>1, <1>4, <1>5, GrantsReadTo

LEMMA GrantsHeartbeatReads == ASSUME GrantsInv, NEW k \in GrantCall, HeartbeatReads(k) PROVE GrantsInv'
<1>1. /\ UNCHANGED <<revision, consent, leases, past>> /\ grantCall[k].op = "heartbeat" /\ grantCall[k] # NoGrantCall
      /\ \/ GrantEnds(k)
         \/ \E read \in {"revoked", "active"} : grantCall' = [grantCall EXCEPT ![k] = [@ EXCEPT !.pc = "write", !.read = read]]
  BY AwaitingIsBusy DEF HeartbeatReads, CallOf
<1>2. grantCall[k] \in GrantCallType /\ GrantShape(grantCall[k], revision, leases)
  BY DEF GrantsInv, CallsInv
<1>3. CASE GrantEnds(k)
  BY <1>1, <1>3, GrantEndsWell, GrantsReadTo
<1>4. ASSUME NEW read \in {"revoked", "active"}, grantCall' = [grantCall EXCEPT ![k] = [@ EXCEPT !.pc = "write", !.read = read]]
      PROVE  GrantsInv'
  <2> DEFINE c == [grantCall[k] EXCEPT !.pc = "write", !.read = read]
  <2>1. c \in GrantCallType /\ c.op = "heartbeat" /\ c.on = grantCall[k].on /\ c.to = grantCall[k].to
    BY <1>1, <1>2 DEF GrantCallType
  <2>2. grantCall' = [grantCall EXCEPT ![k] = c]
    BY <1>4
  <2> HIDE DEF c
  <2>3. GrantShape(c, revision, leases) /\ StateSeen(c, revision)
    BY <1>1, <1>2, <2>1 DEF GrantShape, StateSeen
  <2> QED
    BY <1>1, <2>1, <2>2, <2>3, GrantsReadTo
<1> QED
  BY <1>1, <1>3, <1>4

LEMMA GrantsConsents == ASSUME GrantsInv, NEW k \in GrantCall, StateRevokes(k) \/ SourceRevokes(k) PROVE GrantsInv'
<1>1. /\ UNCHANGED <<revision, leases>> /\ RevokeConsents /\ GrantEnds(k) /\ grantCall[k] # NoGrantCall
      /\ past' = past \/ past' = [past EXCEPT !.silent = TRUE]
  BY AwaitingIsBusy DEF StateRevokes, SourceRevokes
<1>2. past' \in PastType /\ past'.met = past.met /\ past'.withdrawn = past.withdrawn /\ past'.word = past.word /\ past'.ended = past.ended
  BY <1>1 DEF GrantsInv, PastType
<1>3. CallsInv(grantCall', revision', leases') /\ Undisturbed(revision', grantCall', past') /\ RevisionsInv(revision')
  BY <1>1, <1>2, GrantEndsWell, CallWorksQuietly
<1>4. ConsentsInv(consent', past'.silent)
  BY <1>1 DEF RevokeConsents, GrantsInv, ConsentsInv
<1>5. LeasesInv(leases', past'.ended)
  BY <1>1, <1>2 DEF GrantsInv
<1> QED
  BY <1>2, <1>3, <1>4, <1>5 DEF GrantsInv

\* Leases: one is added, or some end.
LEMMA LeaseChanges ==
  ASSUME GrantsInv, NEW k \in GrantCall, NEW c \in GrantCallType, grantCall[k] # NoGrantCall,
         grantCall' = [grantCall EXCEPT ![k] = c], GrantShape(c, revision, leases'), ~past.met => StateSeen(c, revision),
         UNCHANGED <<revision, consent>>, LeasesInv(leases', past'.ended), DOMAIN leases \subseteq DOMAIN leases',
         past' \in PastType, past'.met = past.met, past'.withdrawn = past.withdrawn, past'.word = past.word, past'.silent = past.silent
  PROVE  GrantsInv'
<1>1. CallsInv(grantCall', revision', leases') /\ Undisturbed(revision', grantCall', past') /\ RevisionsInv(revision')
  BY CallWorksQuietly
<1> QED
  BY <1>1 DEF GrantsInv

LEMMA LeasesAreTyped ==
  ASSUME GrantsInv
  PROVE  /\ leases \in Seq(LeaseRow) /\ Len(leases) \in Nat /\ Len(leases) <= MaxLeases /\ DOMAIN leases = 1..Len(leases)
         /\ DOMAIN leases \subseteq 1..MaxLeases /\ \A l \in DOMAIN leases : leases[l] \in LeaseRow
         /\ past.ended \subseteq DOMAIN leases /\ \A l \in past.ended : leases[l].status # "active"
<1>1. leases \in Seq(LeaseRow) /\ Len(leases) <= MaxLeases /\ past.ended \subseteq DOMAIN leases
      /\ \A l \in past.ended : leases[l].status # "active"
  BY DEF GrantsInv, LeasesInv
<1>2. Len(leases) \in Nat /\ DOMAIN leases = 1..Len(leases)
  BY <1>1
<1> QED
  BY <1>1, <1>2, GrantsAssumption

LEMMA GrantsLeaseSupersedes == ASSUME GrantsInv, NEW k \in GrantCall, LeaseSupersedes(k) PROVE GrantsInv'
<1> DEFINE gone == {l \in DOMAIN leases : leases[l].device = grantCall[k].to /\ leases[l].status = "active"}
           c == [grantCall[k] EXCEPT !.pc = "write"]
<1>1. /\ UNCHANGED <<revision, consent>> /\ grantCall[k].op = "activate" /\ grantCall[k] # NoGrantCall
      /\ grantCall' = [grantCall EXCEPT ![k] = c] /\ past' = [past EXCEPT !.ended = @ \cup gone]
      /\ leases' = [l \in DOMAIN leases |-> IF l \in gone THEN [leases[l] EXCEPT !.status = "ended"] ELSE leases[l]]
  BY AwaitingIsBusy DEF LeaseSupersedes, CallOf
<1>2. grantCall[k] \in GrantCallType /\ GrantShape(grantCall[k], revision, leases) /\ past \in PastType
  BY DEF GrantsInv, CallsInv
<1>3. c \in GrantCallType /\ c.op = "activate" /\ c.on = grantCall[k].on /\ c.to = grantCall[k].to
  BY <1>1, <1>2 DEF GrantCallType
<1>4. gone \subseteq DOMAIN leases
  OBVIOUS
<1> HIDE DEF c, gone
<1>5. /\ leases' \in Seq(LeaseRow) /\ Len(leases') = Len(leases) /\ DOMAIN leases' = DOMAIN leases
      /\ \A l \in DOMAIN leases : leases'[l] = IF l \in gone THEN [leases[l] EXCEPT !.status = "ended"] ELSE leases[l]
  <2>1. \A l \in DOMAIN leases : [leases[l] EXCEPT !.status = "ended"] \in LeaseRow
    BY LeasesAreTyped DEF LeaseRow
  <2>2. leases' \in [1..Len(leases) -> LeaseRow]
    BY <1>1, <2>1, LeasesAreTyped
  <2> QED
    BY <1>1, <2>2, LeasesAreTyped
<1>6. past' \in PastType /\ past'.met = past.met /\ past'.withdrawn = past.withdrawn /\ past'.word = past.word /\ past'.silent = past.silent
      /\ past'.ended = past.ended \cup gone
  <2>1. past.ended \cup gone \in SUBSET (1..MaxLeases)
    BY <1>4, LeasesAreTyped
  <2> QED
    BY <1>1, <1>2, <2>1 DEF PastType
<1>7. LeasesInv(leases', past'.ended)
  <2>1. ASSUME NEW l \in past'.ended PROVE leases'[l].status # "active"
    <3>1. l \in DOMAIN leases /\ leases[l] \in LeaseRow
      BY <1>4, <1>6, LeasesAreTyped
    <3>2. CASE l \in gone
      BY <1>5, <3>1, <3>2 DEF LeaseRow
    <3>3. CASE l \notin gone
      BY <1>5, <1>6, <3>1, <3>3, LeasesAreTyped
    <3> QED
      BY <3>2, <3>3
  <2> QED
    BY <1>4, <1>5, <1>6, <2>1, LeasesAreTyped DEF LeasesInv
<1>8. GrantShape(c, revision, leases') /\ StateSeen(c, revision)
  BY <1>1, <1>2, <1>3 DEF GrantShape, StateSeen
<1> QED
  BY <1>1, <1>3, <1>5, <1>6, <1>7, <1>8, LeaseChanges

LEMMA GrantsLeaseInserts == ASSUME GrantsInv, NEW k \in GrantCall, LeaseInserts(k) PROVE GrantsInv'
<1>1. /\ UNCHANGED <<revision, consent, past>> /\ GrantEnds(k) /\ grantCall[k] # NoGrantCall /\ grantCall[k].op = "activate"
      /\ \/ /\ Len(leases) < MaxLeases
            /\ leases' = Append(leases, [revision |-> grantCall[k].on, device |-> grantCall[k].to, status |-> "active", overdue |-> FALSE])
         \/ leases' = leases
  BY AwaitingIsBusy DEF LeaseInserts, CallOf
<1>2. GrantShape(grantCall[k], revision, leases) /\ past \in PastType
  BY DEF GrantsInv, CallsInv
<1>3. LeasesInv(leases', past'.ended) /\ DOMAIN leases \subseteq DOMAIN leases'
  <2>1. CASE leases' = leases
    BY <1>1, <2>1 DEF GrantsInv
  <2>2. CASE leases' # leases
    <3>1. PICK row \in LeaseRow : leases' = Append(leases, row) /\ Len(leases) < MaxLeases
      <4>1. grantCall[k].to \in Device /\ grantCall[k].on \in 1..MaxRevisions
        <5>1. DOMAIN revision = 1..Len(revision) /\ Len(revision) <= MaxRevisions /\ Len(revision) \in Nat
          BY RowsAreTyped DEF GrantsInv, RevisionsInv
        <5> QED
          BY <1>1, <1>2, <5>1, GrantsAssumption DEF GrantShape
      <4>2. [revision |-> grantCall[k].on, device |-> grantCall[k].to, status |-> "active", overdue |-> FALSE] \in LeaseRow
        BY <4>1 DEF LeaseRow
      <4> QED
        BY <1>1, <2>2, <4>2
    <3>2. /\ leases' \in Seq(LeaseRow) /\ Len(leases') = Len(leases) + 1 /\ DOMAIN leases' = 1..Len(leases) + 1
          /\ \A l \in DOMAIN leases : leases'[l] = leases[l]
      BY <3>1, LeasesAreTyped
    <3>3. DOMAIN leases \subseteq DOMAIN leases' /\ Len(leases') <= MaxLeases
      BY <3>1, <3>2, LeasesAreTyped, GrantsAssumption
    <3>4. past'.ended = past.ended
      BY <1>1
    <3>5. past'.ended \subseteq DOMAIN leases' /\ \A l \in past'.ended : leases'[l].status # "active"
      BY <3>2, <3>3, <3>4, LeasesAreTyped
    <3> QED
      BY <3>2, <3>3, <3>5 DEF LeasesInv
  <2> QED
    BY <2>1, <2>2
<1> QED
  BY <1>1, <1>2, <1>3, GrantEndsWell, LeaseChanges

\* A lease is written: what it becomes, and what is counted as ended.
LEMMA LeaseIsWritten ==
  ASSUME GrantsInv, NEW l \in DOMAIN leases, NEW row \in LeaseRow, leases' = [leases EXCEPT ![l] = row],
         NEW e, e = past.ended \/ e = past.ended \cup {l}, row.status = "active" => leases[l].status = "active" /\ e = past.ended
  PROVE  LeasesInv(leases', e) /\ DOMAIN leases' = DOMAIN leases /\ e \in SUBSET (1..MaxLeases)
<1>1. /\ leases' \in Seq(LeaseRow) /\ Len(leases') = Len(leases) /\ DOMAIN leases' = DOMAIN leases
      /\ \A j \in DOMAIN leases : leases'[j] = IF j = l THEN row ELSE leases[j]
  <2>1. leases' \in [1..Len(leases) -> LeaseRow]
    BY LeasesAreTyped
  <2> QED
    BY <2>1, LeasesAreTyped
<1>2. e \subseteq DOMAIN leases
  BY LeasesAreTyped
<1>3. ASSUME NEW j \in e PROVE leases'[j].status # "active"
  BY <1>1, <1>2, LeasesAreTyped
<1> QED
  BY <1>1, <1>2, <1>3, LeasesAreTyped DEF LeasesInv

LEMMA GrantsHeartbeatWrites == ASSUME GrantsInv, NEW k \in GrantCall, HeartbeatWrites(k) PROVE GrantsInv'
<1> DEFINE l == grantCall[k].on
           late == grantCall[k].read = "revoked"
<1>1. /\ UNCHANGED <<revision, consent>> /\ GrantEnds(k) /\ grantCall[k] # NoGrantCall /\ grantCall[k].op = "heartbeat"
      /\ past' = [past EXCEPT !.ended = IF late THEN @ \cup {l} ELSE @]
      /\ leases' = [leases EXCEPT ![l] = IF late THEN [@ EXCEPT !.status = "expired"]
                                         ELSE IF @.status = "active" THEN [@ EXCEPT !.overdue = FALSE] ELSE @]
  BY AwaitingIsBusy DEF HeartbeatWrites, CallOf
<1>2. GrantShape(grantCall[k], revision, leases) /\ past \in PastType
  BY DEF GrantsInv, CallsInv
<1>3. l \in DOMAIN leases /\ leases[l] \in LeaseRow
  BY <1>1, <1>2, LeasesAreTyped DEF GrantShape
<1> HIDE DEF l, late
<1>4. PICK row \in LeaseRow : /\ leases' = [leases EXCEPT ![l] = row]
                              /\ row.status = "active" => leases[l].status = "active" /\ ~late
  <2>1. [leases[l] EXCEPT !.status = "expired"] \in LeaseRow /\ [leases[l] EXCEPT !.overdue = FALSE] \in LeaseRow
        /\ [leases[l] EXCEPT !.status = "expired"].status = "expired"
        /\ [leases[l] EXCEPT !.overdue = FALSE].status = leases[l].status
    BY <1>3 DEF LeaseRow
  <2>2. CASE late
    BY <1>1, <2>1, <2>2
  <2>3. CASE ~late /\ leases[l].status = "active"
    BY <1>1, <2>1, <2>3
  <2>4. CASE ~late /\ leases[l].status # "active"
    BY <1>1, <1>3, <2>4
  <2> QED
    BY <2>2, <2>3, <2>4
<1> DEFINE e == IF late THEN past.ended \cup {l} ELSE past.ended
<1>5. LeasesInv(leases', e) /\ DOMAIN leases' = DOMAIN leases /\ e \in SUBSET (1..MaxLeases)
  <2>1. e = past.ended \/ e = past.ended \cup {l}
    OBVIOUS
  <2>2. row.status = "active" => leases[l].status = "active" /\ e = past.ended
    BY <1>4
  <2> HIDE DEF e
  <2> QED
    BY <1>3, <1>4, <2>1, <2>2, LeaseIsWritten
<1>6. past' = [past EXCEPT !.ended = e]
  BY <1>1
<1> HIDE DEF e
<1>7. past' \in PastType /\ past'.met = past.met /\ past'.withdrawn = past.withdrawn /\ past'.word = past.word /\ past'.silent = past.silent
      /\ past'.ended = e
  BY <1>2, <1>5, <1>6 DEF PastType
<1> QED
  BY <1>1, <1>5, <1>7, GrantEndsWell, LeaseChanges

\* The host ends a lease, or lets it run out.
LEMMA GrantsHost ==
  ASSUME GrantsInv, NEW l \in DOMAIN leases, EndLease(l) \/ LeaseRunsOut(l)
  PROVE  GrantsInv'
<1>1. /\ UNCHANGED <<revision, consent, grantCall>> /\ past \in PastType /\ leases[l] \in LeaseRow /\ leases[l].status = "active"
      /\ \/ leases' = [leases EXCEPT ![l] = [@ EXCEPT !.status = "ended"]] /\ past' = [past EXCEPT !.ended = @ \cup {l}]
         \/ leases' = [leases EXCEPT ![l] = [@ EXCEPT !.overdue = TRUE]] /\ past' = past
  BY LeasesAreTyped DEF EndLease, LeaseRunsOut, GrantsInv
<1>2. PICK row \in LeaseRow, e \in SUBSET (DOMAIN leases) :
                                 /\ leases' = [leases EXCEPT ![l] = row] /\ past' = [past EXCEPT !.ended = e]
                                 /\ e = past.ended \/ e = past.ended \cup {l}
                                 /\ row.status = "active" => e = past.ended
  <2>1. [leases[l] EXCEPT !.status = "ended"] \in LeaseRow /\ [leases[l] EXCEPT !.overdue = TRUE] \in LeaseRow
        /\ [leases[l] EXCEPT !.status = "ended"].status = "ended"
        /\ past = [past EXCEPT !.ended = past.ended]
    BY <1>1 DEF LeaseRow, PastType
  <2>2. past.ended \in SUBSET (DOMAIN leases) /\ past.ended \cup {l} \in SUBSET (DOMAIN leases)
    BY LeasesAreTyped
  <2> QED
    BY <1>1, <2>1, <2>2
<1>3. LeasesInv(leases', e) /\ DOMAIN leases' = DOMAIN leases /\ e \in SUBSET (1..MaxLeases)
  BY <1>1, <1>2, LeaseIsWritten
<1>4. past' \in PastType /\ past'.met = past.met /\ past'.withdrawn = past.withdrawn /\ past'.word = past.word /\ past'.silent = past.silent
      /\ past'.ended = e
  BY <1>1, <1>2, <1>3 DEF PastType
<1>5. CallsInv(grantCall', revision', leases')
  <2>1. \A j \in GrantCall : GrantShape(grantCall[j], revision, leases')
    BY <1>3 DEF GrantsInv, CallsInv, GrantShape
  <2> QED
    BY <1>1, <2>1 DEF GrantsInv, CallsInv
<1>6. Undisturbed(revision', grantCall', past')
  BY <1>1, <1>4 DEF GrantsInv, Undisturbed
<1> QED
  BY <1>1, <1>3, <1>4, <1>5, <1>6 DEF GrantsInv

\* A request that writes the revisions.
LEMMA RevisionsChange ==
  ASSUME GrantsInv, NEW k \in GrantCall, NEW c \in GrantCallType, grantCall[k] # NoGrantCall,
         grantCall' = [grantCall EXCEPT ![k] = c], UNCHANGED leases, GrantShape(c, revision', leases), StateSeen(c, revision'),
         RevisionsInv(revision'), Len(revision) <= Len(revision'), ConsentsInv(consent', past'.silent),
         past' \in PastType, past'.met = past.met, past'.ended = past.ended,
         ~past.met => Withdrawn(revision', past'.withdrawn) /\ PauseHolds(revision', past'.word)
  PROVE  GrantsInv'
<1>1. /\ Len(revision) \in Nat /\ Len(revision') \in Nat /\ DOMAIN revision \subseteq DOMAIN revision'
      /\ revision' = <<>> => revision = <<>>
  <2>1. Len(revision) \in Nat /\ Len(revision') \in Nat /\ DOMAIN revision = 1..Len(revision) /\ DOMAIN revision' = 1..Len(revision')
    BY RowsAreTyped DEF GrantsInv, RevisionsInv
  <2>2. revision \in Seq(RevisionRow) /\ revision' \in Seq(RevisionRow)
    BY DEF GrantsInv, RevisionsInv, Numbered
  <2> QED
    BY <2>1, <2>2
<1>2. /\ CallsInv(grantCall', revision', leases)
      /\ ~past.met => OneCall(grantCall')
      /\ ~past.met => \A j \in GrantCall : StateSeen(grantCall'[j], revision')
  BY <1>1, CallWorks
<1>3. Undisturbed(revision', grantCall', past')
  BY <1>2 DEF Undisturbed
<1>4. LeasesInv(leases', past'.ended)
  BY DEF GrantsInv
<1> QED
  BY <1>2, <1>3, <1>4 DEF GrantsInv

LEMMA CallIsTyped ==
  ASSUME GrantsInv, NEW k \in GrantCall
  PROVE  grantCall[k] \in GrantCallType /\ GrantShape(grantCall[k], revision, leases) /\ past \in PastType
         /\ revision \in Seq(RevisionRow) /\ Len(revision) \in Nat /\ DOMAIN revision = 1..Len(revision) /\ Len(revision) <= MaxRevisions
         /\ ConsentsInv(consent, past.silent)
  BY RowsAreTyped DEF GrantsInv, CallsInv, RevisionsInv, Numbered

LEMMA GrantsDraftInserts == ASSUME GrantsInv, NEW k \in GrantCall, DraftInserts(k) PROVE GrantsInv'
<1> DEFINE row == [device |-> grantCall[k].to, number |-> grantCall[k].on, status |-> "draft", desired |-> "none", source |-> "requested"]
<1>1. /\ UNCHANGED <<consent, leases, past>> /\ GrantEnds(k) /\ grantCall[k] # NoGrantCall
      /\ grantCall[k].op = "draft" /\ grantCall[k].pc = "write"
      /\ \/ UNCHANGED revision
         \/ /\ ~\E r \in Revisions : revision[r].device = grantCall[k].to /\ revision[r].number = grantCall[k].on
            /\ Len(revision) < MaxRevisions /\ revision' = Append(revision, row)
  BY AwaitingIsBusy DEF DraftInserts, CallOf
<1>2. CASE UNCHANGED revision
  BY <1>1, <1>2, GrantEndsWell, GrantsReadTo
<1>3. CASE revision' # revision
  <2>1. grantCall[k].to \in Device /\ grantCall[k].on \in 1..MaxRevisions /\ grantCall[k].on <= Len(revision) + 1
    BY <1>1, CallIsTyped DEF GrantShape
  <2>2. row \in RevisionRow /\ row.device = grantCall[k].to /\ row.number = grantCall[k].on /\ row.status = "draft" /\ row.desired = "none"
    BY <2>1 DEF RevisionRow, SourceState
  <2> HIDE DEF row
  <2>3. revision' = Append(revision, row) /\ Len(revision) < MaxRevisions
        /\ \A r \in DOMAIN revision : revision[r].device = row.device => revision[r].number # row.number
    BY <1>1, <1>3, <2>2 DEF Revisions
  <2>4. RevisionsInv(revision')
    BY <2>1, <2>2, <2>3, RowIsAdded DEF GrantsInv
  <2>5. /\ Len(revision') = Len(revision) + 1 /\ DOMAIN revision' = 1..Len(revision) + 1 /\ revision'[Len(revision) + 1] = row
        /\ \A r \in DOMAIN revision : revision'[r] = revision[r]
    BY <2>2, <2>3, CallIsTyped
  <2>6. \A r \in DOMAIN revision' : r \in DOMAIN revision \/ r = Len(revision) + 1
    BY <2>5, CallIsTyped
  <2>7. DOMAIN revision \subseteq DOMAIN revision'
    BY <2>5, CallIsTyped
  <2>8. ASSUME ~past.met PROVE Withdrawn(revision', past'.withdrawn) /\ PauseHolds(revision', past'.word)
    <3>1. Withdrawn(revision, past.withdrawn) /\ PauseHolds(revision, past.word)
      BY <2>8 DEF GrantsInv, Undisturbed
    <3>2. past'.withdrawn \subseteq DOMAIN revision' /\ \A r \in past'.withdrawn : revision'[r].status \in {"superseded", "revoked"}
      BY <1>1, <2>5, <2>7, <3>1 DEF Withdrawn
    <3>3. ASSUME NEW r \in DOMAIN revision', revision'[r].status = "superseded"
          PROVE  \E s \in DOMAIN revision' : revision'[s].device = revision'[r].device /\ revision'[s].number > revision'[r].number
      <4>1. r \in DOMAIN revision
        BY <2>2, <2>5, <2>6, <3>3
      <4> QED
        BY <2>5, <2>7, <3>1, <3>3, <4>1 DEF Withdrawn
    <3>4. ASSUME NEW r \in DOMAIN revision', NEW s \in DOMAIN revision', revision'[r].status = "active", revision'[s].status = "active",
                 revision'[r].device = revision'[s].device
          PROVE  r = s
      <4>1. r \in DOMAIN revision /\ s \in DOMAIN revision
        BY <2>2, <2>5, <2>6, <3>4
      <4> QED
        BY <2>5, <3>1, <3>4, <4>1 DEF Withdrawn
    <3>5. PauseHolds(revision', past'.word)
      <4>1. Numbered(revision) /\ Numbered(revision')
        BY <2>4 DEF GrantsInv, RevisionsInv
      <4>2. FirstOf(revision') = Len(revision) + 1 \/ (revision # <<>> /\ FirstOf(revision') = FirstOf(revision))
        BY <2>2, <2>3, <4>1, AppendedFirst
      <4>3. revision # <<>> => FirstOf(revision) \in DOMAIN revision
        BY <4>1, FirstExists DEF IsFirst
      <4> QED
        BY <1>1, <2>2, <2>5, <3>1, <4>2, <4>3 DEF PauseHolds
    <3> QED
      BY <3>2, <3>3, <3>4, <3>5 DEF Withdrawn
  <2>9. ConsentsInv(consent', past'.silent) /\ past' \in PastType /\ past'.met = past.met /\ past'.ended = past.ended
        /\ Len(revision) <= Len(revision')
    BY <1>1, <2>5, CallIsTyped
  <2> QED
    BY <1>1, <2>4, <2>8, <2>9, GrantEndsWell, RevisionsChange
<1> QED
  BY <1>2, <1>3

\* One row is written: its device and its number stay.
LEMMA RevisionIsWritten ==
  ASSUME GrantsInv, NEW r \in DOMAIN revision, NEW row \in RevisionRow, revision' = [revision EXCEPT ![r] = row],
         row.device = revision[r].device, row.number = revision[r].number
  PROVE  /\ RevisionsInv(revision') /\ DOMAIN revision' = DOMAIN revision /\ Len(revision') = Len(revision)
         /\ \A s \in DOMAIN revision : revision'[s] = IF s = r THEN row ELSE revision[s]
         /\ revision # <<>> /\ (row.status = revision[r].status => FirstOf(revision') = FirstOf(revision))
<1>1. /\ revision \in Seq(RevisionRow) /\ Len(revision) \in Nat /\ DOMAIN revision = 1..Len(revision)
  BY RowsAreTyped DEF GrantsInv, RevisionsInv, Numbered
<1>2. /\ revision' \in Seq(RevisionRow) /\ Len(revision') = Len(revision) /\ DOMAIN revision' = DOMAIN revision
      /\ \A s \in DOMAIN revision : revision'[s] = IF s = r THEN row ELSE revision[s]
  <2>1. revision' \in [1..Len(revision) -> RevisionRow]
    BY <1>1
  <2> QED
    BY <1>1, <2>1
<1>3. \A s \in DOMAIN revision : revision'[s].device = revision[s].device /\ revision'[s].number = revision[s].number
  BY <1>2
<1>4. RevisionsInv(revision')
  BY <1>2, <1>3, RowsAreRewritten DEF GrantsInv
<1>5. revision # <<>>
  BY <1>1
<1>6. ASSUME row.status = revision[r].status PROVE FirstOf(revision') = FirstOf(revision)
  <2>1. \A s \in DOMAIN revision : revision'[s].number = revision[s].number /\ revision'[s].status = revision[s].status
    BY <1>2, <1>3, <1>6
  <2> QED
    <3>1. Numbered(revision) /\ Numbered(revision')
      BY <1>4 DEF GrantsInv, RevisionsInv
    <3> QED
      BY <1>2, <1>5, <2>1, <3>1, SameFirst
<1> QED
  BY <1>2, <1>4, <1>5, <1>6

\* What was withdrawn stays so if no status is changed, or one is revoked.
LEMMA WithdrawnIsKept ==
  ASSUME NEW R, NEW Q, NEW gone, NEW r \in DOMAIN R, Withdrawn(R, gone), DOMAIN Q = DOMAIN R,
         \A s \in DOMAIN R : Q[s].device = R[s].device /\ Q[s].number = R[s].number,
         \A s \in DOMAIN R : s # r => Q[s].status = R[s].status,
         Q[r].status = R[r].status \/ Q[r].status = "revoked",
         NEW more, more = gone \/ (more = gone \cup {r} /\ Q[r].status = "revoked")
  PROVE  Withdrawn(Q, more)
<1>1. more \subseteq DOMAIN Q /\ \A s \in more : Q[s].status \in {"superseded", "revoked"}
  BY DEF Withdrawn
<1>2. ASSUME NEW s \in DOMAIN Q, Q[s].status = "superseded"
      PROVE  \E t \in DOMAIN Q : Q[t].device = Q[s].device /\ Q[t].number > Q[s].number
  <2>1. R[s].status = "superseded"
    BY <1>2
  <2> QED
    BY <2>1 DEF Withdrawn
<1>3. ASSUME NEW s \in DOMAIN Q, NEW t \in DOMAIN Q, Q[s].status = "active", Q[t].status = "active", Q[s].device = Q[t].device
      PROVE  s = t
  <2>1. R[s].status = "active" /\ R[t].status = "active" /\ R[s].device = R[t].device
    BY <1>3
  <2> QED
    BY <2>1 DEF Withdrawn
<1> QED
  BY <1>1, <1>2, <1>3 DEF Withdrawn

LEMMA GrantsSourceWrites == ASSUME GrantsInv, NEW k \in GrantCall, SourceWrites(k) PROVE GrantsInv'
<1> DEFINE r == grantCall[k].on
           row == [revision[r] EXCEPT !.source = grantCall[k].to]
<1>1. /\ UNCHANGED <<consent, leases, past>> /\ grantCall[k] # NoGrantCall /\ grantCall[k].op = "source"
      /\ revision' = [revision EXCEPT ![r] = row]
      /\ GrantEnds(k) \/ grantCall' = [grantCall EXCEPT ![k] = [@ EXCEPT !.pc = "consents"]]
  BY AwaitingIsBusy DEF SourceWrites, CallOf
<1>2. r \in DOMAIN revision /\ grantCall[k].to \in SourceState /\ revision[r] \in RevisionRow
  BY <1>1, CallIsTyped DEF GrantShape
<1>3. row \in RevisionRow /\ row.device = revision[r].device /\ row.number = revision[r].number /\ row.status = revision[r].status
      /\ row.desired = revision[r].desired
  BY <1>2 DEF RevisionRow
<1>4. PICK c \in GrantCallType : grantCall' = [grantCall EXCEPT ![k] = c] /\ (c = NoGrantCall \/ (c.op = "source" /\ c.on = r /\ c.to = grantCall[k].to))
  <2>1. [grantCall[k] EXCEPT !.pc = "consents"] \in GrantCallType /\ [grantCall[k] EXCEPT !.pc = "consents"].op = "source"
        /\ [grantCall[k] EXCEPT !.pc = "consents"].on = r /\ [grantCall[k] EXCEPT !.pc = "consents"].to = grantCall[k].to
    BY <1>1, CallIsTyped DEF GrantCallType
  <2> QED
    BY <1>1, <2>1, GrantEndsWell
<1> HIDE DEF r, row
<1>5. /\ RevisionsInv(revision') /\ DOMAIN revision' = DOMAIN revision /\ Len(revision') = Len(revision)
      /\ \A s \in DOMAIN revision : revision'[s] = IF s = r THEN row ELSE revision[s]
      /\ revision # <<>> /\ FirstOf(revision') = FirstOf(revision)
  BY <1>1, <1>2, <1>3, RevisionIsWritten
<1>6. /\ \A s \in DOMAIN revision : revision'[s].device = revision[s].device /\ revision'[s].number = revision[s].number
      /\ \A s \in DOMAIN revision : revision'[s].status = revision[s].status /\ revision'[s].desired = revision[s].desired
  BY <1>3, <1>5
<1>7. ASSUME ~past.met PROVE Withdrawn(revision', past'.withdrawn) /\ PauseHolds(revision', past'.word)
  <2>1. Withdrawn(revision, past.withdrawn) /\ PauseHolds(revision, past.word)
    BY <1>7 DEF GrantsInv, Undisturbed
  <2>2. Withdrawn(revision', past'.withdrawn)
    BY <1>1, <1>2, <1>5, <1>6, <2>1, WithdrawnIsKept
  <2>3. FirstOf(revision) \in DOMAIN revision
    BY <1>5, FirstExists DEF IsFirst, GrantsInv, RevisionsInv
  <2> QED
    BY <1>1, <1>5, <1>6, <2>1, <2>2, <2>3 DEF PauseHolds
<1>8. GrantShape(c, revision', leases) /\ StateSeen(c, revision')
  <2>1. CASE c = NoGrantCall
    BY <2>1, NoGrantIsTyped
  <2>2. CASE c.op = "source" /\ c.on = r /\ c.to = grantCall[k].to
    BY <1>2, <1>5, <2>2 DEF GrantShape, StateSeen
  <2> QED
    BY <1>4, <2>1, <2>2
<1>9. ConsentsInv(consent', past'.silent) /\ past' \in PastType /\ past'.met = past.met /\ past'.ended = past.ended
      /\ Len(revision) <= Len(revision')
  BY <1>1, <1>5, CallIsTyped
<1> QED
  BY <1>1, <1>4, <1>5, <1>7, <1>8, <1>9, RevisionsChange

LEMMA GrantsStateWrites == ASSUME GrantsInv, NEW k \in GrantCall, StateWrites(k) PROVE GrantsInv'
<1> DEFINE r == grantCall[k].on
           to == grantCall[k].to
           standing == IF to = "revoked" THEN "revoked" ELSE grantCall[k].read
           row == [revision[r] EXCEPT !.desired = to, !.status = standing]
           gone == IF to = "revoked" THEN past.withdrawn \cup {r} ELSE past.withdrawn
           word == IF r = CurrentRevision THEN to ELSE past.word
<1>1. /\ UNCHANGED <<consent, leases>> /\ grantCall[k] # NoGrantCall /\ grantCall[k].op = "state" /\ grantCall[k].pc = "write"
      /\ revision' = [revision EXCEPT ![r] = row]
      /\ GrantEnds(k) \/ grantCall' = [grantCall EXCEPT ![k] = [@ EXCEPT !.pc = "consents"]]
      /\ past' = [past EXCEPT !.withdrawn = gone, !.word = word]
  BY AwaitingIsBusy DEF StateWrites, CallOf
<1>2. r \in DOMAIN revision /\ to \in {"enabled", "paused", "revoked"} /\ revision[r] \in RevisionRow
      /\ standing \in {"draft", "active", "superseded", "revoked"} /\ r \in 1..MaxRevisions
  <2>1. r \in DOMAIN revision /\ to \in {"enabled", "paused", "revoked"} /\ grantCall[k].read # "none"
        /\ grantCall[k].read \in {"none", "draft", "active", "superseded", "revoked"}
    BY <1>1, CallIsTyped DEF GrantShape, GrantCallType
  <2> QED
    BY <2>1, CallIsTyped, GrantsAssumption
<1>3. row \in RevisionRow /\ row.device = revision[r].device /\ row.number = revision[r].number /\ row.status = standing
      /\ row.desired = to
  <2> HIDE DEF r, to, standing
  <2> QED
    BY <1>2 DEF RevisionRow
<1>4. PICK c \in GrantCallType : grantCall' = [grantCall EXCEPT ![k] = c]
        /\ (c = NoGrantCall \/ (c.op = "state" /\ c.pc = "consents" /\ c.on = r /\ c.to = grantCall[k].to))
  <2>1. [grantCall[k] EXCEPT !.pc = "consents"] \in GrantCallType /\ [grantCall[k] EXCEPT !.pc = "consents"].op = "state"
        /\ [grantCall[k] EXCEPT !.pc = "consents"].pc = "consents" /\ [grantCall[k] EXCEPT !.pc = "consents"].to = grantCall[k].to
        /\ [grantCall[k] EXCEPT !.pc = "consents"].on = r
    BY <1>1, CallIsTyped DEF GrantCallType
  <2> QED
    BY <1>1, <2>1, GrantEndsWell
<1> HIDE DEF row
<1>5. /\ RevisionsInv(revision') /\ DOMAIN revision' = DOMAIN revision /\ Len(revision') = Len(revision)
      /\ \A s \in DOMAIN revision : revision'[s] = IF s = r THEN row ELSE revision[s]
      /\ revision # <<>> /\ (row.status = revision[r].status => FirstOf(revision') = FirstOf(revision))
  <2> HIDE DEF r
  <2> QED
    BY <1>1, <1>2, <1>3, RevisionIsWritten
<1>6. /\ past' \in PastType /\ past'.met = past.met /\ past'.ended = past.ended /\ past'.silent = past.silent
      /\ past'.withdrawn = gone /\ past'.word = word
  <2>1. gone \in SUBSET (1..MaxRevisions) /\ past \in PastType /\ word \in {"none", "enabled", "paused", "revoked"}
    <3>1. past.withdrawn \in SUBSET (1..MaxRevisions) /\ past \in PastType /\ past.word \in {"none", "enabled", "paused", "revoked"}
      BY CallIsTyped DEF PastType
    <3> QED
      BY <1>2, <3>1
  <2> HIDE DEF gone, word
  <2> QED
    BY <1>1, <1>2, <2>1 DEF PastType
<1>7. ASSUME ~past.met PROVE Withdrawn(revision', past'.withdrawn) /\ PauseHolds(revision', past'.word)
  <2>1. Withdrawn(revision, past.withdrawn) /\ PauseHolds(revision, past.word) /\ grantCall[k].read = revision[r].status
    BY <1>1, <1>7 DEF GrantsInv, Undisturbed, StateSeen
  <2>2. /\ \A s \in DOMAIN revision : revision'[s].device = revision[s].device /\ revision'[s].number = revision[s].number
        /\ \A s \in DOMAIN revision : s # r => revision'[s].status = revision[s].status
        /\ revision'[r] = row
    BY <1>2, <1>3, <1>5
  <2>3. Withdrawn(revision', past'.withdrawn)
    <3>1. revision'[r].status = standing
      BY <1>3, <2>2
    <3>2. revision'[r].status = revision[r].status \/ revision'[r].status = "revoked"
      BY <2>1, <3>1
    <3>3. gone = past.withdrawn \/ (gone = past.withdrawn \cup {r} /\ revision'[r].status = "revoked")
      BY <3>1
    <3> HIDE DEF gone, r, standing, to
    <3> QED
      BY <1>2, <1>5, <1>6, <2>1, <2>2, <3>2, <3>3, WithdrawnIsKept
  <2>4. PauseHolds(revision', past'.word)
    <3> SUFFICES ASSUME past'.word = "paused" PROVE revision'[FirstOf(revision')].desired # "enabled"
      BY DEF PauseHolds
    <3>1. CASE r = FirstOf(revision)
      <4>1. to = "paused" /\ row.status = revision[r].status
        BY <1>3, <1>6, <2>1, <3>1, FirstIsCurrent
      <4>2. FirstOf(revision') = r
        BY <1>5, <2>1, <3>1, <4>1
      <4> QED
        BY <1>3, <2>2, <4>1, <4>2
    <3>2. CASE r # FirstOf(revision)
      <4>1. revision[FirstOf(revision)].desired # "enabled"
        BY <1>5, <1>6, <2>1, <3>2, FirstIsCurrent DEF PauseHolds
      <4>2. FirstOf(revision') = FirstOf(revision)
        <5>1. CASE row.status = revision[r].status
          BY <1>5, <5>1
        <5>2. CASE row.status # revision[r].status
          <6>1. revision'[r].status = "revoked"
            BY <1>3, <2>1, <2>2, <5>2
          <6>2. revision[r].status = "superseded" => \E s \in DOMAIN revision : revision[s].number > revision[r].number
            BY <1>2, <2>1 DEF Withdrawn
          <6>3. Numbered(revision) /\ Numbered(revision')
            BY <1>5 DEF GrantsInv, RevisionsInv
          <6> HIDE DEF r, standing, to, gone, word
          <6> QED
            BY <1>2, <1>5, <2>2, <3>2, <6>1, <6>2, <6>3, FirstOutlivesAnother
        <5> QED
          BY <5>1, <5>2
      <4>3. FirstOf(revision) \in DOMAIN revision
        BY <1>5, FirstExists DEF IsFirst, GrantsInv, RevisionsInv
      <4> QED
        BY <1>5, <3>2, <4>1, <4>2, <4>3
    <3> QED
      BY <3>1, <3>2
  <2> QED
    BY <2>3, <2>4
<1>8. GrantShape(c, revision', leases) /\ StateSeen(c, revision')
  <2>1. CASE c = NoGrantCall
    BY <2>1, NoGrantIsTyped
  <2>2. CASE c.op = "state" /\ c.pc = "consents" /\ c.on = r /\ c.to = grantCall[k].to
    <3>1. revision' # <<>>
      BY <1>2, <1>5
    <3>2. c.on \in {0} \cup DOMAIN revision' /\ c.to \in {"enabled", "paused", "revoked"}
      BY <1>2, <1>5, <2>2
    <3>3. c.op = "state" /\ c.pc = "consents"
      BY <2>2
    <3> HIDE DEF r, to
    <3> QED
      BY <3>1, <3>2, <3>3 DEF GrantShape, StateSeen
  <2> QED
    BY <1>4, <2>1, <2>2
<1>9. ConsentsInv(consent', past'.silent) /\ Len(revision) <= Len(revision')
  BY <1>1, <1>5, <1>6, CallIsTyped
<1> QED
  BY <1>1, <1>4, <1>5, <1>6, <1>7, <1>8, <1>9, RevisionsChange

LEMMA GrantsConfirms == ASSUME GrantsInv, NEW k \in GrantCall, ConfirmProfile(k) PROVE GrantsInv'
<1> DEFINE d == grantCall[k].to
           n == Len(revision) + 1
           gone == {s \in DOMAIN revision : revision[s].device = d /\ revision[s].status = "active"}
           Q == [s \in DOMAIN revision |-> IF s \in gone THEN [revision[s] EXCEPT !.status = "superseded"] ELSE revision[s]]
<1>1. /\ UNCHANGED leases /\ GrantEnds(k) /\ grantCall[k] # NoGrantCall /\ grantCall[k].op = "confirm"
      /\ Len(revision) < MaxRevisions
      /\ \E source \in SourceState : revision' = Append(Q,
           [device |-> d, number |-> Latest(d) + 1, status |-> "active", desired |-> "enabled", source |-> source])
      /\ consent' = [s \in 1..MaxRevisions |-> IF s = n THEN "active" ELSE IF consent[s] = "active" THEN "revoked" ELSE consent[s]]
      /\ past' = [past EXCEPT !.withdrawn = @ \cup gone, !.silent = FALSE, !.word = "enabled"]
  BY AwaitingIsBusy DEF ConfirmProfile, CallOf, Revisions
<1>2. d \in Device /\ MaxRevisions \in Nat
  BY <1>1, CallIsTyped, GrantsAssumption DEF GrantShape
<1>3. gone \subseteq DOMAIN revision /\ \A s \in DOMAIN revision : s \in gone <=> revision[s].device = d /\ revision[s].status = "active"
  OBVIOUS
<1>4. /\ Q \in Seq(RevisionRow) /\ Len(Q) = Len(revision) /\ DOMAIN Q = DOMAIN revision
      /\ \A s \in DOMAIN revision : /\ Q[s].device = revision[s].device /\ Q[s].number = revision[s].number
                                    /\ Q[s].status = IF s \in gone THEN "superseded" ELSE revision[s].status
  <2> HIDE DEF gone
  <2>1. \A s \in DOMAIN revision :
          /\ revision[s] \in RevisionRow /\ [revision[s] EXCEPT !.status = "superseded"] \in RevisionRow
          /\ [revision[s] EXCEPT !.status = "superseded"].status = "superseded"
          /\ [revision[s] EXCEPT !.status = "superseded"].device = revision[s].device
          /\ [revision[s] EXCEPT !.status = "superseded"].number = revision[s].number
    <3>1. \A row \in RevisionRow : LET w == [row EXCEPT !.status = "superseded"] IN
            w \in RevisionRow /\ w.status = "superseded" /\ w.device = row.device /\ w.number = row.number
      BY DEF RevisionRow
    <3>2. \A s \in DOMAIN revision : revision[s] \in RevisionRow
      BY CallIsTyped
    <3> QED
      BY <3>1, <3>2
  <2>2. Q \in [1..Len(revision) -> RevisionRow]
    BY <2>1, CallIsTyped
  <2>3. Q \in Seq(RevisionRow) /\ Len(Q) = Len(revision) /\ DOMAIN Q = DOMAIN revision
    BY <2>2, CallIsTyped
  <2>4. \A s \in DOMAIN revision : Q[s] = IF s \in gone THEN [revision[s] EXCEPT !.status = "superseded"] ELSE revision[s]
    OBVIOUS
  <2> HIDE DEF Q
  <2> QED
    BY <2>1, <2>3, <2>4
<1> HIDE DEF Q, gone
<1>5. Latest(d) \in Nat /\ Latest(d) <= Len(revision)
      /\ \A r \in DOMAIN revision : revision[r].device = d => revision[r].number <= Latest(d)
  BY LatestIsGreatest DEF GrantsInv
<1>6. PICK row \in RevisionRow : /\ revision' = Append(Q, row) /\ row.device = d /\ row.number = Latest(d) + 1
                                 /\ row.status = "active" /\ row.desired = "enabled"
  <2>1. Latest(d) + 1 \in 1..MaxRevisions
    BY <1>1, <1>2, <1>5, CallIsTyped
  <2> QED
    BY <1>1, <1>2, <2>1 DEF RevisionRow
<1>7. RevisionsInv(Q)
  BY <1>4, RowsAreRewritten DEF GrantsInv
<1>8. \A r \in DOMAIN revision : revision[r].number \in Nat /\ revision[r].status \in {"draft", "active", "superseded", "revoked"}
  BY RowsAreTyped DEF GrantsInv, RevisionsInv, RevisionRow
<1>9. RevisionsInv(revision')
  <2>1. \A r \in DOMAIN Q : Q[r].device = row.device => Q[r].number # row.number
    BY <1>4, <1>5, <1>6, <1>8
  <2>2. row.number <= Len(Q) + 1
    BY <1>4, <1>5, <1>6, CallIsTyped
  <2> QED
    BY <1>1, <1>4, <1>6, <1>7, <2>1, <2>2, RowIsAdded
<1>10. /\ Len(revision') = n /\ DOMAIN revision' = 1..n /\ revision'[n] = row /\ n \in DOMAIN revision' /\ n \notin DOMAIN revision
       /\ \A r \in DOMAIN revision : r \in DOMAIN revision' /\ revision'[r] = Q[r]
       /\ \A r \in DOMAIN revision' : r \in DOMAIN revision \/ r = n
  <2>1. Len(Q) \in Nat /\ DOMAIN Q = 1..Len(Q)
    BY <1>4, CallIsTyped
  <2>2. Len(revision') = Len(Q) + 1 /\ DOMAIN revision' = 1..Len(Q) + 1 /\ revision'[Len(Q) + 1] = row
        /\ \A r \in DOMAIN Q : revision'[r] = Q[r]
    BY <1>4, <1>6, <2>1
  <2> QED
    BY <1>4, <2>1, <2>2
<1>11. ConsentsInv(consent', past'.silent) /\ past' \in PastType /\ past'.met = past.met /\ past'.ended = past.ended
       /\ past'.withdrawn = past.withdrawn \cup gone /\ past'.word = "enabled"
  <2>1. past \in PastType /\ past.withdrawn \cup gone \in SUBSET (1..MaxRevisions)
    <3>1. past \in PastType /\ past.withdrawn \in SUBSET (1..MaxRevisions)
      BY CallIsTyped DEF PastType
    <3>2. DOMAIN revision \subseteq 1..MaxRevisions
      BY <1>2, CallIsTyped
    <3> QED
      BY <1>3, <3>1, <3>2
  <2>2. /\ past' \in PastType /\ past'.met = past.met /\ past'.ended = past.ended /\ past'.silent = FALSE
        /\ past'.withdrawn = past.withdrawn \cup gone /\ past'.word = "enabled"
    BY <1>1, <2>1 DEF PastType
  <2>3. ConsentsInv(consent', FALSE)
    <3>1. consent \in [1..MaxRevisions -> {"none", "active", "revoked"}]
      BY CallIsTyped DEF ConsentsInv
    <3>2. consent' \in [1..MaxRevisions -> {"none", "active", "revoked"}] /\ \A s \in 1..MaxRevisions : consent'[s] = "active" => s = n
      BY <1>1, <3>1
    <3> QED
      BY <3>2 DEF ConsentsInv
  <2> QED
    BY <2>2, <2>3
<1>12. ASSUME ~past.met PROVE Withdrawn(revision', past'.withdrawn) /\ PauseHolds(revision', past'.word)
  <2> HIDE DEF n, d
  <2>1. Withdrawn(revision, past.withdrawn)
    BY <1>12 DEF GrantsInv, Undisturbed
  <2>2. PauseHolds(revision', past'.word)
    BY <1>11 DEF PauseHolds
  <2>3. past'.withdrawn \subseteq DOMAIN revision'
    BY <1>3, <1>10, <1>11, <2>1 DEF Withdrawn
  <2>4. \A r \in past'.withdrawn : revision'[r].status \in {"superseded", "revoked"}
    BY <1>3, <1>4, <1>10, <1>11, <2>1, SMTT(60) DEF Withdrawn
  <2>5. ASSUME NEW r \in DOMAIN revision', revision'[r].status = "superseded"
        PROVE  \E s \in DOMAIN revision' : revision'[s].device = revision'[r].device /\ revision'[s].number > revision'[r].number
    <3>1. r \in DOMAIN revision /\ revision'[r] = Q[r]
      BY <1>6, <1>10, <2>5
    <3>2. CASE r \in gone
      <4>1. revision'[r].device = d /\ revision'[r].number <= Latest(d) /\ revision'[r].number \in Nat
        BY <1>3, <1>4, <1>5, <1>8, <3>1, <3>2
      <4>2. revision'[n].device = d /\ revision'[n].number > revision'[r].number
        BY <1>5, <1>6, <1>10, <4>1
      <4> QED
        BY <1>10, <4>1, <4>2
    <3>3. CASE r \notin gone
      <4>1. revision[r].status = "superseded"
        BY <1>4, <2>5, <3>1, <3>3
      <4>2. PICK s \in DOMAIN revision : revision[s].device = revision[r].device /\ revision[s].number > revision[r].number
        BY <2>1, <3>1, <4>1 DEF Withdrawn
      <4> QED
        BY <1>4, <1>10, <3>1, <4>2
    <3> QED
      BY <3>2, <3>3
  <2>6. ASSUME NEW r \in DOMAIN revision', NEW s \in DOMAIN revision', revision'[r].status = "active", revision'[s].status = "active",
               revision'[r].device = revision'[s].device
        PROVE  r = s
    <3>1. ASSUME NEW t \in DOMAIN revision, revision'[t].status = "active"
          PROVE  revision[t].status = "active" /\ revision'[t].device = revision[t].device /\ revision[t].device # d
      BY <1>3, <1>4, <1>10, <3>1
    <3>2. CASE r \in DOMAIN revision /\ s \in DOMAIN revision
      BY <2>1, <2>6, <3>1, <3>2 DEF Withdrawn
    <3>3. CASE r = n /\ s \in DOMAIN revision
      BY <1>6, <1>10, <2>6, <3>1, <3>3
    <3>4. CASE r \in DOMAIN revision /\ s = n
      BY <1>6, <1>10, <2>6, <3>1, <3>4
    <3> QED
      BY <1>10, <3>2, <3>3, <3>4
  <2> QED
    BY <2>2, <2>3, <2>4, <2>5, <2>6 DEF Withdrawn
<1>13. Len(revision) <= Len(revision')
  BY <1>10, CallIsTyped
<1> QED
  BY <1>1, <1>9, <1>11, <1>12, <1>13, GrantEndsWell, RevisionsChange

LEMMA GrantsStepInv == GrantsInv /\ [GrantsNext]_grantVars => GrantsInv'
<1> SUFFICES ASSUME GrantsInv, [GrantsNext]_grantVars PROVE GrantsInv'
  OBVIOUS
<1>1. CASE UNCHANGED grantVars
  BY <1>1 DEF grantVars, GrantsInv
<1>2. ASSUME NEW l \in DOMAIN leases, EndLease(l) \/ LeaseRunsOut(l) PROVE GrantsInv'
  BY <1>2, GrantsHost
<1>3. ASSUME NEW k \in GrantCall,
             \/ AskGrant(k) \/ ConfirmProfile(k) \/ DraftReads(k) \/ DraftInserts(k)
             \/ StateReads(k) \/ StateWrites(k) \/ StateRevokes(k) \/ SourceWrites(k) \/ SourceRevokes(k)
             \/ LeaseSupersedes(k) \/ LeaseInserts(k) \/ HeartbeatReads(k) \/ HeartbeatWrites(k)
      PROVE  GrantsInv'
  BY <1>3, GrantsAsk, GrantsConfirms, GrantsDraftReads, GrantsDraftInserts, GrantsStateReads, GrantsStateWrites, GrantsConsents,
     GrantsSourceWrites, GrantsLeaseSupersedes, GrantsLeaseInserts, GrantsHeartbeatReads, GrantsHeartbeatWrites
<1> QED
  BY <1>1, <1>2, <1>3 DEF GrantsNext

-----------------------------------------------------------------------------
(***************************************************************************)
(* The versions of a message are 1..n and all but the last are superseded; *)
(* when the last one is, too, an edit of it is under way or was cut off.   *)
(* An edit that is to insert has superseded what it read, and one that     *)
(* inserted is alone with its version, because of the unique index.        *)
(***************************************************************************)
VersionsAre(n) ==
  /\ n \in MessageVersion /\ written = 1..n /\ superseded \subseteq 1..n /\ 1..(n-1) \subseteq superseded
  /\ n \in superseded => apiDied \/ \E e \in Editor : EditAt(e, "insert") /\ edit[e].expected = n

EditIsFounded(e) ==
  /\ edit[e].pc # "idle" => edit[e].expected \in MessageVersion \ {MaxMessageVersion}
  /\ EditAt(e, "supersede") => edit[e].expected \in written
  /\ EditAt(e, "insert") => edit[e].expected \in superseded
  /\ edit[e].pc \in {"point", "ok"} => edit[e].expected + 1 \in written

Inserted(e) == edit[e].pc \in {"point", "ok"}
OneInserted == \A e, f \in Editor : Inserted(e) /\ Inserted(f) /\ edit[e].expected = edit[f].expected => e = f

EditsInv ==
  /\ EditsTypeOK /\ OneInserted /\ pointer \in written
  /\ \E n \in MessageVersion : VersionsAre(n)
  /\ \A e \in Editor : EditIsFounded(e)

LEMMA NewestIsLast == ASSUME NEW n \in Nat \ {0} PROVE NewestOf(1..n) = n
  BY DEF NewestOf

LEMMA EditsInvImplies == EditsInv => EditsInvariant
<1> SUFFICES ASSUME EditsInv PROVE EditsInvariant
  OBVIOUS
<1>1. OneEditPerVersion
  BY DEF EditsInv, OneInserted, Inserted, OneEditPerVersion, EditAt
<1>2. PICK n \in MessageVersion : VersionsAre(n)
  BY DEF EditsInv
<1>3. n \in Nat \ {0} /\ NewestOf(written) = n
  BY <1>2, NewestIsLast, EditsAssumption DEF VersionsAre, MessageVersion
<1>4. Standing = {} \/ Standing = {n}
  BY <1>2, <1>3 DEF VersionsAre, Standing
<1>5. Cardinality(Standing) <= 1
  <2>1. Cardinality({}) = 0 /\ Cardinality({n}) = 1
    BY FS_EmptySet, FS_Singleton, Zenon
  <2> QED
    BY <1>4, <2>1
<1>6. (~apiDied /\ \A e \in Editor : edit[e].pc \notin {"insert", "supersede"}) => Standing = {NewestOf(written)}
  BY <1>2, <1>3 DEF VersionsAre, Standing, EditAt
<1>7. \A v \in written : 1..v \subseteq written
  BY <1>2, <1>3 DEF VersionsAre
<1> QED
  BY <1>1, <1>5, <1>6, <1>7 DEF EditsInv, EditsInvariant, MessageHasCurrent

LEMMA EditsInitInv == EditsInit => EditsInv
<1> SUFFICES ASSUME EditsInit PROVE EditsInv
  OBVIOUS
<1>1. 1 \in MessageVersion /\ 0 \in 0..MaxMessageVersion
  BY EditsAssumption DEF MessageVersion
<1>2. EditsTypeOK
  BY <1>1 DEF EditsInit, EditsTypeOK, EditPc
<1>3. VersionsAre(1)
  BY <1>1 DEF EditsInit, VersionsAre
<1> QED
  BY <1>1, <1>2, <1>3 DEF EditsInit, EditsInv, OneInserted, Inserted, EditIsFounded, EditAt

\* One edit goes on, and what it is about stays.
LEMMA EditGoesOn ==
  ASSUME EditsInv, NEW e \in Editor, NEW pc \in EditPc, NEW v \in 0..MaxMessageVersion,
         edit' = [edit EXCEPT ![e] = [pc |-> pc, expected |-> v]]
  PROVE  /\ edit' \in [Editor -> [pc : EditPc, expected : 0..MaxMessageVersion]]
         /\ edit'[e].pc = pc /\ edit'[e].expected = v /\ \A f \in Editor : f # e => edit'[f] = edit[f]
BY DEF EditsInv, EditsTypeOK

\* ... as most steps do it.
LEMMA EditPasses ==
  ASSUME EditsInv, NEW e \in Editor, NEW pc \in EditPc, EditGoes(e, pc)
  PROVE  /\ edit' \in [Editor -> [pc : EditPc, expected : 0..MaxMessageVersion]]
         /\ edit'[e].pc = pc /\ edit'[e].expected = edit[e].expected /\ \A f \in Editor : f # e => edit'[f] = edit[f]
BY DEF EditsInv, EditsTypeOK, EditGoes

\* A step that leaves the rows of the versions alone and takes no edit out of their insert.
LEMMA EditsQuiet ==
  ASSUME EditsInv, UNCHANGED <<written, superseded, pointer>>, NEW e \in Editor,
         edit' \in [Editor -> [pc : EditPc, expected : 0..MaxMessageVersion]],
         \A f \in Editor : f # e => edit'[f] = edit[f], removed' \in BOOLEAN, apiDied' \in BOOLEAN,
         apiDied => apiDied', EditAt(e, "insert") => edit'[e] = edit[e] \/ apiDied',
         EditIsFounded(e)', Inserted(e)' => edit'[e] = edit[e]
  PROVE  EditsInv'
<1>1. PICK n \in MessageVersion : VersionsAre(n)
  BY DEF EditsInv
<1>2. VersionsAre(n)'
  BY <1>1 DEF VersionsAre, EditAt, MessageVersion
<1>3. \A f \in Editor : EditIsFounded(f)'
  BY DEF EditsInv, EditIsFounded, EditAt
<1>4. OneInserted'
  BY DEF EditsInv, OneInserted, Inserted
<1>5. EditsTypeOK' /\ (pointer \in written)'
  BY DEF EditsInv, EditsTypeOK
<1> QED
  BY <1>1, <1>2, <1>3, <1>4, <1>5 DEF EditsInv, MessageVersion

LEMMA EditsStepInv == EditsInv /\ [EditsNext]_editVars => EditsInv'
<1> SUFFICES ASSUME EditsInv, [EditsNext]_editVars PROVE EditsInv'
  OBVIOUS
<1>1. /\ removed \in BOOLEAN /\ apiDied \in BOOLEAN /\ edit \in [Editor -> [pc : EditPc, expected : 0..MaxMessageVersion]]
      /\ \A e \in Editor : EditIsFounded(e)
  BY DEF EditsInv, EditsTypeOK
<1>2. PICK n \in MessageVersion : VersionsAre(n)
  BY DEF EditsInv
<1>3. n \in Nat \ {0} /\ n <= MaxMessageVersion /\ MaxMessageVersion \in Nat
  BY <1>2, EditsAssumption DEF MessageVersion
<1>4. ASSUME NEW e \in Editor, BeginEdit(e) PROVE EditsInv'
  <2>1. PICK v \in MessageVersion \ {MaxMessageVersion} :
          edit' = [edit EXCEPT ![e] = [pc |-> IF removed THEN "conflict" ELSE "find", expected |-> v]]
    BY <1>4 DEF BeginEdit
  <2>2. v \in 0..MaxMessageVersion /\ (IF removed THEN "conflict" ELSE "find") \in EditPc
    BY <1>3 DEF MessageVersion, EditPc
  <2>3. /\ edit' \in [Editor -> [pc : EditPc, expected : 0..MaxMessageVersion]]
        /\ edit'[e].pc \in {"conflict", "find"} /\ edit'[e].expected = v /\ \A f \in Editor : f # e => edit'[f] = edit[f]
    BY <2>1, <2>2, EditGoesOn
  <2>4. EditIsFounded(e)' /\ ~Inserted(e)'
    BY <2>1, <2>3 DEF EditIsFounded, EditAt, Inserted, MessageVersion
  <2> QED
    BY <1>1, <1>4, <2>3, <2>4, EditsQuiet DEF BeginEdit, EditAt
<1>5. ASSUME NEW e \in Editor, FindCurrent(e) PROVE EditsInv'
  <2>1. PICK pc \in {"supersede", "conflict"} : EditGoes(e, pc) /\ (pc = "supersede" => edit[e].expected = n)
    <3>1. Standing # {} => NewestOf(Standing) = n
      BY <1>2, <1>3 DEF VersionsAre, Standing, NewestOf
    <3> QED
      BY <1>5, <3>1 DEF FindCurrent
  <2>2. pc \in EditPc
    BY DEF EditPc
  <2>3. /\ edit' \in [Editor -> [pc : EditPc, expected : 0..MaxMessageVersion]]
        /\ edit'[e].pc = pc /\ edit'[e].expected = edit[e].expected /\ \A f \in Editor : f # e => edit'[f] = edit[f]
    BY <2>1, <2>2, EditPasses
  <2>4. EditIsFounded(e)' /\ ~Inserted(e)'
    BY <1>1, <1>2, <1>3, <1>5, <2>1, <2>3 DEF EditIsFounded, EditAt, Inserted, FindCurrent, VersionsAre, MessageVersion
  <2> QED
    BY <1>1, <1>5, <2>3, <2>4, EditsQuiet DEF FindCurrent, EditAt
<1>6. ASSUME NEW e \in Editor, Supersede(e) PROVE EditsInv'
  <2>1. edit[e].pc = "supersede" /\ edit[e].expected \in written /\ edit[e].expected \in MessageVersion \ {MaxMessageVersion}
    BY <1>1, <1>6 DEF Supersede, EditAt, EditIsFounded
  <2>2. /\ edit' \in [Editor -> [pc : EditPc, expected : 0..MaxMessageVersion]]
        /\ edit'[e].pc = "insert" /\ edit'[e].expected = edit[e].expected /\ \A f \in Editor : f # e => edit'[f] = edit[f]
    <3>1. "insert" \in EditPc
      BY DEF EditPc
    <3> QED
      BY <1>6, <3>1, EditPasses DEF Supersede
  <2>3. VersionsAre(n)'
    BY <1>2, <1>3, <1>6, <2>1, <2>2 DEF VersionsAre, Supersede, EditAt, MessageVersion
  <2>4. \A f \in Editor : EditIsFounded(f)'
    BY <1>1, <1>6, <2>1, <2>2 DEF EditIsFounded, EditAt, Supersede, MessageVersion
  <2>5. OneInserted'
    BY <2>2 DEF EditsInv, OneInserted, Inserted
  <2>6. EditsTypeOK' /\ (pointer \in written)'
    BY <1>6, <2>1, <2>2 DEF EditsInv, EditsTypeOK, Supersede, MessageVersion
  <2> QED
    BY <2>3, <2>4, <2>5, <2>6 DEF EditsInv, MessageVersion
<1>7. ASSUME NEW e \in Editor, InsertVersion(e) PROVE EditsInv'
  <2>1. edit[e].pc = "insert" /\ edit[e].expected \in superseded /\ edit[e].expected \in MessageVersion \ {MaxMessageVersion}
        /\ edit[e].expected \in 1..n
    BY <1>1, <1>2, <1>7 DEF InsertVersion, EditAt, EditIsFounded, VersionsAre
  <2>2. CASE edit[e].expected + 1 \in written
    <3>1. EditGoes(e, "error") /\ "error" \in EditPc
      BY <1>7, <2>2 DEF InsertVersion, EditPc
    <3>2. /\ edit' \in [Editor -> [pc : EditPc, expected : 0..MaxMessageVersion]]
          /\ edit'[e].pc = "error" /\ edit'[e].expected = edit[e].expected /\ \A f \in Editor : f # e => edit'[f] = edit[f]
      BY <3>1, EditPasses
    <3>3. UNCHANGED <<written, superseded, pointer, removed, apiDied>>
      BY <1>7, <2>2 DEF InsertVersion
    <3>4. VersionsAre(n)'
      <4>1. edit[e].expected # n
        BY <1>2, <1>3, <2>2 DEF VersionsAre
      <4> QED
        BY <1>2, <3>2, <3>3, <4>1 DEF VersionsAre, EditAt, MessageVersion
    <3>5. \A f \in Editor : EditIsFounded(f)'
      BY <1>1, <2>1, <3>2, <3>3 DEF EditIsFounded, EditAt, MessageVersion
    <3>6. OneInserted'
      BY <3>2 DEF EditsInv, OneInserted, Inserted
    <3>7. EditsTypeOK' /\ (pointer \in written)'
      BY <3>2, <3>3 DEF EditsInv, EditsTypeOK, MessageVersion
    <3> QED
      BY <3>4, <3>5, <3>6, <3>7 DEF EditsInv, MessageVersion
  <2>3. CASE edit[e].expected + 1 \notin written
    <3>1. edit[e].expected = n /\ n + 1 \in MessageVersion
      BY <1>2, <1>3, <2>1, <2>3 DEF VersionsAre, MessageVersion
    <3>2. EditGoes(e, "point") /\ "point" \in EditPc /\ written' = written \cup {n + 1} /\ UNCHANGED <<superseded, pointer, removed, apiDied>>
      BY <1>7, <2>3, <3>1 DEF InsertVersion, EditPc
    <3>3. /\ edit' \in [Editor -> [pc : EditPc, expected : 0..MaxMessageVersion]]
          /\ edit'[e].pc = "point" /\ edit'[e].expected = n /\ \A f \in Editor : f # e => edit'[f] = edit[f]
      BY <3>1, <3>2, EditPasses
    <3>4. VersionsAre(n + 1)'
      <4>1. written' = 1..(n + 1)
        BY <1>2, <1>3, <3>2 DEF VersionsAre
      <4>2. superseded' = superseded /\ superseded \subseteq 1..n /\ n \in superseded
        BY <1>2, <2>1, <3>1, <3>2 DEF VersionsAre
      <4>3. superseded' \subseteq 1..(n + 1) /\ 1..((n + 1) - 1) \subseteq superseded' /\ n + 1 \notin superseded'
        BY <1>2, <1>3, <4>2 DEF VersionsAre
      <4> QED
        BY <3>1, <4>1, <4>3 DEF VersionsAre, MessageVersion
    <3>5. \A f \in Editor : EditIsFounded(f)'
      BY <1>1, <2>1, <3>1, <3>2, <3>3 DEF EditIsFounded, EditAt, MessageVersion
    <3>6. OneInserted'
      <4>1. \A f \in Editor : Inserted(f) => edit[f].expected # n
        BY <1>1, <2>3, <3>1 DEF EditIsFounded, Inserted
      <4> QED
        BY <3>3, <4>1 DEF EditsInv, OneInserted, Inserted
    <3>7. EditsTypeOK' /\ (pointer \in written)'
      BY <3>1, <3>2, <3>3 DEF EditsInv, EditsTypeOK, MessageVersion
    <3> QED
      BY <3>1, <3>4, <3>5, <3>6, <3>7 DEF EditsInv, MessageVersion
  <2> QED
    BY <2>2, <2>3
<1>8. ASSUME NEW e \in Editor, Point(e) PROVE EditsInv'
  <2>1. edit[e].pc = "point" /\ edit[e].expected + 1 \in written
    BY <1>1, <1>8 DEF Point, EditAt, EditIsFounded
  <2>2. /\ edit' \in [Editor -> [pc : EditPc, expected : 0..MaxMessageVersion]]
        /\ edit'[e].pc = "ok" /\ edit'[e].expected = edit[e].expected /\ \A f \in Editor : f # e => edit'[f] = edit[f]
    <3>1. "ok" \in EditPc
      BY DEF EditPc
    <3> QED
      BY <1>8, <3>1, EditPasses DEF Point
  <2>3. VersionsAre(n)'
    BY <1>2, <1>8, <2>1, <2>2 DEF VersionsAre, Point, EditAt, MessageVersion
  <2>4. \A f \in Editor : EditIsFounded(f)'
    BY <1>1, <1>8, <2>1, <2>2 DEF EditIsFounded, EditAt, Point, MessageVersion
  <2>5. OneInserted'
    BY <2>1, <2>2 DEF EditsInv, OneInserted, Inserted
  <2>6. EditsTypeOK' /\ (pointer \in written)'
    BY <1>8, <2>1, <2>2 DEF EditsInv, EditsTypeOK, Point, MessageVersion
  <2> QED
    BY <2>3, <2>4, <2>5, <2>6 DEF EditsInv, MessageVersion
<1>9. ASSUME NEW e \in Editor, EditingStops(e) PROVE EditsInv'
  <2>1. /\ edit' \in [Editor -> [pc : EditPc, expected : 0..MaxMessageVersion]]
        /\ edit'[e].pc = "dead" /\ edit'[e].expected = edit[e].expected /\ \A f \in Editor : f # e => edit'[f] = edit[f]
    <3>1. "dead" \in EditPc
      BY DEF EditPc
    <3> QED
      BY <1>9, <3>1, EditPasses DEF EditingStops
  <2>2. EditIsFounded(e)' /\ ~Inserted(e)'
    BY <1>1, <1>9, <2>1 DEF EditIsFounded, EditAt, Inserted, EditingStops, MessageVersion
  <2> QED
    BY <1>1, <1>9, <2>1, <2>2, EditsQuiet DEF EditingStops
<1>10. CASE removed' \in BOOLEAN /\ UNCHANGED <<written, superseded, pointer, edit, apiDied>>
  <2>1. VersionsAre(n)'
    BY <1>2, <1>10 DEF VersionsAre, EditAt, MessageVersion
  <2>2. \A f \in Editor : EditIsFounded(f)'
    BY <1>1, <1>10 DEF EditIsFounded, EditAt, MessageVersion
  <2> QED
    BY <1>10, <2>1, <2>2 DEF EditsInv, EditsTypeOK, OneInserted, Inserted, MessageVersion
<1> QED
  BY <1>1, <1>4, <1>5, <1>6, <1>7, <1>8, <1>9, <1>10 DEF EditsNext, SoftDelete, RestoreMessage, editVars

-----------------------------------------------------------------------------
(***************************************************************************)
(* The tree of branches.  A walk has read the branches of the sessions of  *)
(* some set: the session it started from, and every session below one of   *)
(* these along a branch that stayed, is of the set or still to be read.    *)
(***************************************************************************)
BranchStays(b, S) ==
  branches[b].parent \in S =>
    b \in walk.found /\ (branches[b].child \in S \/ \E i \in DOMAIN walk.todo : walk.todo[i] = branches[b].child)

HasRead(S) ==
  /\ walk.pc # "none" => Root \in S \/ \E i \in DOMAIN walk.todo : walk.todo[i] = Root
  /\ \A b \in walk.stayed : BranchStays(b, S)

TreeInv ==
  /\ walk.stayed \subseteq KeptBranches
  /\ walk.pc = "none" => walk.todo = <<>> /\ walk.queries = 0
  /\ walk.pc = "done" => walk.todo = <<>>
  /\ \E S \in SUBSET Talk : HasRead(S)

(***************************************************************************)
(* Without a circle each query is for a path of its own: for a set of      *)
(* branches that lead from the root to its session.  V are the paths that  *)
(* were followed, p those of the sessions still to be read, e says where a *)
(* path ends.  A path is followed once those it extends are; it extends    *)
(* one by a branch of the session the other ends at; and none that is      *)
(* still to be followed is a part of another.                              *)
(***************************************************************************)
Circle == \E b \in DOMAIN branches : branches[b].parent \in Reached(branches[b].child, DOMAIN branches)

Pending(p) == {p[i] : i \in DOMAIN walk.todo}

LeadsOn(V, e, Q) ==
  \A b \in Q :
    /\ b \in DOMAIN branches
    /\ \E O \in V : O \subseteq Q /\ b \notin O /\ e[O] = branches[b].parent
    /\ e[Q] \in Reached(branches[b].child, DOMAIN branches)

Extends(V, e, Q) == \A O \in V : O \subseteq Q /\ O # Q => \E b \in Q \ O : branches[b].parent = e[O]

Apart(p, V, Q) == \A i \in DOMAIN walk.todo : p[i] # Q => ~(p[i] \subseteq Q)

PathsAre(V, e, p) ==
  /\ Cardinality(V) = walk.queries
  /\ \A i \in DOMAIN walk.todo : p[i] \notin V /\ e[p[i]] = walk.todo[i]
  /\ \A i, j \in DOMAIN walk.todo : p[i] = p[j] => i = j
  /\ \A Q \in V \cup Pending(p) : LeadsOn(V, e, Q) /\ Extends(V, e, Q) /\ Apart(p, V, Q)

PathsInv ==
  \/ Circle
  \/ \E V \in SUBSET (SUBSET Branch), e \in [SUBSET Branch -> Talk], p \in [DOMAIN walk.todo -> SUBSET Branch] : PathsAre(V, e, p)

BranchesInv == BranchesTypeOK /\ TreeInv /\ PathsInv

\* A session is reached from itself, and from where a branch's parent is, so is its child.
LEMMA ReachesItself ==
  ASSUME NEW s \in Talk, NEW via PROVE s \in Reached(s, via)
  BY DEF Reached

LEMMA ReachesOn ==
  ASSUME NEW s, NEW via, NEW b \in via, branches[b].parent \in Reached(s, via), branches[b].child \in Talk
  PROVE  branches[b].child \in Reached(s, via)
  BY DEF Reached

LEMMA BranchTyped ==
  ASSUME BranchesTypeOK, NEW b \in DOMAIN branches
  PROVE  /\ b \in Branch /\ b \in 1..Len(branches) /\ branches[b] \in BranchRow
         /\ branches[b].parent \in Talk /\ branches[b].child \in Talk
<1>1. branches \in Seq(BranchRow) /\ Len(branches) \in Nat /\ Len(branches) <= MaxBranches
  BY DEF BranchesTypeOK
<1>2. DOMAIN branches = 1..Len(branches)
  BY <1>1
<1>3. b \in 1..Len(branches) /\ b \in Branch
  BY <1>1, <1>2, BranchesAssumption DEF Branch
<1>4. branches[b] \in BranchRow
  BY <1>1, <1>3
<1> QED
  BY <1>3, <1>4 DEF BranchRow

\* What was in the tree all along was found: what was read holds all that is reached.
LEMMA TreeInvImplies == BranchesTypeOK /\ TreeInv => TreeIsComplete
<1> SUFFICES ASSUME BranchesTypeOK, TreeInv, walk.pc = "done", NEW b \in walk.stayed,
                    branches[b].parent \in Reached(Root, walk.stayed)
             PROVE  b \in walk.found
  BY DEF TreeIsComplete
<1>1. PICK S \in SUBSET Talk : HasRead(S)
  BY DEF TreeInv
<1>2. walk.todo = <<>> /\ DOMAIN walk.todo = {}
  BY DEF TreeInv
<1>3. Root \in S /\ \A c \in walk.stayed : branches[c].parent \in S => branches[c].child \in S
  BY <1>1, <1>2 DEF HasRead, BranchStays
<1>4. branches[b].parent \in S
  BY <1>3 DEF Reached
<1> QED
  BY <1>1, <1>4 DEF HasRead, BranchStays

\* There are as many paths as sets of branches at most.
LEMMA PathsInvImplies == BranchesTypeOK /\ PathsInv => OnlyACircleGoesOn
<1> SUFFICES ASSUME BranchesTypeOK, PathsInv, walk.queries > 2 ^ MaxBranches PROVE Circle
  BY DEF OnlyACircleGoesOn, Circle
<1>1. SUFFICES ASSUME NEW V \in SUBSET (SUBSET Branch), NEW e \in [SUBSET Branch -> Talk],
                      NEW p \in [DOMAIN walk.todo -> SUBSET Branch], PathsAre(V, e, p)
               PROVE  FALSE
  BY DEF PathsInv
<1>2. IsFiniteSet(Branch) /\ Cardinality(Branch) = MaxBranches
  <2>1. IsFiniteSet(1..MaxBranches) /\ Cardinality(1..MaxBranches) = IF 1 > MaxBranches THEN 0 ELSE MaxBranches - 1 + 1
    BY FS_Interval, BranchesAssumption
  <2> QED
    BY <2>1, BranchesAssumption DEF Branch
<1>3. IsFiniteSet(SUBSET Branch) /\ Cardinality(SUBSET Branch) = 2 ^ MaxBranches
  BY <1>2, FS_SUBSET
<1>4. Cardinality(V) <= Cardinality(SUBSET Branch)
  BY <1>3, FS_Subset
<1>5. Cardinality(V) \in Nat /\ Cardinality(SUBSET Branch) \in Nat
  BY <1>3, FS_Subset, FS_CardinalityType
<1>6. Cardinality(V) = walk.queries
  BY <1>1 DEF PathsAre
<1> QED
  BY <1>3, <1>4, <1>5, <1>6

-----------------------------------------------------------------------------
\* One sequence after another.
LEMMA OneAfterAnother ==
  ASSUME NEW S, NEW a \in Seq(S), NEW b \in Seq(S)
  PROVE  /\ a \o b \in Seq(S) /\ Len(a \o b) = Len(a) + Len(b) /\ DOMAIN (a \o b) = 1..(Len(a) + Len(b))
         /\ \A i \in 1..Len(a) : (a \o b)[i] = a[i]
         /\ \A i \in (Len(a) + 1)..(Len(a) + Len(b)) : (a \o b)[i] = b[i - Len(a)]
  OBVIOUS

\* The branches of a session are finitely many, each of a kept branch.
LEMMA DirectTyped ==
  ASSUME BranchesTypeOK, NEW s
  PROVE  /\ DirectBranches(s) \subseteq KeptBranches /\ KeptBranches \subseteq DOMAIN branches
         /\ DirectBranches(s) \subseteq Branch /\ Cardinality(DirectBranches(s)) \in Nat
<1>1. DirectBranches(s) \subseteq KeptBranches /\ KeptBranches \subseteq DOMAIN branches
  BY DEF DirectBranches, KeptBranches
<1>2. Len(branches) \in Nat /\ DOMAIN branches = 1..Len(branches)
  BY DEF BranchesTypeOK
<1>3. IsFiniteSet(1..Len(branches))
  BY <1>2, FS_Interval
<1>4. Cardinality(DirectBranches(s)) \in Nat
  BY <1>1, <1>2, <1>3, FS_Subset, FS_CardinalityType, SMTT(60)
<1> QED
  BY <1>1, <1>4, BranchTyped

(***************************************************************************)
(* The sessions that are to be read after a query: the children of the     *)
(* branches it found, then those that were to be read before.              *)
(***************************************************************************)
IsToRead(todo, list, n) ==
  /\ todo \in Seq(Talk) /\ DOMAIN todo = 1..(n + Len(walk.todo) - 1)
  /\ 1 \in DOMAIN walk.todo /\ walk.todo[1] = Head(walk.todo) /\ Head(walk.todo) \in Talk
  /\ \A i \in DOMAIN list : i \in DOMAIN todo /\ todo[i] = branches[list[i]].child
  /\ \A j \in DOMAIN walk.todo \ {1} : j + n - 1 \in DOMAIN todo /\ todo[j + n - 1] = walk.todo[j]
  /\ \A i \in DOMAIN todo :
       \/ i \in DOMAIN list
       \/ i - n + 1 \in DOMAIN walk.todo \ {1} /\ todo[i] = walk.todo[i - n + 1]

LEMMA ToReadNext ==
  ASSUME BranchesTypeOK, walk.todo # <<>>, NEW direct \in SUBSET DOMAIN branches, Cardinality(direct) \in Nat,
         NEW list \in [1..Cardinality(direct) -> direct], NEW todo,
         todo = [i \in DOMAIN list |-> branches[list[i]].child] \o Tail(walk.todo)
  PROVE  IsToRead(todo, list, Cardinality(direct))
<1> DEFINE n == Cardinality(direct)
           kids == [i \in DOMAIN list |-> branches[list[i]].child]
<1>1. walk.todo \in Seq(Talk) /\ Len(walk.todo) \in Nat /\ Len(walk.todo) >= 1
  BY DEF BranchesTypeOK
<1>2. DOMAIN list = 1..n /\ \A i \in 1..n : branches[list[i]].child \in Talk
  BY BranchTyped
<1>3. kids \in Seq(Talk) /\ Len(kids) = n /\ DOMAIN kids = 1..n
  <2>1. kids \in [1..n -> Talk]
    BY <1>2
  <2> QED
    BY <2>1, SMTT(60)
<1>4. Tail(walk.todo) \in Seq(Talk) /\ Len(Tail(walk.todo)) = Len(walk.todo) - 1
  BY <1>1
<1>5. \A j \in 1..(Len(walk.todo) - 1) : Tail(walk.todo)[j] = walk.todo[j + 1]
  BY <1>1
<1>6. 1 \in DOMAIN walk.todo /\ walk.todo[1] = Head(walk.todo) /\ Head(walk.todo) \in Talk /\ DOMAIN walk.todo = 1..Len(walk.todo)
  BY <1>1
<1>7. \A i \in 1..n : kids[i] = branches[list[i]].child
  BY <1>2
<1> HIDE DEF kids
<1>8. todo = kids \o Tail(walk.todo)
  BY DEF kids
<1>13. n \in Nat
  OBVIOUS
<1> HIDE DEF n
<1>9. todo \in Seq(Talk) /\ Len(todo) = n + Len(walk.todo) - 1 /\ DOMAIN todo = 1..(n + Len(walk.todo) - 1)
  <2>1. todo \in Seq(Talk)
    BY <1>3, <1>4, <1>8, OneAfterAnother, ZenonT(60)
  <2>2. Len(todo) = n + (Len(walk.todo) - 1)
    BY <1>3, <1>4, <1>8, OneAfterAnother
  <2> QED
    BY <1>1, <1>13, <2>1, <2>2
<1>10. \A i \in 1..n : todo[i] = kids[i]
  BY <1>3, <1>4, <1>8, OneAfterAnother, SMTT(60)
<1>11. \A i \in (n + 1)..(n + Len(walk.todo) - 1) : todo[i] = Tail(walk.todo)[i - n]
  <2> DEFINE rest == Tail(walk.todo)
  <2> HIDE DEF rest
  <2>1. rest \in Seq(Talk) /\ todo = kids \o rest /\ Len(rest) = Len(walk.todo) - 1
    BY <1>4, <1>8 DEF rest
  <2>2. \A i \in (Len(kids) + 1)..(Len(kids) + Len(rest)) : todo[i] = rest[i - Len(kids)]
    <3>1. \A i \in (Len(kids) + 1)..(Len(kids) + Len(rest)) : (kids \o rest)[i] = rest[i - Len(kids)]
      BY <1>3, <2>1, OneAfterAnother
    <3> QED
      BY <2>1, <3>1, Zenon
  <2>3. \A i \in (n + 1)..(n + Len(walk.todo) - 1) : i \in (n + 1)..(n + Len(rest))
    BY <1>1, <1>13, <2>1
  <2> QED
    BY <1>3, <2>2, <2>3, Zenon DEF rest
<1>12. \A i \in (n + 1)..(n + Len(walk.todo) - 1) : todo[i] = walk.todo[i - n + 1]
  <2> TAKE i \in (n + 1)..(n + Len(walk.todo) - 1)
  <2>1. i - n \in 1..(Len(walk.todo) - 1)
    BY <1>1, <1>13
  <2>2. Tail(walk.todo)[i - n] = walk.todo[(i - n) + 1]
    BY <1>5, <2>1, Zenon
  <2> QED
    BY <1>11, <2>2, Zenon
<1>14. \A i \in DOMAIN list : i \in DOMAIN todo /\ todo[i] = branches[list[i]].child
  BY <1>1, <1>2, <1>7, <1>9, <1>10, <1>13
<1>15. \A j \in DOMAIN walk.todo \ {1} : j + n - 1 \in DOMAIN todo /\ todo[j + n - 1] = walk.todo[j]
  <2> TAKE j \in DOMAIN walk.todo \ {1}
  <2>1. j \in 2..Len(walk.todo)
    BY <1>1, <1>6
  <2>2. j + n - 1 \in (n + 1)..(n + Len(walk.todo) - 1) /\ (j + n - 1) - n + 1 = j
    BY <1>1, <1>13, <2>1, SMTT(60)
  <2>3. j + n - 1 \in DOMAIN todo
    BY <1>1, <1>9, <1>13, <2>1, SMTT(60)
  <2> QED
    BY <1>12, <2>2, <2>3
<1>16. \A i \in DOMAIN todo :
         i \in DOMAIN list \/ (i - n + 1 \in DOMAIN walk.todo \ {1} /\ todo[i] = walk.todo[i - n + 1])
  <2> TAKE i \in DOMAIN todo
  <2>1. i \in 1..(n + Len(walk.todo) - 1)
    BY <1>9
  <2>2. i \in 1..n \/ i \in (n + 1)..(n + Len(walk.todo) - 1)
    BY <1>1, <1>13, <2>1
  <2>3. i \in (n + 1)..(n + Len(walk.todo) - 1) => i - n + 1 \in DOMAIN walk.todo \ {1}
    BY <1>1, <1>6, <1>13, SMTT(60)
  <2> QED
    BY <1>2, <1>12, <2>2, <2>3
<1> QED
  BY <1>6, <1>9, <1>14, <1>15, <1>16 DEF n, IsToRead

(***************************************************************************)
(* The paths of a query extend the one it follows, P, by one branch each.  *)
(* Without a circle none of these branches is on P; and no other path ends *)
(* where P does and is a part of one of them.                              *)
(***************************************************************************)
LEMMA NothingTurnsBack ==
  ASSUME BranchesTypeOK, ~Circle, NEW V, NEW e, NEW P, NEW direct \in SUBSET DOMAIN branches,
         LeadsOn(V, e, P), Extends(V, e, P), P \notin V, \A b \in direct : branches[b].parent = e[P]
  PROVE  /\ \A b \in direct : b \notin P
         /\ \A O \in V : O \subseteq P => e[O] # e[P]
<1>1. ASSUME NEW b \in P, branches[b].parent = e[P] PROVE FALSE
  BY <1>1 DEF LeadsOn, Circle
<1>2. ASSUME NEW O \in V, O \subseteq P, e[O] = e[P] PROVE FALSE
  <2>1. O # P
    OBVIOUS
  <2>2. PICK b \in P \ O : branches[b].parent = e[O]
    BY <1>2, <2>1 DEF Extends
  <2> QED
    BY <1>1, <1>2, <2>2
<1> QED
  BY <1>1, <1>2

NewPathsAre(V, e, p, direct) ==
  /\ \A b \in direct : b \notin p[1]
  /\ \A b \in direct, O \in V : O \subseteq p[1] \cup {b} => b \notin O /\ O \subseteq p[1] /\ O # p[1]
  /\ \A b \in direct, i \in DOMAIN walk.todo : p[i] \subseteq p[1] \cup {b} => i = 1
  /\ \A b \in direct, Q \in V \cup Pending(p) : ~(p[1] \cup {b} \subseteq Q)
  /\ p[1] \notin V /\ e[p[1]] = walk.todo[1]

LEMMA NewPaths ==
  ASSUME BranchesTypeOK, ~Circle, NEW V, NEW e, NEW p, 1 \in DOMAIN walk.todo, PathsAre(V, e, p),
         NEW direct \in SUBSET DOMAIN branches, \A b \in direct : branches[b].parent = walk.todo[1]
  PROVE  NewPathsAre(V, e, p, direct)
<1> DEFINE P == p[1]
<1>1. P \notin V /\ e[P] = walk.todo[1] /\ P \in Pending(p)
  BY DEF PathsAre, Pending
<1>2. \A Q \in V \cup Pending(p) : LeadsOn(V, e, Q) /\ Extends(V, e, Q) /\ Apart(p, V, Q)
  BY DEF PathsAre
<1>3. \A i, j \in DOMAIN walk.todo : p[i] = p[j] => i = j
  BY DEF PathsAre
<1>4. \A i \in DOMAIN walk.todo : p[i] \in Pending(p)
  BY DEF Pending
<1> HIDE DEF P
<1>5. (\A b \in direct : b \notin P) /\ (\A O \in V : O \subseteq P => e[O] # e[P])
  BY <1>1, <1>2, NothingTurnsBack
<1>6. ASSUME NEW b \in direct, NEW Q \in V \cup Pending(p), Q \subseteq P \cup {b}, b \in Q PROVE FALSE
  <2>1. PICK O \in V : O \subseteq Q /\ b \notin O /\ e[O] = branches[b].parent
    BY <1>2, <1>6 DEF LeadsOn
  <2>2. O \subseteq P
    BY <1>6, <2>1
  <2> QED
    BY <1>1, <1>5, <2>1, <2>2
<1>7. ASSUME NEW b \in direct, NEW O \in V, O \subseteq P \cup {b} PROVE b \notin O /\ O \subseteq P /\ O # P
  BY <1>1, <1>6, <1>7
<1>8. ASSUME NEW b \in direct, NEW i \in DOMAIN walk.todo, p[i] \subseteq P \cup {b} PROVE i = 1
  <2>1. p[i] \subseteq P
    BY <1>4, <1>6, <1>8
  <2>2. p[i] = P
    BY <1>1, <1>2, <2>1 DEF Apart
  <2> QED
    BY <1>3, <2>2 DEF P
<1>9. ASSUME NEW b \in direct, NEW Q \in V \cup Pending(p), P \cup {b} \subseteq Q PROVE FALSE
  <2>1. P # Q
    BY <1>5, <1>9
  <2>2. ~(P \subseteq Q)
    BY <1>2, <2>1 DEF Apart, P
  <2> QED
    BY <1>9, <2>2
<1> QED
  BY <1>1, <1>5, <1>7, <1>8, <1>9 DEF P, NewPathsAre

\* A query follows one path and leaves to follow those that extend it.
LEMMA QueryPaths ==
  ASSUME BranchesTypeOK, PathsInv, Query PROVE PathsInv'
<1>1. CASE Circle
  BY <1>1 DEF PathsInv, Circle, Query, Reached
<1>2. CASE ~Circle
  <2> DEFINE direct == DirectBranches(Head(walk.todo))
             n == Cardinality(direct)
  <2>1. walk.todo # <<>> /\ branches' = branches /\ walk.queries \in Nat
    BY DEF Query, BranchesTypeOK
  <2>2. direct \in SUBSET DOMAIN branches /\ direct \subseteq Branch /\ n \in Nat
    BY DirectTyped, SMTT(60)
  <2>3. PICK list \in [1..n -> direct] :
          /\ IsListing(list, direct)
          /\ walk' = [walk EXCEPT !.todo = [i \in DOMAIN list |-> branches[list[i]].child] \o Tail(@),
                                  !.found = @ \cup direct, !.queries = @ + 1]
    BY ZenonT(60) DEF Query
  <2>4. walk'.todo = [i \in DOMAIN list |-> branches[list[i]].child] \o Tail(walk.todo) /\ walk'.queries = walk.queries + 1
    BY <2>3 DEF BranchesTypeOK
  <2>5. \A b \in direct : branches[b].parent = Head(walk.todo) /\ branches[b].child \in Talk
    BY <2>2, BranchTyped DEF DirectBranches
  <2>6. (\A b \in direct : \E i \in DOMAIN list : list[i] = b) /\ (\A i, j \in DOMAIN list : i < j => list[i] < list[j])
    BY <2>3 DEF IsListing
  <2>7. DOMAIN list = 1..n /\ \A i \in DOMAIN list : list[i] \in direct
    OBVIOUS
  <2>8. \A i, j \in DOMAIN list : list[i] = list[j] => i = j
    <3> TAKE i, j \in DOMAIN list
    <3>1. list[i] \in Nat /\ list[j] \in Nat /\ i \in Nat /\ j \in Nat
      BY <2>2, <2>7 DEF Branch
    <3> QED
      BY <2>6, <3>1
  <2> HIDE DEF direct
  <2> HIDE DEF n
  <2>9. PICK V \in SUBSET (SUBSET Branch), e \in [SUBSET Branch -> Talk], p \in [DOMAIN walk.todo -> SUBSET Branch] : PathsAre(V, e, p)
    BY <1>2 DEF PathsInv
  <2>10. /\ walk'.todo \in Seq(Talk) /\ DOMAIN walk'.todo = 1..(n + Len(walk.todo) - 1)
         /\ 1 \in DOMAIN walk.todo /\ walk.todo[1] = Head(walk.todo)
         /\ \A i \in DOMAIN list : i \in DOMAIN walk'.todo /\ walk'.todo[i] = branches[list[i]].child
         /\ \A i \in DOMAIN walk'.todo :
              \/ i \in DOMAIN list
              \/ i - n + 1 \in DOMAIN walk.todo \ {1} /\ walk'.todo[i] = walk.todo[i - n + 1]
    <3>1. /\ Cardinality(direct) \in Nat /\ list \in [1..Cardinality(direct) -> direct]
      BY <2>2 DEF n
    <3>2. IsToRead(walk'.todo, list, Cardinality(direct))
      BY <2>1, <2>2, <2>4, <3>1, ToReadNext, Zenon
    <3> QED
      BY <3>2 DEF n, IsToRead
  <2> DEFINE P == p[1]
  <2>11. /\ \A b \in direct : b \notin P
         /\ \A b \in direct, O \in V : O \subseteq P \cup {b} => b \notin O /\ O \subseteq P /\ O # P
         /\ \A b \in direct, i \in DOMAIN walk.todo : p[i] \subseteq P \cup {b} => i = 1
         /\ \A b \in direct, Q \in V \cup Pending(p) : ~(P \cup {b} \subseteq Q)
         /\ P \notin V /\ e[P] = walk.todo[1]
    <3>1. \A b \in direct : branches[b].parent = walk.todo[1]
      BY <2>5, <2>10
    <3>2. NewPathsAre(V, e, p, direct)
      BY <1>2, <2>2, <2>9, <2>10, <3>1, NewPaths, Zenon
    <3> QED
      BY <3>2 DEF NewPathsAre
  <2> DEFINE N == {P \cup {b} : b \in direct}
             V2 == V \cup {P}
             e2 == [Q \in SUBSET Branch |-> IF Q \in N THEN branches[CHOOSE b \in direct : Q = P \cup {b}].child ELSE e[Q]]
             p2 == [i \in DOMAIN walk'.todo |-> IF i \in DOMAIN list THEN P \cup {list[i]} ELSE p[i - n + 1]]
  <2>12. P \in SUBSET Branch /\ P \in Pending(p) /\ N \subseteq SUBSET Branch
    BY <2>2, <2>10 DEF Pending
  <2>13. V2 \in SUBSET (SUBSET Branch) /\ e2 \in [SUBSET Branch -> Talk] /\ p2 \in [DOMAIN walk'.todo -> SUBSET Branch]
    <3>1. \A Q \in N : branches[CHOOSE b \in direct : Q = P \cup {b}].child \in Talk
      BY <2>5
    <3>2. e2 \in [SUBSET Branch -> Talk]
      BY <3>1
    <3>3. \A i \in DOMAIN list : P \cup {list[i]} \in SUBSET Branch
      BY <2>2, <2>7, <2>12
    <3>4. \A i \in DOMAIN walk'.todo : i \notin DOMAIN list => p[i - n + 1] \in SUBSET Branch
      BY <2>10
    <3>5. p2 \in [DOMAIN walk'.todo -> SUBSET Branch]
      BY <3>3, <3>4
    <3> QED
      BY <2>12, <3>2, <3>5
  <2>14. \A b \in direct : P \cup {b} \in N /\ e2[P \cup {b}] = branches[b].child
    <3> TAKE b \in direct
    <3>1. P \cup {b} \in N /\ P \cup {b} \in SUBSET Branch
      <4>1. P \cup {b} \in N
        OBVIOUS
      <4> HIDE DEF N
      <4> QED
        BY <2>12, <4>1
    <3>2. (CHOOSE c \in direct : P \cup {b} = P \cup {c}) = b
      BY <2>11
    <3> QED
      BY <3>1, <3>2, Zenon
  <2>15. \A Q \in V \cup Pending(p) : Q \in SUBSET Branch /\ Q \notin N /\ e2[Q] = e[Q]
    <3> TAKE Q \in V \cup Pending(p)
    <3>1. Q \in SUBSET Branch
      BY DEF Pending
    <3>2. Q \notin N
      BY <2>11
    <3> QED
      BY <3>1, <3>2
  <2>16. \A i \in DOMAIN list : i \in DOMAIN walk'.todo /\ p2[i] = P \cup {list[i]} /\ p2[i] \in N
    BY <2>7, <2>10
  <2>17. \A i \in DOMAIN walk'.todo :
           \/ i \in DOMAIN list
           \/ i - n + 1 \in DOMAIN walk.todo \ {1} /\ p2[i] = p[i - n + 1] /\ i \notin DOMAIN list
    BY <2>10
  <2>32. PICK W \in SUBSET (SUBSET Branch), f \in [SUBSET Branch -> Talk], q \in [DOMAIN walk'.todo -> SUBSET Branch] :
           /\ W = V \cup {P}
           /\ \A b \in direct : P \cup {b} \in N /\ f[P \cup {b}] = branches[b].child
           /\ \A Q \in V \cup Pending(p) : Q \in SUBSET Branch /\ Q \notin N /\ f[Q] = e[Q]
           /\ \A i \in DOMAIN list : i \in DOMAIN walk'.todo /\ q[i] = P \cup {list[i]} /\ q[i] \in N
           /\ \A i \in DOMAIN walk'.todo :
                \/ i \in DOMAIN list
                \/ i - n + 1 \in DOMAIN walk.todo \ {1} /\ q[i] = p[i - n + 1] /\ i \notin DOMAIN list
    <3> DEFINE Fits(W, f, q) ==
           /\ W = V \cup {P}
           /\ \A b \in direct : P \cup {b} \in N /\ f[P \cup {b}] = branches[b].child
           /\ \A Q \in V \cup Pending(p) : Q \in SUBSET Branch /\ Q \notin N /\ f[Q] = e[Q]
           /\ \A i \in DOMAIN list : i \in DOMAIN walk'.todo /\ q[i] = P \cup {list[i]} /\ q[i] \in N
           /\ \A i \in DOMAIN walk'.todo :
                \/ i \in DOMAIN list
                \/ i - n + 1 \in DOMAIN walk.todo \ {1} /\ q[i] = p[i - n + 1] /\ i \notin DOMAIN list
    <3>1. V2 = V \cup {P}
      OBVIOUS
    <3> HIDE DEF N, e2, p2, V2, P
    <3>2. Fits(V2, e2, p2)
      BY <2>14, <2>15, <2>16, <2>17, <3>1, Zenon
    <3> HIDE DEF Fits
    <3>3. \E W \in SUBSET (SUBSET Branch), f \in [SUBSET Branch -> Talk], q \in [DOMAIN walk'.todo -> SUBSET Branch] : Fits(W, f, q)
      BY <2>13, <3>2, Zenon
    <3> QED
      BY <3>3, Zenon DEF Fits
  <2>33. W = V \cup {P}
    BY <2>32
  <2>18. \A i \in DOMAIN walk.todo : p[i] \in Pending(p)
    BY DEF Pending
  <2>19. \A i \in DOMAIN walk'.todo : q[i] \in N \cup Pending(p)
    BY <2>32, <2>18
  <2>20. Pending(q)' \subseteq N \cup Pending(p)
    BY <2>19 DEF Pending
  <2>21. Cardinality(W) = walk'.queries
    <3>1. IsFiniteSet(SUBSET Branch)
      <4>1. IsFiniteSet(1..MaxBranches)
        BY FS_Interval, BranchesAssumption
      <4> QED
        BY <4>1, FS_SUBSET DEF Branch
    <3>2. IsFiniteSet(V)
      BY <3>1, FS_Subset
    <3>3. Cardinality(W) = Cardinality(V) + 1
      <4>1. P \notin V
        BY <2>11
      <4>2. Cardinality(V \cup {P}) = Cardinality(V) + 1
        <5> HIDE DEF P
        <5> QED
          BY <3>2, <4>1, FS_AddElement
      <4> QED
        BY <2>33, <4>2
    <3> QED
      BY <2>4, <2>9, <3>3 DEF PathsAre
  <2>22. \A i, j \in DOMAIN walk.todo : p[i] = p[j] => i = j
    BY <2>9 DEF PathsAre
  <2>23. \A i \in DOMAIN walk'.todo : q[i] \notin W /\ f[q[i]] = walk'.todo[i]
    <3> TAKE i \in DOMAIN walk'.todo
    <3>1. CASE i \in DOMAIN list
      <4>1. q[i] \notin V \cup Pending(p) /\ f[q[i]] = branches[list[i]].child
        BY <2>7, <2>32, <3>1
      <4> QED
        BY <2>10, <2>12, <2>33, <3>1, <4>1
    <3>2. CASE i \notin DOMAIN list
      <4>1. PICK j \in DOMAIN walk.todo \ {1} : q[i] = p[j] /\ walk'.todo[i] = walk.todo[j]
        BY <2>10, <2>32, <3>2
      <4>2. p[j] # P
        BY <2>10, <2>22
      <4>3. p[j] \notin V /\ e[p[j]] = walk.todo[j]
        BY <2>9 DEF PathsAre
      <4> QED
        BY <2>32, <2>18, <4>1, <4>2, <4>3
    <3> QED
      BY <3>1, <3>2
  <2>24. \A i, j \in DOMAIN walk'.todo : q[i] = q[j] => i = j
    <3> SUFFICES ASSUME NEW i \in DOMAIN walk'.todo, NEW j \in DOMAIN walk'.todo, q[i] = q[j] PROVE i = j
      OBVIOUS
    <3>1. CASE i \in DOMAIN list /\ j \in DOMAIN list
      <4>1. list[i] \in P \cup {list[j]} /\ list[i] \notin P
        BY <2>7, <2>11, <2>32, <3>1
      <4> QED
        BY <2>8, <3>1, <4>1
    <3>2. CASE i \notin DOMAIN list /\ j \notin DOMAIN list
      <4>1. i - n + 1 \in DOMAIN walk.todo /\ j - n + 1 \in DOMAIN walk.todo /\ p[i - n + 1] = p[j - n + 1]
        BY <2>32, <3>2
      <4>2. i - n + 1 = j - n + 1
        BY <2>22, <4>1
      <4>3. i \in Int /\ j \in Int /\ n \in Nat
        BY <2>2, <2>10
      <4> QED
        BY <4>2, <4>3
    <3>3. ASSUME NEW k \in DOMAIN list, NEW m \in DOMAIN walk'.todo, m \notin DOMAIN list, q[k] = q[m] PROVE FALSE
      BY <2>32, <2>18, <3>3
    <3> QED
      BY <3>1, <3>2, <3>3
  <2>25. \A Q \in W \cup Pending(q)' : Q \in V \cup Pending(p) \/ \E b \in direct : Q = P \cup {b}
    BY <2>12, <2>20, <2>33
  <2> HIDE DEF N
  <2>26. \A Q \in V \cup Pending(p) : LeadsOn(V, e, Q) /\ Extends(V, e, Q) /\ Apart(p, V, Q)
    BY <2>9 DEF PathsAre
  <2>27. \A O \in W : f[O] = e[O]
    BY <2>12, <2>32, <2>33
  <2>28. \A Q \in W \cup Pending(q)' : LeadsOn(W, f, Q)'
    <3> SUFFICES ASSUME NEW Q \in W \cup Pending(q)', NEW b \in Q
                 PROVE  /\ b \in DOMAIN branches
                        /\ \E O \in W : O \subseteq Q /\ b \notin O /\ f[O] = branches[b].parent
                        /\ f[Q] \in Reached(branches[b].child, DOMAIN branches)
      BY <2>1 DEF LeadsOn, Reached
    <3>1. CASE Q \in V \cup Pending(p)
      BY <2>32, <2>26, <2>27, <3>1 DEF LeadsOn
    <3>2. ASSUME NEW c \in direct, Q = P \cup {c} PROVE
                        /\ b \in DOMAIN branches
                        /\ \E O \in W : O \subseteq Q /\ b \notin O /\ f[O] = branches[b].parent
                        /\ f[Q] \in Reached(branches[b].child, DOMAIN branches)
      <4>1. f[Q] = branches[c].child /\ branches[c].parent = e[P] /\ c \in DOMAIN branches /\ branches[c].child \in Talk
        BY <2>2, <2>5, <2>10, <2>11, <2>32, <3>2
      <4>2. CASE b = c
        <5>1. f[Q] \in Reached(branches[b].child, DOMAIN branches)
          BY <4>1, <4>2, ReachesItself
        <5>2. P \in W /\ P \subseteq Q /\ b \notin P /\ f[P] = branches[b].parent
          BY <2>11, <2>27, <2>33, <3>2, <4>1, <4>2
        <5> QED
          BY <4>1, <4>2, <5>1, <5>2
      <4>3. CASE b \in P
        <5>1. /\ b \in DOMAIN branches
              /\ \E O \in V : O \subseteq P /\ b \notin O /\ e[O] = branches[b].parent
              /\ e[P] \in Reached(branches[b].child, DOMAIN branches)
          BY <2>12, <2>26, <4>3 DEF LeadsOn
        <5>2. f[Q] \in Reached(branches[b].child, DOMAIN branches)
          BY <4>1, <5>1, ReachesOn
        <5> QED
          BY <2>27, <2>33, <3>2, <5>1, <5>2
      <4> QED
        BY <3>2, <4>2, <4>3
    <3> QED
      BY <2>25, <3>1, <3>2
  <2>29. \A Q \in W \cup Pending(q)' : Extends(W, f, Q)'
    <3> SUFFICES ASSUME NEW Q \in W \cup Pending(q)', NEW O \in W, O \subseteq Q, O # Q
                 PROVE  \E b \in Q \ O : branches[b].parent = e[O]
      BY <2>1, <2>27 DEF Extends
    <3>1. CASE Q \in V \cup Pending(p) /\ O \in V
      BY <2>26, <3>1 DEF Extends
    <3>2. CASE Q \in V \cup Pending(p) /\ O = P
      BY <2>10, <2>26, <3>2 DEF Apart
    <3>3. ASSUME NEW c \in direct, Q = P \cup {c}, O \in V PROVE \E b \in Q \ O : branches[b].parent = e[O]
      <4>1. O \subseteq P /\ O # P
        BY <2>11, <3>3
      <4> QED
        BY <2>12, <2>26, <3>3, <4>1 DEF Extends
    <3>4. ASSUME NEW c \in direct, Q = P \cup {c}, O = P PROVE \E b \in Q \ O : branches[b].parent = e[O]
      BY <2>5, <2>10, <2>11, <3>4
    <3> QED
      BY <2>25, <2>33, <3>1, <3>2, <3>3, <3>4
  <2>30. \A Q \in W \cup Pending(q)' : Apart(q, W, Q)'
    <3> SUFFICES ASSUME NEW Q \in W \cup Pending(q)', NEW i \in DOMAIN walk'.todo, q[i] # Q, q[i] \subseteq Q
                 PROVE  FALSE
      BY DEF Apart
    <3>1. CASE i \in DOMAIN list
      <4>1. PICK b \in direct : q[i] = P \cup {b}
        BY <2>7, <2>32, <3>1
      <4>2. Q \notin V \cup Pending(p)
        BY <2>11, <4>1
      <4>3. PICK c \in direct : Q = P \cup {c}
        BY <2>25, <4>2
      <4>4. b = c
        BY <2>11, <4>1, <4>3
      <4> QED
        BY <4>1, <4>3, <4>4
    <3>2. CASE i \notin DOMAIN list
      <4>1. PICK j \in DOMAIN walk.todo \ {1} : q[i] = p[j]
        BY <2>32, <3>2
      <4>2. CASE Q \in V \cup Pending(p)
        BY <2>26, <4>1, <4>2 DEF Apart
      <4>3. ASSUME NEW c \in direct, Q = P \cup {c} PROVE FALSE
        BY <2>11, <4>1, <4>3
      <4> QED
        BY <2>25, <4>2, <4>3
    <3> QED
      BY <3>1, <3>2
  <2>31. PathsAre(W, f, q)'
    BY <2>21, <2>23, <2>24, <2>28, <2>29, <2>30 DEF PathsAre
  <2> QED
    BY <2>31 DEF PathsInv
<1> QED
  BY <1>1, <1>2

\* A query of the tree: what it read is of the set now.
LEMMA QueryTree ==
  ASSUME BranchesTypeOK, TreeInv, Query PROVE BranchesTypeOK' /\ TreeInv'
<1> DEFINE direct == DirectBranches(Head(walk.todo))
           s == Head(walk.todo)
<1>1. walk.pc = "on" /\ walk.todo # <<>> /\ branches' = branches /\ walk.queries < MaxQueries /\ walk.queries \in 0..MaxQueries
  BY DEF Query, BranchesTypeOK
<1>2. direct \in SUBSET DOMAIN branches /\ direct \subseteq Branch /\ Cardinality(direct) \in Nat
  BY DirectTyped, SMTT(60)
<1>3. PICK list \in [1..Cardinality(direct) -> direct] :
        /\ IsListing(list, direct)
        /\ walk' = [walk EXCEPT !.todo = [i \in DOMAIN list |-> branches[list[i]].child] \o Tail(@),
                                !.found = @ \cup direct, !.queries = @ + 1]
  BY ZenonT(60) DEF Query
<1>4. /\ walk'.todo = [i \in DOMAIN list |-> branches[list[i]].child] \o Tail(walk.todo)
      /\ walk'.found = walk.found \cup direct /\ walk'.queries = walk.queries + 1
      /\ walk'.pc = walk.pc /\ walk'.stayed = walk.stayed
  BY <1>3 DEF BranchesTypeOK
<1>5. IsToRead(walk'.todo, list, Cardinality(direct))
  BY <1>1, <1>2, <1>4, ToReadNext, Zenon
<1>6. \A b \in direct : \E i \in DOMAIN list : list[i] = b
  BY <1>3 DEF IsListing
<1>7. \A b \in DOMAIN branches : b \in KeptBranches /\ branches[b].parent = s => b \in direct
  BY DEF DirectBranches
<1> HIDE DEF direct
<1>8. BranchesTypeOK'
  <2>1. walk'.todo \in Seq(Talk)
    BY <1>5 DEF IsToRead
  <2>2. walk.queries + 1 \in 0..MaxQueries
    BY <1>1, BranchesAssumption
  <2>3. walk.found \cup direct \in SUBSET Branch
    BY <1>2 DEF BranchesTypeOK
  <2>4. walk' = [walk EXCEPT !.todo = walk'.todo, !.found = walk.found \cup direct, !.queries = walk.queries + 1]
    BY <1>3, <1>4 DEF BranchesTypeOK
  <2>5. walk' \in [pc : {"none", "on", "done"}, todo : Seq(Talk), found : SUBSET Branch,
                   stayed : SUBSET Branch, queries : 0..MaxQueries]
    BY <2>1, <2>2, <2>3, <2>4 DEF BranchesTypeOK
  <2> QED
    BY <1>1, <2>5 DEF BranchesTypeOK, BranchRow, Branch
<1>9. TreeInv'
  <2>1. PICK S \in SUBSET Talk : HasRead(S)
    BY DEF TreeInv
  <2>2. 1 \in DOMAIN walk.todo /\ walk.todo[1] = s /\ s \in Talk
    BY <1>5 DEF IsToRead
  <2>3. ASSUME NEW t, t \in S \/ \E i \in DOMAIN walk.todo : walk.todo[i] = t
        PROVE  t \in S \cup {s} \/ \E i \in DOMAIN walk'.todo : walk'.todo[i] = t
    <3>1. CASE t \in S \/ t = s
      BY <3>1
    <3>2. ASSUME NEW i \in DOMAIN walk.todo, walk.todo[i] = t, i # 1
          PROVE  \E j \in DOMAIN walk'.todo : walk'.todo[j] = t
      BY <1>5, <3>2 DEF IsToRead
    <3> QED
      BY <2>2, <2>3, <3>1, <3>2
  <2>4. Root \in S \cup {s} \/ \E i \in DOMAIN walk'.todo : walk'.todo[i] = Root
    BY <1>1, <2>1, <2>3 DEF HasRead
  <2>5. ASSUME NEW b \in walk.stayed, branches[b].parent \in S \cup {s}
        PROVE  b \in walk'.found /\ (branches[b].child \in S \cup {s} \/ \E i \in DOMAIN walk'.todo : walk'.todo[i] = branches[b].child)
    <3>1. CASE branches[b].parent \in S
      BY <1>4, <2>1, <2>3, <3>1 DEF HasRead, BranchStays
    <3>2. CASE branches[b].parent = s
      <4>1. b \in direct
        BY <1>7, <3>2, DirectTyped DEF TreeInv
      <4>2. PICK i \in DOMAIN list : list[i] = b
        BY <1>6, <4>1
      <4> QED
        BY <1>4, <1>5, <4>1, <4>2 DEF IsToRead
    <3> QED
      BY <2>5, <3>1, <3>2, SMTT(60)
  <2>6. PICK X \in SUBSET Talk : X = S \cup {s}
    BY <2>2, Zenon
  <2>7. HasRead(X)'
    BY <1>1, <1>4, <2>4, <2>5, <2>6, Zenon DEF HasRead, BranchStays
  <2>8. \E Y \in SUBSET Talk : HasRead(Y)'
    BY <2>7
  <2> QED
    BY <1>1, <1>4, <2>8 DEF TreeInv, KeptBranches
<1> QED
  BY <1>8, <1>9

(***************************************************************************)
(* A step that is none of the walk's keeps what branches join: so the      *)
(* paths stay, and so does what was read; the walk only loses branches     *)
(* that went.                                                              *)
(***************************************************************************)
LEMMA PathsStay ==
  ASSUME PathsInv, DOMAIN branches \subseteq DOMAIN branches',
         \A b \in DOMAIN branches : branches'[b].parent = branches[b].parent /\ branches'[b].child = branches[b].child,
         walk'.todo = walk.todo, walk'.queries = walk.queries
  PROVE  PathsInv'
<1>1. \A s, t : t \in Reached(s, DOMAIN branches) => t \in Reached(s, DOMAIN branches)'
  BY DEF Reached
<1>2. CASE Circle
  BY <1>1, <1>2 DEF Circle, PathsInv
<1>3. CASE ~Circle
  <2>1. PICK V \in SUBSET (SUBSET Branch), e \in [SUBSET Branch -> Talk], p \in [DOMAIN walk.todo -> SUBSET Branch] : PathsAre(V, e, p)
    BY <1>3 DEF PathsInv
  <2>2. Pending(p)' = Pending(p)
    BY DEF Pending
  <2>3. \A Q \in V \cup Pending(p) : LeadsOn(V, e, Q) /\ Extends(V, e, Q) /\ Apart(p, V, Q)
    BY <2>1 DEF PathsAre
  <2>4. \A Q \in V \cup Pending(p) : LeadsOn(V, e, Q)'
    BY <1>1, <2>3 DEF LeadsOn
  <2>5. \A Q \in V \cup Pending(p) : Apart(p, V, Q)'
    BY <2>3 DEF Apart
  <2>6. \A Q \in V \cup Pending(p) : Extends(V, e, Q)'
    BY <2>3 DEF Extends, LeadsOn
  <2>7. PathsAre(V, e, p)'
    BY <2>1, <2>2, <2>4, <2>5, <2>6 DEF PathsAre
  <2>8. p \in [DOMAIN walk'.todo -> SUBSET Branch]
    OBVIOUS
  <2> QED
    BY <2>7, <2>8 DEF PathsInv
<1> QED
  BY <1>2, <1>3

LEMMA BranchesKeepJoining ==
  ASSUME BranchesTypeOK, TreeInv, PathsInv, BranchesTypeOK', DOMAIN branches \subseteq DOMAIN branches',
         \A b \in DOMAIN branches : branches'[b].parent = branches[b].parent /\ branches'[b].child = branches[b].child,
         walk'.pc = walk.pc, walk'.todo = walk.todo, walk'.found = walk.found, walk'.queries = walk.queries,
         walk'.stayed \subseteq walk.stayed, walk'.stayed \subseteq KeptBranches'
  PROVE  TreeInv' /\ PathsInv'
<1>1. TreeInv'
  <2>1. PICK S \in SUBSET Talk : HasRead(S)
    BY DEF TreeInv
  <2>2. walk.stayed \subseteq DOMAIN branches
    BY DEF TreeInv, KeptBranches
  <2>3. HasRead(S)'
    BY <2>1, <2>2 DEF HasRead, BranchStays
  <2> QED
    BY <2>3 DEF TreeInv
<1> QED
  BY <1>1, PathsStay

LEMMA BranchesQuiet ==
  ASSUME BranchesInv, UNCHANGED branchVars PROVE BranchesInv'
<1>1. BranchesTypeOK'
  BY DEF BranchesInv, BranchesTypeOK, branchVars, BranchRow, Branch
<1> QED
  BY <1>1, BranchesKeepJoining DEF BranchesInv, branchVars, TreeInv, KeptBranches

LEMMA BranchesInitInv == ASSUME BranchesInit PROVE BranchesInv
<1>1. BranchesTypeOK
  BY BranchesAssumption DEF BranchesInit, BranchesTypeOK
<1>2. TreeInv
  <2>1. HasRead({})
    BY DEF BranchesInit, HasRead, BranchStays
  <2> QED
    BY <2>1 DEF TreeInv, BranchesInit
<1>3. PathsInv
  <2> DEFINE V == {}
             e == [Q \in SUBSET Branch |-> Root]
             p == [i \in DOMAIN walk.todo |-> {}]
  <2>1. DOMAIN walk.todo = {} /\ walk.queries = 0
    BY DEF BranchesInit
  <2>2. Cardinality({}) = 0
    BY FS_EmptySet
  <2>3. PathsAre(V, e, p)
    BY <2>1, <2>2 DEF PathsAre, Pending
  <2>4. V \in SUBSET (SUBSET Branch) /\ e \in [SUBSET Branch -> Talk] /\ p \in [DOMAIN walk.todo -> SUBSET Branch]
    BY BranchesAssumption
  <2> HIDE DEF V, e, p
  <2> QED
    BY <2>3, <2>4 DEF PathsInv
<1> QED
  BY <1>1, <1>2, <1>3 DEF BranchesInv

LEMMA BranchesStepInv ==
  ASSUME BranchesInv, BranchesNext PROVE BranchesInv'
<1>1. BranchesTypeOK /\ TreeInv /\ PathsInv
  BY DEF BranchesInv
<1>2. branches \in Seq(BranchRow) /\ Len(branches) \in Nat /\ Len(branches) <= MaxBranches /\ DOMAIN branches = 1..Len(branches)
  BY <1>1 DEF BranchesTypeOK
<1>3. CASE CreateBranch
  <2>1. PICK s \in Talk, t \in Talk : branches' = Append(branches, [parent |-> s, child |-> t, status |-> "active"])
    BY <1>3 DEF CreateBranch
  <2>2. [parent |-> s, child |-> t, status |-> "active"] \in BranchRow
    BY DEF BranchRow
  <2>3. branches' \in Seq(BranchRow) /\ Len(branches') = Len(branches) + 1 /\ \A b \in 1..Len(branches) : branches'[b] = branches[b]
    BY <1>2, <2>1, <2>2
  <2>4. DOMAIN branches \subseteq DOMAIN branches'
    BY <1>2, <2>3
  <2>5. walk' = walk /\ Len(branches') <= MaxBranches
    BY <1>2, <1>3, <2>3, BranchesAssumption DEF CreateBranch
  <2>6. BranchesTypeOK'
    BY <1>1, <2>3, <2>5 DEF BranchesTypeOK, BranchRow, Branch
  <2>7. walk.stayed \subseteq KeptBranches'
    BY <1>1, <1>2, <2>3, <2>4 DEF TreeInv, KeptBranches
  <2> QED
    BY <1>1, <1>2, <2>3, <2>4, <2>5, <2>6, <2>7, BranchesKeepJoining DEF BranchesInv
<1>4. ASSUME NEW b \in DOMAIN branches, NEW st \in {"merged", "archived", "deleted"},
             branches' = [branches EXCEPT ![b].status = st],
             walk' = IF st = "deleted" THEN [walk EXCEPT !.stayed = @ \ {b}] ELSE walk
      PROVE  BranchesInv'
  <2>1. \A c \in DOMAIN branches : /\ branches[c] \in BranchRow
                                   /\ branches'[c] = IF c = b THEN [branches[c] EXCEPT !.status = st] ELSE branches[c]
    BY <1>2, <1>4
  <2>2. \A c \in DOMAIN branches : /\ branches'[c].parent = branches[c].parent /\ branches'[c].child = branches[c].child
                                   /\ branches'[c].status = (IF c = b THEN st ELSE branches[c].status)
                                   /\ branches'[c] \in BranchRow
    BY <2>1 DEF BranchRow
  <2>3. DOMAIN branches' = DOMAIN branches
    BY <1>4
  <2>4. branches' \in [1..Len(branches) -> BranchRow]
    BY <1>2, <1>4, <2>2, <2>3
  <2>5. branches' \in Seq(BranchRow) /\ Len(branches') = Len(branches)
    BY <1>2, <2>4
  <2>6. /\ walk'.pc = walk.pc /\ walk'.todo = walk.todo /\ walk'.found = walk.found /\ walk'.queries = walk.queries
        /\ walk'.stayed = (IF st = "deleted" THEN walk.stayed \ {b} ELSE walk.stayed)
        /\ walk' \in [pc : {"none", "on", "done"}, todo : Seq(Talk), found : SUBSET Branch,
                      stayed : SUBSET Branch, queries : 0..MaxQueries]
    BY <1>1, <1>4 DEF BranchesTypeOK
  <2>7. BranchesTypeOK'
    BY <1>2, <2>5, <2>6 DEF BranchesTypeOK, BranchRow, Branch
  <2>8. walk'.stayed \subseteq walk.stayed /\ walk'.stayed \subseteq KeptBranches'
    BY <1>1, <2>2, <2>3, <2>6 DEF TreeInv, KeptBranches
  <2> QED
    BY <1>1, <2>2, <2>3, <2>6, <2>7, <2>8, BranchesKeepJoining DEF BranchesInv
<1>5. ASSUME NEW b \in DOMAIN branches, Become(b, "merged") \/ Become(b, "archived") \/ DeleteBranch(b) PROVE BranchesInv'
  <2>1. CASE Become(b, "merged")
    <3>1. branches' = [branches EXCEPT ![b].status = "merged"] /\ walk' = walk
      BY <2>1 DEF Become
    <3> QED
      BY <1>4, <3>1
  <2>2. CASE Become(b, "archived")
    <3>1. branches' = [branches EXCEPT ![b].status = "archived"] /\ walk' = walk
      BY <2>2 DEF Become
    <3> QED
      BY <1>4, <3>1
  <2>3. CASE DeleteBranch(b)
    <3>1. branches' = [branches EXCEPT ![b].status = "deleted"] /\ walk' = [walk EXCEPT !.stayed = @ \ {b}]
      BY <2>3 DEF DeleteBranch
    <3> QED
      BY <1>4, <3>1
  <2> QED
    BY <1>5, <2>1, <2>2, <2>3
<1>6. CASE StartWalk
  <2>1. walk.pc = "none" /\ branches' = branches /\ walk' = [walk EXCEPT !.pc = "on", !.todo = <<Root>>, !.stayed = KeptBranches]
    BY <1>6 DEF StartWalk
  <2>2. KeptBranches \subseteq Branch /\ KeptBranches \subseteq DOMAIN branches
    BY <1>1, DirectTyped, BranchTyped DEF KeptBranches
  <2>3. walk'.pc = "on" /\ walk'.todo = <<Root>> /\ walk'.stayed = KeptBranches /\ walk'.found = walk.found /\ walk'.queries = 0
    BY <1>1, <2>1 DEF BranchesTypeOK, TreeInv
  <2>4. BranchesTypeOK'
    <3>1. <<Root>> \in Seq(Talk)
      BY BranchesAssumption
    <3>2. walk' \in [pc : {"none", "on", "done"}, todo : Seq(Talk), found : SUBSET Branch,
                     stayed : SUBSET Branch, queries : 0..MaxQueries]
      BY <1>1, <2>1, <2>2, <3>1 DEF BranchesTypeOK
    <3> QED
      BY <1>1, <2>1, <3>2 DEF BranchesTypeOK, BranchRow, Branch
  <2>5. TreeInv'
    <3>1. 1 \in DOMAIN walk'.todo /\ walk'.todo[1] = Root
      BY <2>3
    <3>2. HasRead({})'
      BY <2>1, <3>1 DEF HasRead, BranchStays
    <3> QED
      BY <2>1, <2>3, <3>2 DEF TreeInv, KeptBranches
  <2>6. PathsInv'
    <3>1. DOMAIN walk'.todo = {1} /\ walk'.todo[1] = Root
      BY <2>3
    <3>2. PICK V \in SUBSET (SUBSET Branch), e \in [SUBSET Branch -> Talk], p \in [DOMAIN walk'.todo -> SUBSET Branch] :
            /\ V = {} /\ e = [Q \in SUBSET Branch |-> Root] /\ p = [i \in DOMAIN walk'.todo |-> {}]
      BY BranchesAssumption
    <3>3. Cardinality(V) = 0
      BY <3>2, FS_EmptySet
    <3>4. Pending(p)' = {{}}
      BY <3>1, <3>2 DEF Pending
    <3>5. PathsAre(V, e, p)'
      BY <2>3, <3>1, <3>2, <3>3, <3>4 DEF PathsAre, LeadsOn, Extends, Apart
    <3> QED
      BY <3>5 DEF PathsInv
  <2> QED
    BY <2>4, <2>5, <2>6 DEF BranchesInv
<1>7. CASE Query
  BY <1>1, <1>7, QueryTree, QueryPaths DEF BranchesInv
<1>8. CASE WalkEnds
  <2>1. walk.pc = "on" /\ walk.todo = <<>> /\ branches' = branches /\ walk' = [walk EXCEPT !.pc = "done"]
    BY <1>8 DEF WalkEnds
  <2>2. walk'.pc = "done" /\ walk'.todo = walk.todo /\ walk'.stayed = walk.stayed /\ walk'.found = walk.found /\ walk'.queries = walk.queries
    BY <1>1, <2>1 DEF BranchesTypeOK
  <2>3. BranchesTypeOK'
    BY <1>1, <2>1 DEF BranchesTypeOK, BranchRow, Branch
  <2>4. TreeInv'
    <3>1. PICK S \in SUBSET Talk : HasRead(S)
      BY <1>1 DEF TreeInv
    <3>2. HasRead(S)'
      BY <2>1, <2>2, <3>1 DEF HasRead, BranchStays
    <3> QED
      BY <1>1, <2>1, <2>2, <3>2 DEF TreeInv, KeptBranches
  <2>5. PathsInv'
    BY <1>1, <2>1, <2>2, PathsStay
  <2> QED
    BY <2>3, <2>4, <2>5 DEF BranchesInv
<1> QED
  BY <1>3, <1>5, <1>6, <1>7, <1>8 DEF BranchesNext

-----------------------------------------------------------------------------
(***************************************************************************)
(* The store of the tests keeps the promise of AttemptLife, too.  Between  *)
(* the two writes of an outcome the ledger has the result that is to be    *)
(* told, and who is to tell it has claimed the attempt.                    *)
(***************************************************************************)
HeardEvent == [kind : {"progress", "tool_result", "ending"}, call : Invocation \cup {NoResult}, token : 0..MaxGrip]

MemoryInv ==
  /\ MemoryTypeOK
  /\ \A h \in Holder : half[h] # NoResult => half[h] \in Invocation /\ book[half[h]] \in BookStatus /\ grip[h] # 0
  /\ \A i \in DOMAIN events : events[i].kind = "tool_result" => events[i].call \in Invocation /\ book[events[i].call] \in BookStatus

LEMMA MemoryInvTyped ==
  ASSUME MemoryInv
  PROVE  /\ attempt.status \in Going \cup Over /\ attempt.token \in 0..MaxGrip /\ attempt.token \in Nat
         /\ attempt.lease \in {"none", "live", "past"} /\ attempt.leaseId \in Holder \cup {Nobody}
         /\ attempt \in [status : Going \cup Over, token : 0..MaxGrip, lease : {"none", "live", "past"}, leaseId : Holder \cup {Nobody}]
         /\ events \in Seq(HeardEvent) /\ Len(events) \in Nat /\ DOMAIN events = 1..Len(events)
         /\ \A h \in Holder : grip[h] \in 0..MaxGrip /\ half[h] \in Invocation \cup {NoResult}
         /\ book \in [Invocation -> BookStatus \cup {"none", "pending", "outcome_unknown"}]
         /\ grip \in [Holder -> 0..MaxGrip] /\ half \in [Holder -> Invocation \cup {NoResult}]
  BY MemoryAssumption DEF MemoryInv, MemoryTypeOK, HeardEvent

\* An event with a token is the last one heard; one without changes nothing.
LEMMA EventIsHeard ==
  ASSUME events \in Seq(HeardEvent), NEW v \in HeardEvent, events' = Append(events, v)
  PROVE  LastHeard' = IF v.token = 0 THEN LastHeard ELSE v.token
<1>1. Len(events) \in Nat /\ DOMAIN events = 1..Len(events) /\ Len(events') = Len(events) + 1 /\ DOMAIN events' = 1..(Len(events) + 1)
  OBVIOUS
<1>2. events'[Len(events) + 1] = v /\ \A i \in DOMAIN events : events'[i] = events[i]
  OBVIOUS
<1>3. Heard \in SUBSET (1..Len(events))
  BY <1>1 DEF Heard
<1>4. CASE v.token = 0
  <2>1. Heard' = Heard
    <3>1. \A i : i \in Heard' <=> i \in Heard
      <4> TAKE i
      <4>1. i \in DOMAIN events' <=> (i \in DOMAIN events \/ i = Len(events) + 1)
        BY <1>1
      <4> QED
        BY <1>1, <1>2, <1>4, <4>1 DEF Heard
    <3> QED
      BY <3>1
  <2>2. CASE Heard = {}
    BY <1>4, <2>1, <2>2 DEF LastHeard
  <2>3. CASE Heard # {}
    <3>1. PICK m \in Heard : m = CHOOSE i \in Heard : \A j \in Heard : j <= i
      <4>1. Heard \in SUBSET Nat /\ \A i \in Heard : i <= Len(events)
        BY <1>1, <1>3
      <4>2. \E i \in Heard : \A j \in Heard : j <= i
        BY <1>1, <2>3, <4>1, GreatestExists
      <4> QED
        BY <4>2
    <3>2. events'[m] = events[m]
      BY <1>2, <3>1 DEF Heard
    <3> QED
      BY <1>4, <2>1, <2>3, <3>1, <3>2 DEF LastHeard
  <2> QED
    BY <2>2, <2>3
<1>5. CASE v.token # 0
  <2>1. Len(events) + 1 \in Heard' /\ \A i \in Heard' : i <= Len(events) + 1 /\ i \in Nat
    BY <1>1, <1>2, <1>5 DEF Heard
  <2>2. (CHOOSE i \in Heard' : \A j \in Heard' : j <= i) = Len(events) + 1
    <3>1. \A i \in Heard' : (\A j \in Heard' : j <= i) => i = Len(events) + 1
      BY <1>1, <2>1
    <3>2. \E i \in Heard' : \A j \in Heard' : j <= i
      BY <2>1
    <3> QED
      BY <3>1, <3>2
  <2> QED
    BY <1>2, <1>5, <2>1, <2>2 DEF LastHeard
<1> QED
  BY <1>4, <1>5

LEMMA MemoryInitInv == ASSUME MemoryInit PROVE MemoryInv /\ Promise!LifeInit
<1>1. MemoryInv
  BY MemoryAssumption DEF MemoryInit, MemoryInv, MemoryTypeOK, Going, Over
<1>2. Heard = {}
  BY DEF MemoryInit, Heard
<1>3. LastHeard = 0
  BY <1>2 DEF LastHeard
<1> QED
  BY <1>1, <1>3 DEF MemoryInit, Promise!LifeInit

\* What pushes an event keeps the invariant when the ledger has what it tells.
LEMMA PushKeeps ==
  ASSUME MemoryInv, NEW kind \in {"progress", "tool_result", "ending"}, NEW call \in Invocation \cup {NoResult},
         NEW token \in 0..MaxGrip, Push(kind, call, token)
  PROVE  /\ events' \in Seq(HeardEvent) /\ LastHeard' = (IF token = 0 THEN LastHeard ELSE token)
         /\ \A i \in DOMAIN events' : (i \in DOMAIN events /\ events'[i] = events[i]) \/ (events'[i].kind = kind /\ events'[i].call = call)
<1> DEFINE v == [kind |-> kind, call |-> call, token |-> token]
<1>1. v \in HeardEvent /\ v.token = token /\ v.kind = kind /\ v.call = call
  BY DEF HeardEvent
<1>2. events \in Seq(HeardEvent) /\ events' = Append(events, v)
  BY MemoryInvTyped DEF Push
<1> HIDE DEF v
<1>3. LastHeard' = IF token = 0 THEN LastHeard ELSE token
  BY <1>1, <1>2, EventIsHeard
<1>4. Len(events) \in Nat /\ DOMAIN events = 1..Len(events) /\ DOMAIN events' = 1..(Len(events) + 1)
      /\ events'[Len(events) + 1] = v /\ \A i \in DOMAIN events : events'[i] = events[i]
  BY <1>1, <1>2
<1>5. \A i \in DOMAIN events' : i \in DOMAIN events \/ i = Len(events) + 1
  BY <1>4
<1> QED
  BY <1>1, <1>2, <1>3, <1>4, <1>5

LEMMA SilentStays == ASSUME events' = events PROVE LastHeard' = LastHeard
  BY DEF LastHeard, Heard

\* A step on the attempt alone, with the claim that made it.
LEMMA AttemptMoves ==
  ASSUME MemoryInv, UNCHANGED <<events, book, half>>, attempt' \in [status : Going \cup Over, token : 0..MaxGrip,
           lease : {"none", "live", "past"}, leaseId : Holder \cup {Nobody}],
         grip' \in [Holder -> 0..MaxGrip], \A h \in Holder : grip[h] # 0 => grip'[h] # 0
  PROVE  MemoryInv' /\ LastHeard' = LastHeard
  BY SilentStays DEF MemoryInv, MemoryTypeOK, BookStatus, Going, Over

\* A step on the ledger alone: a result in it stays one.
LEMMA BookMoves ==
  ASSUME MemoryInv, UNCHANGED <<events, attempt, grip, half>>,
         book' \in [Invocation -> BookStatus \cup {"none", "pending", "outcome_unknown"}],
         \A c \in Invocation : book[c] \in BookStatus => book'[c] \in BookStatus
  PROVE  MemoryInv' /\ LastHeard' = LastHeard
  BY SilentStays DEF MemoryInv, MemoryTypeOK, BookStatus, Going, Over

LEMMA MemoryStep ==
  ASSUME MemoryInv, MemoryNext \/ UNCHANGED memoryVars
  PROVE  MemoryInv' /\ [Promise!LifeNext]_(Promise!lifeVars)
<1> USE DEF Promise!lifeVars, Promise!LifeNext
<1> DEFINE AttemptType == [status : Going \cup Over, token : 0..MaxGrip, lease : {"none", "live", "past"}, leaseId : Holder \cup {Nobody}]
           BookType == [Invocation -> BookStatus \cup {"none", "pending", "outcome_unknown"}]
<1>1. /\ attempt.status \in Going \cup Over /\ attempt.token \in 0..MaxGrip /\ attempt.token \in Nat
      /\ attempt \in AttemptType /\ events \in Seq(HeardEvent) /\ MaxGrip \in Nat
      /\ \A h \in Holder : grip[h] \in 0..MaxGrip /\ half[h] \in Invocation \cup {NoResult}
      /\ book \in BookType /\ grip \in [Holder -> 0..MaxGrip] /\ half \in [Holder -> Invocation \cup {NoResult}]
  BY MemoryInvTyped, MemoryAssumption
<1> HIDE DEF AttemptType, BookType
\* Steps on the attempt.
<1>2. ASSUME UNCHANGED <<events, book, half>>, attempt' \in AttemptType, grip' \in [Holder -> 0..MaxGrip],
             \A h \in Holder : grip[h] # 0 => grip'[h] # 0
      PROVE  MemoryInv' /\ LastHeard' = LastHeard
  BY <1>2, AttemptMoves DEF AttemptType
<1>3. ASSUME NEW h \in Holder, MemoryClaim(h) PROVE MemoryInv' /\ Promise!TakeOver
  <2>1. /\ attempt.status = "Running" /\ attempt.token < MaxGrip
        /\ attempt' = [attempt EXCEPT !.token = attempt.token + 1, !.lease = "live", !.leaseId = h]
        /\ grip' = [grip EXCEPT ![h] = attempt.token + 1] /\ UNCHANGED <<events, book, half>>
    BY <1>3 DEF MemoryClaim
  <2>2. attempt.token + 1 \in 0..MaxGrip /\ attempt.token + 1 # 0
    BY <1>1, <2>1
  <2>3. attempt' \in AttemptType /\ attempt'.status = attempt.status /\ attempt'.token = attempt.token + 1
    BY <1>1, <2>1, <2>2 DEF AttemptType
  <2>4. grip' \in [Holder -> 0..MaxGrip] /\ \A g \in Holder : grip[g] # 0 => grip'[g] # 0
    BY <1>1, <2>1, <2>2
  <2> QED
    BY <1>2, <2>1, <2>3, <2>4 DEF Promise!TakeOver
<1>4. ASSUME UNCHANGED <<events, book, grip, half>>, attempt' \in AttemptType PROVE MemoryInv' /\ LastHeard' = LastHeard
  BY <1>1, <1>2, <1>4
<1>5. ASSUME NEW term \in {"none", "live", "past"}, NEW id \in Holder \cup {Nobody},
             attempt' = [attempt EXCEPT !.lease = term, !.leaseId = id], UNCHANGED <<events, book, grip, half>>
      PROVE  MemoryInv' /\ UNCHANGED Promise!lifeVars
  <2>1. attempt' \in AttemptType /\ attempt'.status = attempt.status /\ attempt'.token = attempt.token
    BY <1>1, <1>5 DEF AttemptType
  <2> QED
    BY <1>4, <1>5, <2>1
<1>6. ASSUME NEW outcome \in Going \cup Over, attempt' = [attempt EXCEPT !.status = outcome], UNCHANGED <<events, book, grip, half>>
      PROVE  MemoryInv' /\ attempt'.status = outcome /\ attempt'.token = attempt.token /\ LastHeard' = LastHeard
  <2>1. attempt' \in AttemptType /\ attempt'.status = outcome /\ attempt'.token = attempt.token
    BY <1>1, <1>6 DEF AttemptType
  <2> QED
    BY <1>4, <1>6, <2>1
<1>7. ASSUME NEW h \in Holder, MemoryRenew(h) PROVE MemoryInv' /\ UNCHANGED Promise!lifeVars
  <2>1. attempt' = [attempt EXCEPT !.lease = "live", !.leaseId = attempt.leaseId] /\ attempt.leaseId \in Holder \cup {Nobody}
    BY <1>1, <1>7 DEF MemoryRenew, AttemptType
  <2> QED
    BY <1>5, <1>7, <2>1 DEF MemoryRenew
<1>8. CASE MemoryLeaseEnds
  <2>1. attempt' = [attempt EXCEPT !.lease = "past", !.leaseId = attempt.leaseId] /\ attempt.leaseId \in Holder \cup {Nobody}
    BY <1>1, <1>8 DEF MemoryLeaseEnds, AttemptType
  <2> QED
    BY <1>5, <1>8, <2>1 DEF MemoryLeaseEnds
<1>9. CASE SimulateLeaseLoss
  BY <1>5, <1>9 DEF SimulateLeaseLoss
<1>10. CASE SimulatePreemption
  <2>1. /\ attempt.status = "Running" /\ attempt.token < MaxGrip
        /\ attempt' = [attempt EXCEPT !.token = attempt.token + 1, !.lease = "past", !.leaseId = Nobody]
        /\ UNCHANGED <<events, book, grip, half>>
    BY <1>10 DEF SimulatePreemption
  <2>2. attempt.token + 1 \in 0..MaxGrip
    BY <1>1, <2>1
  <2>3. attempt' \in AttemptType /\ attempt'.status = attempt.status /\ attempt'.token = attempt.token + 1
    BY <1>1, <2>1, <2>2 DEF AttemptType
  <2> QED
    BY <1>4, <2>1, <2>3 DEF Promise!TakeOver
<1>11. CASE MemoryCancel
  BY <1>6, <1>11 DEF MemoryCancel, Going, Promise!AskCancel
<1>12. ASSUME NEW outcome \in Over, MemoryFinalizePlain(outcome) PROVE MemoryInv' /\ Promise!Settle
  BY <1>6, <1>12 DEF MemoryFinalizePlain, Going, Over, Promise!Settle, Promise!Ended
\* Steps on the ledger.
<1>13. ASSUME UNCHANGED <<events, attempt, grip, half>>, book' \in BookType, \A c \in Invocation : book[c] \in BookStatus => book'[c] \in BookStatus
       PROVE  MemoryInv' /\ UNCHANGED Promise!lifeVars
  BY <1>13, BookMoves DEF BookType
<1>14. ASSUME NEW h \in Holder, NEW c \in Invocation, MemoryReserve(h, c) PROVE MemoryInv' /\ UNCHANGED Promise!lifeVars
  <2>1. book' \in BookType /\ \A d \in Invocation : book[d] \in BookStatus => book'[d] \in BookStatus
    BY <1>1, <1>14 DEF MemoryReserve, BookType, BookStatus
  <2> QED
    BY <1>13, <1>14, <2>1 DEF MemoryReserve
<1>15. CASE MarkAllPendingUnknown
  <2>1. book' \in BookType /\ \A d \in Invocation : book[d] \in BookStatus => book'[d] \in BookStatus
    BY <1>1, <1>15 DEF MarkAllPendingUnknown, BookType, BookStatus
  <2> QED
    BY <1>13, <1>15, <2>1 DEF MarkAllPendingUnknown
<1>16. ASSUME NEW h \in Holder, NEW c \in Invocation, NEW s \in BookStatus, MemoryOutcome(h, c, s)
       PROVE  MemoryInv' /\ UNCHANGED Promise!lifeVars
  <2>1. /\ book' = [book EXCEPT ![c] = s] /\ half' = [half EXCEPT ![h] = c] /\ grip[h] # 0
        /\ UNCHANGED <<attempt, events, grip>>
    BY <1>16 DEF MemoryOutcome, Holds
  <2>2. book' \in BookType /\ book'[c] \in BookStatus /\ \A d \in Invocation : book[d] \in BookStatus => book'[d] \in BookStatus
    BY <1>1, <2>1 DEF BookType
  <2>3. half' \in [Holder -> Invocation \cup {NoResult}] /\ \A g \in Holder : half'[g] = IF g = h THEN c ELSE half[g]
    BY <1>1, <2>1
  <2>4. LastHeard' = LastHeard
    BY <2>1, SilentStays
  <2>5. MemoryTypeOK'
    BY <2>1, <2>2, <2>3 DEF MemoryInv, MemoryTypeOK, BookType, BookStatus, Going, Over
  <2>6. MemoryInv'
    BY <2>1, <2>2, <2>3, <2>5 DEF MemoryInv
  <2> QED
    BY <2>1, <2>4, <2>6
\* Steps that push an event.
<1>17. ASSUME NEW kind \in {"progress", "tool_result", "ending"}, NEW call \in Invocation \cup {NoResult}, NEW token \in 0..MaxGrip,
              Push(kind, call, token), kind = "tool_result" => call \in Invocation /\ book'[call] \in BookStatus,
              book' \in BookType, \A c \in Invocation : book[c] \in BookStatus => book'[c] \in BookStatus,
              attempt' \in AttemptType, half' \in [Holder -> Invocation \cup {NoResult}], \A h \in Holder : half'[h] \in {half[h], NoResult},
              UNCHANGED grip
       PROVE  MemoryInv' /\ LastHeard' = IF token = 0 THEN LastHeard ELSE token
  <2>1. /\ events' \in Seq(HeardEvent) /\ LastHeard' = (IF token = 0 THEN LastHeard ELSE token)
        /\ \A i \in DOMAIN events' : (i \in DOMAIN events /\ events'[i] = events[i]) \/ (events'[i].kind = kind /\ events'[i].call = call)
    BY <1>17, PushKeeps
  <2>2. MemoryTypeOK'
    BY <1>1, <1>17, <2>1 DEF MemoryTypeOK, HeardEvent, AttemptType, BookType, BookStatus, Going, Over
  <2>3. \A i \in DOMAIN events' : events'[i].kind = "tool_result" => events'[i].call \in Invocation /\ book'[events'[i].call] \in BookStatus
    BY <1>17, <2>1 DEF MemoryInv
  <2>4. \A h \in Holder : half'[h] # NoResult => half'[h] \in Invocation /\ book'[half'[h]] \in BookStatus /\ grip'[h] # 0
    BY <1>17 DEF MemoryInv
  <2> QED
    BY <2>1, <2>2, <2>3, <2>4 DEF MemoryInv
<1>18. ASSUME NEW h \in Holder, NEW kind \in {"progress", "ending"}, MemoryAppend(h, kind) PROVE MemoryInv' /\ Promise!Speak
  <2>1. grip[h] # 0 /\ attempt.token = grip[h] /\ Push(kind, NoResult, grip[h]) /\ UNCHANGED <<attempt, book, grip, half>>
    BY <1>18 DEF MemoryAppend, Holds, Accepts
  <2>2. MemoryInv' /\ LastHeard' = IF grip[h] = 0 THEN LastHeard ELSE grip[h]
    BY <1>1, <1>17, <2>1
  <2> QED
    BY <1>1, <2>1, <2>2 DEF Promise!Speak
<1>19. CASE MemoryAppendDirectly
  <2>1. Push("progress", NoResult, 0) /\ UNCHANGED <<attempt, book, grip, half>>
    BY <1>19 DEF MemoryAppendDirectly
  <2>2. 0 \in 0..MaxGrip /\ NoResult \in Invocation \cup {NoResult}
    BY <1>1
  <2>3. MemoryInv' /\ LastHeard' = (IF 0 = 0 THEN LastHeard ELSE 0)
    BY <1>1, <1>17, <2>1, <2>2
  <2> QED
    BY <2>1, <2>3
<1>20. ASSUME NEW h \in Holder, NEW c \in Invocation, MemoryDuplicate(h, c) PROVE MemoryInv' /\ Promise!Speak
  <2>1. /\ grip[h] # 0 /\ attempt.token = grip[h] /\ Push("tool_result", c, grip[h]) /\ UNCHANGED <<attempt, grip, half>>
        /\ book' = [book EXCEPT ![c] = "duplicate"]
    BY <1>20 DEF MemoryDuplicate, Holds, Accepts
  <2>2. book' \in BookType /\ book'[c] \in BookStatus /\ \A d \in Invocation : book[d] \in BookStatus => book'[d] \in BookStatus
    BY <1>1, <2>1 DEF BookType, BookStatus
  <2>3. MemoryInv' /\ LastHeard' = IF grip[h] = 0 THEN LastHeard ELSE grip[h]
    BY <1>1, <1>17, <2>1, <2>2
  <2> QED
    BY <1>1, <2>1, <2>3 DEF Promise!Speak
<1>21. ASSUME NEW h \in Holder, MemoryTell(h) PROVE MemoryInv' /\ (Promise!Speak \/ UNCHANGED Promise!lifeVars)
  <2>1. half[h] # NoResult /\ half' = [half EXCEPT ![h] = NoResult] /\ UNCHANGED <<attempt, book, grip>>
    BY <1>21 DEF MemoryTell
  <2>2. half[h] \in Invocation /\ book[half[h]] \in BookStatus /\ grip[h] # 0
    BY <2>1 DEF MemoryInv
  <2>3. half' \in [Holder -> Invocation \cup {NoResult}] /\ \A g \in Holder : half'[g] \in {half[g], NoResult}
    BY <1>1, <2>1
  <2>4. CASE Accepts(h, "tool_result")
    <3>1. Push("tool_result", half[h], grip[h]) /\ attempt.token = grip[h]
      BY <1>21, <2>4 DEF MemoryTell, Accepts
    <3>2. MemoryInv' /\ LastHeard' = IF grip[h] = 0 THEN LastHeard ELSE grip[h]
      BY <1>1, <1>17, <2>1, <2>2, <2>3, <3>1
    <3> QED
      BY <1>1, <2>1, <2>2, <3>1, <3>2 DEF Promise!Speak
  <2>5. CASE ~Accepts(h, "tool_result")
    <3>1. events' = events
      BY <1>21, <2>5 DEF MemoryTell
    <3>2. LastHeard' = LastHeard
      BY <3>1, SilentStays
    <3>3. MemoryInv'
      BY <2>1, <2>3, <3>1 DEF MemoryInv, MemoryTypeOK, BookStatus, Going, Over
    <3> QED
      BY <2>1, <3>2, <3>3
  <2> QED
    BY <2>4, <2>5
<1>22. ASSUME NEW h \in Holder, NEW outcome \in Over, MemoryFinalize(h, outcome) PROVE MemoryInv' /\ Promise!Settle
  <2>1. /\ grip[h] # 0 /\ attempt.token = grip[h] /\ attempt.status \in Going /\ Push("ending", NoResult, grip[h])
        /\ attempt' = [attempt EXCEPT !.status = outcome] /\ UNCHANGED <<book, grip, half>>
    BY <1>22 DEF MemoryFinalize, Holds
  <2>2. attempt' \in AttemptType /\ attempt'.status = outcome /\ attempt'.token = attempt.token
    BY <1>1, <2>1 DEF AttemptType
  <2>3. MemoryInv' /\ LastHeard' = IF grip[h] = 0 THEN LastHeard ELSE grip[h]
    BY <1>1, <1>17, <2>1, <2>2
  <2> QED
    BY <1>1, <2>1, <2>2, <2>3 DEF Promise!Settle, Promise!Ended, Going, Over
<1>23. CASE UNCHANGED memoryVars
  <2>1. LastHeard' = LastHeard
    BY <1>23, SilentStays DEF memoryVars
  <2> QED
    BY <1>23, <2>1 DEF memoryVars, MemoryInv, MemoryTypeOK, BookStatus, Going, Over
<1> QED
  BY <1>3, <1>7, <1>8, <1>9, <1>10, <1>11, <1>12, <1>14, <1>15, <1>16, <1>18, <1>19, <1>20, <1>21, <1>22, <1>23
  DEF MemoryNext, HolderOp

LEMMA MemoryInvImplies == MemoryInv => MemoryTypeOK /\ ResultIsBooked
  BY DEF MemoryInv, ResultIsBooked

-----------------------------------------------------------------------------
(***************************************************************************)
(* The theorems.  Each part keeps its invariant by itself; together they   *)
(* never run in one behaviour, so a step of one leaves the others alone.   *)
(***************************************************************************)

\* For any administrators, permissions and requests, and a death at any statement: no grant
\* outlives its plugin, a request that ran without another leaves the state it promised, and
\* what is left without its plugin is the work of an install that met an uninstall
\* (plugins/routes.ts, extension-repository.ts).
THEOREM PluginsAreKept == PluginsSpec => []PluginsInvariant
<1>1. PluginInv => PluginsInvariant
  BY DEF PluginInv
<1> QED
  BY <1>1, PluginInitInv, PluginStepInv, PTL DEF PluginsSpec

\* For any tenants and callers: a save that ran without another was accepted on the revision of
\* the row and moved it by one, a reset left neither values nor secret, and what outlives the
\* plugin is the work of a save or a reset that met the uninstall (plugins/config-routes.ts).
THEOREM ConfigIsKept == PluginConfigSpec => []PluginConfigInvariant
<1>1. ConfigInv => PluginConfigInvariant
  BY DEF ConfigInv
<1> QED
  BY <1>1, ConfigInitInv, ConfigStepInv, PTL DEF PluginConfigSpec

\* For any personas, revisions and requests: of two updates of one revision one succeeds, an
\* archived persona is selected only where its deletion met another request or died half way,
\* what is selected is in the history, and a request that ran alone did what it answered
\* (persona-repository.ts).
THEOREM PersonasAreKept == PersonasSpec => []PersonasInvariant
<1>1. PersonaInv => PersonasInvariant
  BY DEF PersonaInv
<1> QED
  BY <1>1, PersonaInitInv, PersonaStepInv, PTL DEF PersonasSpec

\* For any tasks and sockets, and whatever meets whatever: no entity is enabled and no service
\* was called unless the user enabled one, one cycle is under way at most, and while tasks ran
\* alone the last word of the user holds and a deletion left nothing (integration-manager.ts).
THEOREM HomeIsKept == HomeSpec => []HomeInvariant
<1>1. HomeInv => HomeInvariant
  BY DEF HomeInv
<1> QED
  BY <1>1, HomeInitInv, HomeStepInv, PTL DEF HomeSpec

\* For any number of devices, revisions, leases and requests: no number twice on a device, one
\* consent at most, none after a revocation, an ended lease stays ended, and while no two
\* requests met no superseded or revoked revision counts (proactive-profile-repository.ts).
THEOREM GrantsAreKept == GrantsSpec => []GrantsInvariant
  BY GrantsInitInv, GrantsStepInv, GrantsInvImplies, PTL DEF GrantsSpec

AuthorityInv == GrantsInv /\ HomeInv /\ PluginInv /\ ConfigInv /\ PersonaInv

\* What the user has allowed is all that is done, in every behaviour of the stores: the grants
\* of the proactive mode, a connected house, plugins, their configuration and personas.
THEOREM AuthorityIsKept == StoresSpec => []AuthorityInvariant
<1>1. StoresInit => AuthorityInv
  BY GrantsInitInv, HomeInitInv, PluginInitInv, ConfigInitInv, PersonaInitInv DEF StoresInit, AuthorityInv
<1>2. AuthorityInv /\ [StoresNext]_storesVars => AuthorityInv'
  <2> SUFFICES ASSUME AuthorityInv, [StoresNext]_storesVars PROVE AuthorityInv'
    OBVIOUS
  <2>1. [GrantsNext]_grantVars
    BY DEF StoresNext, storesVars
  <2>2. [HomeNext]_homeVars
    BY DEF StoresNext, storesVars
  <2>3. [PluginsNext]_pluginVars
    BY DEF StoresNext, storesVars
  <2>4. [PluginConfigNext]_configVars
    BY DEF StoresNext, storesVars
  <2>5. [PersonasNext]_personaVars
    BY DEF StoresNext, storesVars
  <2> QED
    BY <2>1, <2>2, <2>3, <2>4, <2>5, GrantsStepInv, HomeStepInv, PluginStepInv, ConfigStepInv, PersonaStepInv DEF AuthorityInv
<1>3. AuthorityInv => AuthorityInvariant
  BY GrantsInvImplies DEF AuthorityInv, AuthorityInvariant, ExtensionInvariant, HomeInv, PluginInv, ConfigInv, PersonaInv
<1> QED
  BY <1>1, <1>2, <1>3, PTL DEF StoresSpec

\* For any number of edits of a message and a death at any of their statements: of two edits of
\* one version one succeeds, versions count up without a gap, one at most is current, and one is
\* as long as none was cut off (conversation-repository.ts editMessage).
THEOREM EditsAreKept == EditsSpec => []EditsInvariant
  BY EditsInitInv, EditsStepInv, EditsInvImplies, PTL DEF EditsSpec

\* For any sessions and branches that come, merge and go while a tree is read: what was below the
\* root all along is in the tree, and only a circle of branches keeps the walk from ending
\* (conversation-repository.ts getBranchTree).
THEOREM BranchesAreKept == BranchesSpec => []BranchesInvariant
<1>1. BranchesInv => BranchesInvariant
  BY TreeInvImplies, PathsInvImplies DEF BranchesInv, BranchesInvariant
<1> QED
  BY <1>1, BranchesInitInv, BranchesStepInv, BranchesQuiet, PTL DEF BranchesSpec

\* A conversation that is changed after it was held keeps its versions and its branches, in every
\* behaviour of the stores.
THEOREM TalkIsKept == StoresSpec => []TalkInvariant
<1> DEFINE Inv == EditsInv /\ BranchesInv
<1>1. StoresInit => Inv
  BY EditsInitInv, BranchesInitInv DEF StoresInit
<1>2. Inv /\ [StoresNext]_storesVars => Inv'
  <2> SUFFICES ASSUME EditsInv, BranchesInv, [StoresNext]_storesVars PROVE EditsInv' /\ BranchesInv'
    OBVIOUS
  <2>1. [EditsNext]_editVars
    BY DEF StoresNext, storesVars
  <2>2. BranchesNext \/ UNCHANGED branchVars
    BY DEF StoresNext, storesVars
  <2> QED
    BY <2>1, <2>2, EditsStepInv, BranchesStepInv, BranchesQuiet
<1>3. Inv => TalkInvariant
  BY EditsInvImplies, TreeInvImplies, PathsInvImplies DEF BranchesInv, BranchesInvariant, TalkInvariant
<1> QED
  BY <1>1, <1>2, <1>3, PTL DEF StoresSpec

\* For any number of holders and calls, whatever the hooks of the tests do: the store the tests
\* run the loop on lives the life of an attempt step by step -- it ends once, and nobody who was
\* preempted is heard, not even after the await in recordToolOutcome --, and it tells no result
\* the ledger does not have (in-memory-store.ts).
THEOREM DoubleKeepsThePromise == MemorySpec => MemoryKeepsThePromise
<1>1. MemoryInv /\ [MemoryNext]_memoryVars => MemoryInv' /\ [Promise!LifeNext]_(Promise!lifeVars)
  BY MemoryStep
<1> QED
  BY <1>1, MemoryInitInv, MemoryInvImplies, PTL DEF MemorySpec, MemoryKeepsThePromise, Promise!LifeSpec
===============================================================================
