------------------------------ MODULE VoiceModel ------------------------------
(***************************************************************************)
(* The local speech model of the API                                       *)
(* (apps/api/src/modules/voice/asr-providers.ts, service.ts): which        *)
(* directory it is taken from, its download, the recognizer made of it,    *)
(* and the transcriptions that use it.  One provider serves every request, *)
(* so a request finds at each await what others did to it.  A recognizer   *)
(* is named by its directory; model id and language, which are also in its *)
(* key, do not change here.  There is one tenant, whose voice input is     *)
(* enabled; the directories exist; the other engine is a call to a service *)
(* and has no state.                                                       *)
(***************************************************************************)
EXTENDS Naturals, Sequences, FiniteSets, SequencesExt

CONSTANTS
  Dir,            \* directories for models
  FirstDir,       \* the one configured by the environment, with a model in it
  NoDir,          \* none of them
  VoiceCall,      \* requests under way at once
  MaxLoads,       \* bound: loads of a recognizer
  MaxVoiceCalls   \* bound: requests

ASSUME VoiceModelAssumption == FirstDir \in Dir /\ NoDir \notin Dir /\ MaxLoads \in Nat /\ MaxVoiceCalls \in Nat

VARIABLES
  provider,   \* currentModelPath, recognizerKey, recognizer, recognizerLoading, isDownloading's target
  onDisk,     \* per directory, of its two files: whether it is there and large enough
  chosenDir,  \* the modelPath of the stored configuration, if any
  loads,      \* createAsync calls: the directory and whether it is still under way
  decodes,    \* decodeChain
  voiceCall,  \* the requests under way
  voicePast   \* requests begun, and whether a load failed or somebody asked during one

voiceModelVars == <<provider, onDisk, chosenDir, loads, decodes, voiceCall, voicePast>>

NoVoiceCall == [op |-> "idle", pc |-> "end", dir |-> NoDir, load |-> 0, with |-> NoDir]

VoiceModelTypeOK ==
  /\ provider \in [path : Dir, key : Dir \cup {NoDir}, recognizer : Dir \cup {NoDir}, loading : 0..MaxLoads,
                   target : Dir \cup {NoDir}, file : {"model", "tokens"}]
  /\ onDisk \in [Dir -> [model : BOOLEAN, tokens : BOOLEAN]]
  /\ chosenDir \in Dir \cup {NoDir}
  /\ loads \in Seq([of : Dir, open : BOOLEAN])
  /\ decodes \in Seq(VoiceCall)
  /\ voiceCall \in [VoiceCall -> [op : {"idle", "transcribe", "save", "download"},
       pc : {"end", "config", "recognize", "load", "chain", "decode", "save"},
       dir : Dir \cup {NoDir}, load : 0..MaxLoads, with : Dir \cup {NoDir}]]
  /\ voicePast \in [begun : 0..MaxVoiceCalls, mixed : BOOLEAN]

VoiceModelInit ==
  /\ provider = [path |-> FirstDir, key |-> NoDir, recognizer |-> NoDir, loading |-> 0, target |-> NoDir, file |-> "model"]
  /\ onDisk = [d \in Dir |-> [model |-> d = FirstDir, tokens |-> d = FirstDir]]
  /\ chosenDir = NoDir /\ loads = <<>> /\ decodes = <<>>
  /\ voiceCall = [c \in VoiceCall |-> NoVoiceCall]
  /\ voicePast = [begun |-> 0, mixed |-> FALSE]

-----------------------------------------------------------------------------
\* modelFilesReady; verifyModel also computes a checksum, which is compared with nothing.
Ready(d) == onDisk[d].model /\ onDisk[d].tokens

\* getVoiceInputConfig: without a row the provider's own path.
ConfiguredDir == IF chosenDir = NoDir THEN provider.path ELSE chosenDir

In(c, op, pc) == voiceCall[c].op \in op /\ voiceCall[c].pc = pc
Leaves(c) == voiceCall' = [voiceCall EXCEPT ![c] = NoVoiceCall]

BeginVoiceCall(c) ==
  /\ voiceCall[c] = NoVoiceCall /\ voicePast.begun < MaxVoiceCalls
  \* any free place will do
  /\ c = CHOOSE d \in VoiceCall : voiceCall[d] = NoVoiceCall
  /\ voicePast' = [voicePast EXCEPT !.begun = @ + 1]
     \* POST transcribe, GET model/status
  /\ \/ /\ voiceCall' = [voiceCall EXCEPT ![c] = [NoVoiceCall EXCEPT !.op = "transcribe", !.pc = "config"]]
        /\ UNCHANGED provider
     \* PUT input/config: reconfigure, then the row
     \/ \E d \in Dir :
          /\ voiceCall' = [voiceCall EXCEPT ![c] = [NoVoiceCall EXCEPT !.op = "save", !.pc = "save", !.dir = d]]
          /\ provider' = [provider EXCEPT !.path = d]
     \* POST model/download: refused while one is under way, and the answer names the current path
     \/ \E d \in Dir :
          LET busy == provider.target # NoDir IN
          /\ voiceCall' = [voiceCall EXCEPT ![c] =
               [NoVoiceCall EXCEPT !.op = "download", !.pc = "config", !.dir = IF busy THEN provider.path ELSE d]]
          /\ provider' = IF busy THEN provider ELSE [provider EXCEPT !.target = d, !.file = "model"]
  /\ UNCHANGED <<onDisk, chosenDir, loads, decodes>>

\* What follows the configuration: reconfigure, then the health (no model is a 503), or
\* the status, which ends the request, or the row.
ConfigRead(c) ==
  LET d == IF voiceCall[c].op = "download" THEN voiceCall[c].dir ELSE ConfiguredDir IN
  /\ In(c, {"transcribe", "download"}, "config")
  /\ provider' = [provider EXCEPT !.path = d]
  /\ \/ voiceCall[c].op = "download" /\ voiceCall' = [voiceCall EXCEPT ![c].pc = "save"]
     \/ voiceCall[c].op = "transcribe" /\ Ready(d) /\ voiceCall' = [voiceCall EXCEPT ![c].pc = "recognize"]
     \/ voiceCall[c].op = "transcribe" /\ Leaves(c)
  /\ UNCHANGED <<onDisk, chosenDir, loads, decodes, voicePast>>

SaveConfig(c) ==
  /\ In(c, {"save", "download"}, "save")
  /\ chosenDir' = voiceCall[c].dir
  /\ Leaves(c)
  /\ UNCHANGED <<provider, onDisk, loads, decodes, voicePast>>

-----------------------------------------------------------------------------
\* getRecognizer, for the path that is current now: the one at hand, the one being
\* loaded, or a load of its own.
Cached(d) == provider.recognizer # NoDir /\ provider.key = d
GetRecognizer(c) ==
  LET d == provider.path
      waits(l) == voiceCall' = [voiceCall EXCEPT ![c].pc = "load", ![c].dir = d, ![c].load = l]
  IN
  /\ In(c, {"transcribe"}, "recognize")
  /\ IF Cached(d)
       THEN /\ voiceCall' = [voiceCall EXCEPT ![c].pc = "chain", ![c].dir = d, ![c].with = provider.recognizer]
            /\ voicePast' = [voicePast EXCEPT !.mixed = @ \/ provider.loading # 0]
            /\ UNCHANGED <<provider, loads>>
     ELSE IF provider.loading # 0 /\ provider.key = d
       THEN waits(provider.loading) /\ UNCHANGED <<provider, loads, voicePast>>
     ELSE /\ Len(loads) < MaxLoads
          /\ loads' = Append(loads, [of |-> d, open |-> TRUE])
          /\ provider' = [provider EXCEPT !.key = d, !.loading = Len(loads) + 1]
          /\ waits(Len(loads) + 1)
          /\ voicePast' = [voicePast EXCEPT !.mixed = @ \/ \E l \in DOMAIN loads : loads[l].open]
  /\ UNCHANGED <<onDisk, chosenDir, decodes>>

\* createAsync ends: its recognizer becomes the current one, whatever the key is now; who
\* waits for it gets it, or a 503.
LoadEnds(l, ok) ==
  /\ l \in DOMAIN loads /\ loads[l].open
  /\ loads' = [loads EXCEPT ![l].open = FALSE]
  /\ provider' = [provider EXCEPT !.loading = 0, !.recognizer = IF ok THEN loads[l].of ELSE @]
  /\ voiceCall' = [c \in VoiceCall |->
       IF voiceCall[c].load # l THEN voiceCall[c]
       ELSE IF ok THEN [voiceCall[c] EXCEPT !.pc = "chain", !.with = loads[l].of, !.load = 0] ELSE NoVoiceCall]
  /\ voicePast' = [voicePast EXCEPT !.mixed = @ \/ ~ok]
  /\ UNCHANGED <<onDisk, chosenDir, decodes>>

\* decodeChain: one at a time, in the order of arrival; a failure is an empty text.
JoinChain(c) ==
  /\ In(c, {"transcribe"}, "chain")
  /\ decodes' = Append(decodes, c)
  /\ voiceCall' = [voiceCall EXCEPT ![c].pc = "decode"]
  /\ UNCHANGED <<provider, onDisk, chosenDir, loads, voicePast>>

Decoded ==
  /\ decodes # <<>>
  /\ decodes' = Tail(decodes)
  /\ Leaves(Head(decodes))
  /\ UNCHANGED <<provider, onDisk, chosenDir, loads, voicePast>>

-----------------------------------------------------------------------------
\* performDownload: each file is renamed when it is whole.
FileArrives ==
  LET d == provider.target IN
  /\ d # NoDir
  /\ IF provider.file = "model"
       THEN onDisk' = [onDisk EXCEPT ![d].model = TRUE] /\ provider' = [provider EXCEPT !.file = "tokens"]
       ELSE onDisk' = [onDisk EXCEPT ![d].tokens = TRUE] /\ provider' = [provider EXCEPT !.path = d, !.target = NoDir]
  /\ UNCHANGED <<chosenDir, loads, decodes, voiceCall, voicePast>>

\* A failure gives what had arrived, enough or not, the name of the file.
DownloadFails ==
  LET d == provider.target IN
  /\ d # NoDir
  /\ \/ UNCHANGED onDisk
     \/ \E enough \in BOOLEAN :
          onDisk' = IF provider.file = "model" THEN [onDisk EXCEPT ![d].model = enough] ELSE [onDisk EXCEPT ![d].tokens = enough]
  /\ provider' = [provider EXCEPT !.target = NoDir]
  /\ UNCHANGED <<chosenDir, loads, decodes, voiceCall, voicePast>>

VoiceModelNext ==
  \/ \E c \in VoiceCall : BeginVoiceCall(c) \/ ConfigRead(c) \/ SaveConfig(c) \/ GetRecognizer(c) \/ JoinChain(c)
  \/ \E l \in 1..MaxLoads, ok \in BOOLEAN : LoadEnds(l, ok)
  \/ Decoded \/ FileArrives \/ DownloadFails

VoiceModelSpec == VoiceModelInit /\ [][VoiceModelNext]_voiceModelVars

-----------------------------------------------------------------------------
\* A segment is decoded with the recognizer of the directory that was current when it
\* asked for one, however often the directory changes, unless somebody asked while a
\* recognizer was being replaced, or a load failed.  (The key changes before the load, the
\* recognizer after it: meanwhile, and for good after a load that failed or was overtaken
\* by an earlier one, the old recognizer is found under the new key.)
RecognizerFits ==
  \A c \in VoiceCall : voiceCall[c].pc \in {"chain", "decode"} /\ ~voicePast.mixed => voiceCall[c].with = voiceCall[c].dir

\* Who waits for a load waits for one that is under way and of the right directory, and
\* the chain of decodings holds exactly those who wait for it, none twice.
WaitsAreServed ==
  /\ \A c \in VoiceCall : voiceCall[c].load # 0 => loads[voiceCall[c].load] = [of |-> voiceCall[c].dir, open |-> TRUE]
  /\ IsInjective(decodes) /\ ToSet(decodes) = {c \in VoiceCall : In(c, {"transcribe"}, "decode")}

\* In every state of the speech model.
VoiceModelInvariant == VoiceModelTypeOK /\ RecognizerFits /\ WaitsAreServed
=============================================================================
