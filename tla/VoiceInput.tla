------------------------------ MODULE VoiceInput ------------------------------
(***************************************************************************)
(* Speaking instead of typing, in the window                               *)
(* (packages/api-client/src/useAervoxVoiceInput.ts,                        *)
(* voice-input-recorder.ts, the handlers of AervoxWorkbench.vue).  A click *)
(* starts or stops the microphone; a recorder cuts what it hears into      *)
(* segments; each segment is sent to be transcribed.  Steps meet at the    *)
(* awaits: the configuration, the user's leave to use the microphone, and  *)
(* the transcription.  The recorder's own error callback is never called.  *)
(***************************************************************************)
EXTENDS Naturals, Sequences, FiniteSets, SequencesExt

CONSTANTS
  Click,         \* clicks whose configuration is on its way at once
  PreRoll,       \* frames kept from before speech: 250 ms are one frame of 4096 samples
  Shortest,      \* frames a segment must have: more than 0.3 s are two
  MaxRecorders,  \* bound: recorders
  MaxHeard       \* bound: frames heard

\* flushSegment throws away less than 0.3 s, and a frame is 256 ms.
ASSUME VoiceAssumption ==
  /\ {PreRoll, Shortest, MaxRecorders, MaxHeard} \subseteq Nat
  /\ Shortest <= 2

VARIABLES
  mic,        \* isListening, isTranscribing, and the recorder startListening made last
  recorders,  \* all recorders, the oldest first
  toggles,    \* the clicks that wait for the configuration
  segments,   \* the segments sent: recorder, frames, and whether the answer is awaited
  sound       \* frames so far, those that were speech, those thrown away, and whether two starts met

voiceVars == <<mic, recorders, toggles, segments, sound>>

Recorder == 1..MaxRecorders
Frame == 1..MaxHeard
RecorderType == [pc : {"asking", "on", "off", "refused", "broken"}, speaking : BOOLEAN, silence : BOOLEAN,
                 before : Seq(Frame), chunks : Seq(Frame)]
SegmentType == [by : Recorder, frames : Seq(Frame), open : BOOLEAN]
NewRecorder == [pc |-> "asking", speaking |-> FALSE, silence |-> FALSE, before |-> <<>>, chunks |-> <<>>]

VoiceTypeOK ==
  /\ mic \in [listening : BOOLEAN, transcribing : BOOLEAN, recorder : 0..MaxRecorders]
  /\ recorders \in Seq(RecorderType)
  /\ toggles \in SUBSET Click
  /\ segments \in Seq(SegmentType)
  /\ sound \in [frames : 0..MaxHeard, speech : [Recorder -> SUBSET Frame], lost : [Recorder -> SUBSET Frame], met : BOOLEAN]

VoiceInit ==
  /\ mic = [listening |-> FALSE, transcribing |-> FALSE, recorder |-> 0]
  /\ recorders = <<>> /\ toggles = {} /\ segments = <<>>
  /\ sound = [frames |-> 0, speech |-> [r \in Recorder |-> {}], lost |-> [r \in Recorder |-> {}], met |-> FALSE]

-----------------------------------------------------------------------------
On == {r \in DOMAIN recorders : recorders[r].pc = "on"}
Microphones == {r \in DOMAIN recorders : recorders[r].pc \in {"on", "broken"}}
Waiting == {r \in DOMAIN recorders : recorders[r].pc = "asking"}
LastFrames(s, n) == SubSeq(s, Len(s) - Min({n, Len(s)}) + 1, Len(s))

\* flushSegment of r, and what its callback does before its await: nothing is sent of a
\* segment that is too short.
LongEnough(chunks) == Len(chunks) >= Shortest
Flush(r) ==
  IF LongEnough(recorders[r].chunks)
    THEN segments' = Append(segments, [by |-> r, frames |-> recorders[r].chunks, open |-> TRUE]) /\ UNCHANGED sound
    ELSE UNCHANGED segments /\ sound' = [sound EXCEPT !.lost[r] = @ \cup ToSet(recorders[r].chunks)]

-----------------------------------------------------------------------------
\* toggleVoiceInput while nobody listens: getInputConfig.
Toggle(t) ==
  /\ t \notin toggles /\ ~mic.listening
  /\ toggles' = toggles \cup {t}
  /\ UNCHANGED <<mic, recorders, segments, sound>>

ConfigFails(t) ==
  /\ t \in toggles
  /\ toggles' = toggles \ {t}
  /\ UNCHANGED <<mic, recorders, segments, sound>>

\* startListening: a new recorder takes the place of the last one and asks for the microphone.
StartListening(t) ==
  /\ t \in toggles
  /\ toggles' = toggles \ {t}
  /\ IF mic.listening
       THEN UNCHANGED <<mic, recorders, sound>>
       ELSE /\ Len(recorders) < MaxRecorders
            /\ recorders' = Append(recorders, NewRecorder)
            /\ mic' = [mic EXCEPT !.recorder = Len(recorders) + 1]
            /\ sound' = [sound EXCEPT !.met = @ \/ Waiting # {}]
  /\ UNCHANGED segments

\* start goes on when the microphone is granted, and startListening after it.
MicrophoneGranted(r) ==
  /\ r \in Waiting
  /\ recorders' = [recorders EXCEPT ![r].pc = "on"]
  /\ mic' = [mic EXCEPT !.listening = TRUE]
  /\ UNCHANGED <<toggles, segments, sound>>

\* Or the audio context, a node or a connection throws after it: start leaves the tracks of
\* the microphone running and isRunning unset, so that no frame is heard and no stop ends it.
SetUpFails(r) ==
  /\ r \in Waiting
  /\ recorders' = [recorders EXCEPT ![r].pc = "broken"]
  /\ mic' = [mic EXCEPT !.listening = FALSE]
  /\ UNCHANGED <<toggles, segments, sound>>

MicrophoneRefused(r) ==
  /\ r \in Waiting
  /\ recorders' = [recorders EXCEPT ![r].pc = "refused"]
  /\ mic' = [mic EXCEPT !.listening = FALSE]
  /\ UNCHANGED <<toggles, segments, sound>>

\* A click, a key, Enter or the closed composer; each looks at isListening first.  The
\* stop of a recorder that is not on does nothing, and it is forgotten all the same.
StopListening ==
  LET r == mic.recorder
      cuts == r \in On /\ recorders[r].speaking /\ recorders[r].chunks # <<>>
  IN
  /\ mic.listening
  /\ IF cuts THEN Flush(r) ELSE UNCHANGED <<segments, sound>>
  /\ mic' = [mic EXCEPT !.listening = FALSE, !.recorder = 0,
                        !.transcribing = @ \/ (cuts /\ LongEnough(recorders[r].chunks))]
  /\ recorders' = IF r \in On THEN [recorders EXCEPT ![r] = [NewRecorder EXCEPT !.pc = "off"]] ELSE recorders
  /\ UNCHANGED toggles

-----------------------------------------------------------------------------
\* processAudioFrame: speech, and silence while speaking, is kept; other silence is kept
\* for a moment in case speech follows.
HearFrame(r, loud) ==
  LET f == sound.frames + 1
      rec == recorders[r]
      speaks == loud /\ ~rec.speaking
  IN
  /\ r \in On /\ sound.frames < MaxHeard
  /\ recorders' = [recorders EXCEPT ![r] =
       IF loud \/ rec.speaking
         THEN [rec EXCEPT !.speaking = TRUE, !.silence = ~loud,
                          !.before = IF speaks THEN <<>> ELSE rec.before,
                          !.chunks = rec.chunks \o (IF speaks THEN rec.before ELSE <<>>) \o <<f>>]
         ELSE [rec EXCEPT !.before = LastFrames(Append(rec.before, f), PreRoll)]]
  /\ sound' = [sound EXCEPT !.frames = f, !.speech[r] = IF loud THEN @ \cup {f} ELSE @]
  /\ UNCHANGED <<mic, toggles, segments>>

\* The timer that the first silent frame set.
SilenceEnds(r) ==
  /\ r \in On /\ recorders[r].silence
  /\ Flush(r)
  /\ mic' = [mic EXCEPT !.transcribing = @ \/ LongEnough(recorders[r].chunks)]
  /\ recorders' = [recorders EXCEPT ![r].chunks = <<>>, ![r].speaking = FALSE, ![r].silence = FALSE]
  /\ UNCHANGED toggles

\* transcribeAudio returns a text, none, or an error.
Transcribed(s) ==
  /\ s \in DOMAIN segments /\ segments[s].open
  /\ segments' = [segments EXCEPT ![s].open = FALSE]
  /\ mic' = [mic EXCEPT !.transcribing = FALSE]
  /\ UNCHANGED <<recorders, toggles, sound>>

VoiceNext ==
  \/ \E t \in Click : Toggle(t) \/ ConfigFails(t) \/ StartListening(t)
  \/ \E r \in Recorder : \/ MicrophoneGranted(r) \/ SetUpFails(r) \/ MicrophoneRefused(r) \/ SilenceEnds(r)
                         \/ \E loud \in BOOLEAN : HearFrame(r, loud)
  \/ StopListening
  \/ \E s \in Frame : Transcribed(s)

VoiceSpec == VoiceInit /\ [][VoiceNext]_voiceVars

-----------------------------------------------------------------------------
\* Sound is heard exactly while the window says so, by the recorder a stop would reach, and
\* any other microphone that is on is that of a recorder whose set-up failed, which hears
\* nothing; unless two starts waited for the user's leave at once.  (A microphone whose
\* set-up failed stays on, no click turns it off, and the window says it is off.  Of two
\* starts the second takes the place of the first, or a stop forgets the one still waiting:
\* a microphone then stays on, and hears.)
MicrophoneIsHeld ==
  ~sound.met =>
    /\ On = IF mic.listening THEN {mic.recorder} ELSE {}
    /\ \A r \in Microphones : recorders[r].pc = "broken" \/ (mic.listening /\ r = mic.recorder)

\* All speech is sent or about to be, in order and once; what is thrown away as too short
\* is a single frame, the last before a stop.
Rising(q) == \A i, j \in DOMAIN q : i < j => q[i] < q[j]
Precedes(p, q) == \A i \in DOMAIN p, j \in DOMAIN q : p[i] < q[j]
SentBy(r) == {s \in DOMAIN segments : segments[s].by = r}
SentFrames(r) == UNION {ToSet(segments[s].frames) : s \in SentBy(r)}
SpeechIsCut ==
  \A r \in DOMAIN recorders :
    LET chunks == recorders[r].chunks
        kept == SentFrames(r) \cup ToSet(chunks)
    IN
    /\ sound.speech[r] \subseteq kept \cup sound.lost[r]
    /\ Rising(chunks)
    /\ \A s \in SentBy(r) :
         /\ Rising(segments[s].frames) /\ Precedes(segments[s].frames, chunks)
         /\ \A t \in SentBy(r) : s < t => Precedes(segments[s].frames, segments[t].frames)
    /\ sound.lost[r] # {} => recorders[r].pc = "off" /\ Cardinality(sound.lost[r]) = 1

\* The sign of a transcription goes out with the last answer at the latest.  (With two
\* awaited it goes out with the first.)
SignGoesOut == mic.transcribing => \E s \in DOMAIN segments : segments[s].open

\* In every state of the voice input.
VoiceInvariant == VoiceTypeOK /\ MicrophoneIsHeld /\ SpeechIsCut /\ SignGoesOut
=============================================================================
