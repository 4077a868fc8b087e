--------------------------- MODULE MCConversation ---------------------------
(* What the user's window meets: the reader of the event stream, a         *)
(* question and its answers, the workbench itself, the scan of the          *)
(* directories the user selected, and the microphone.  They share no state *)
(* here, so a behaviour is one of them, chosen at the start.               *)
EXTENDS TurnDelivery, UserQuestion, Workbench, FileScan, VoiceInput

CONSTANTS api, page, first, second

\* One reader beside one executor: readers do not see each other, and of the
\* writers they see the stream and the status only.
MCExecutor == {api}
MCReader   == {page}

\* An answer and a double click on it.
MCSubmit == {first, second}

\* A home with two selected directories, one within the other; files whose names begin
\* with two dots, and a link that leads out to <<9>>.
Here(kind) == [kind |-> kind, to |-> <<9>>, open |-> TRUE]
MCDirs == {<<1>>, <<1, 2>>, <<1, 2, 3>>, <<1, 2, 3, 4>>, <<9>>}
MCFiles == {<<1, 2, DotDot>>, <<1, 2, 3, DotDot>>, <<1, 2, 3, 4, 6>>, <<9, 3>>, <<9, 4>>}
MCLink == <<1, 2, 5>>
MCPlace == MCDirs \cup MCFiles \cup {MCLink}
MCTree == [p \in MCPlace |-> Here(IF p \in MCDirs THEN "dir" ELSE IF p = MCLink THEN "link" ELSE "file")]
MCConfigured == << <<1, 2>>, <<1, 2, 3>> >>
MCAsks == {<<>>, << <<1, 2, 3>>, <<9>> >>, << <<1, 2, 3, 4>> >>}
MCSwap == {<< <<1, 2, 3>>, Here("link") >>, << <<1, 2>>, Here("link") >>, << <<1, 2, 3>>, Here("gone") >>,
           << <<1, 2, 3>>, [Here("dir") EXCEPT !.open = FALSE] >>, << MCLink, Here("dir") >>}

VARIABLE part

conversationVars == <<part, deliveryVars, questionVars, workbenchVars, scanVars, voiceVars>>

ConversationInit ==
  /\ part \in {"delivery", "question", "workbench", "scan", "voice"}
  /\ DeliveryInit /\ QuestionInit /\ WorkbenchInit /\ FileScanInit
  /\ VoiceInit
  /\ part # "workbench" => ~desktop /\ ~attached
  /\ part # "scan" => scan.asked = <<>>

ConversationNext ==
  \/ part = "delivery" /\ DeliveryNext /\ UNCHANGED <<part, questionVars, workbenchVars, scanVars, voiceVars>>
  \/ part = "question" /\ QuestionNext /\ UNCHANGED <<part, deliveryVars, workbenchVars, scanVars, voiceVars>>
  \/ part = "workbench" /\ WorkbenchNext /\ UNCHANGED <<part, deliveryVars, questionVars, scanVars, voiceVars>>
  \/ part = "scan" /\ FileScanNext /\ UNCHANGED <<part, deliveryVars, questionVars, workbenchVars, voiceVars>>
  \/ part = "voice" /\ VoiceNext /\ UNCHANGED <<part, deliveryVars, questionVars, workbenchVars, scanVars>>

(* The fairness of each part, for the part that runs.                      *)
ConversationFairness ==
  /\ \A r \in Reader : /\ WF_deliveryVars(part = "delivery" /\ Handler(r))
                       /\ WF_deliveryVars(part = "delivery" /\ TimeUp(r))
  /\ WF_questionVars(part = "question" /\ (Publish \/ Store \/ Wait))
  /\ WF_questionVars(part = "question" /\ TimePasses)
  /\ WF_questionVars(part = "question" /\ ToolTimesOut)
  /\ \A s \in Sends : WF_workbenchVars(part = "workbench" /\ IdleTimeout(s))
  /\ WF_scanVars(part = "scan" /\ ScanStep)

ConversationSpec == ConversationInit /\ [][ConversationNext]_conversationVars /\ ConversationFairness

-----------------------------------------------------------------------------
(* What the window shows of a Turn: the stream in order and, once it is    *)
(* settled, up to its ending; and what the microphone hears.                *)
WindowInvariant ==
  /\ WorkbenchTypeOK /\ DeliveryTypeOK /\ DeliveredInOrder /\ TailDeliversTheEnding
  /\ VoiceInvariant

(* Nothing the user waits for hangs: connections of the event stream end,  *)
(* a published question comes to an end, the composer is freed, a scan of  *)
(* the selected directories is over some time.                             *)
NothingHangs ==
  ConnectionEnds /\ AskEnds /\ ComposerIsFreed /\ (part = "scan" => ScanEnds)
=============================================================================
