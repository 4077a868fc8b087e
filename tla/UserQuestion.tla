---------------------------- MODULE UserQuestion ----------------------------
(***************************************************************************)
(* One question to the user (user-question-coordinator.ts): the tool call  *)
(* publishes it, stores it and waits; answers are posted over HTTP and     *)
(* find it in memory or, after a restart, in pending_user_questions.       *)
(* Handlers interleave at every await.  There is one question per Turn:    *)
(* its event takes the sequence number the executor would use next, so the *)
(* run ends there (TurnExecution, AnswerIsUsed).                           *)
(***************************************************************************)
EXTENDS Naturals, Sequences, SequencesExt

CONSTANTS
  Submit,    \* posted answers, duplicates of one another
  MaxOther   \* bound: events of other writers

ASSUME QuestionAssumption == MaxOther \in Nat /\ Submit \cap {"required", "other"} = {}

VARIABLES
  ask,      \* where handleAsk is
  seen,     \* the length of the stream it counted
  result,   \* what the tool call came to; "open" as long as it waits
  by,       \* the answer that resolved it
  aborted,  \* its signal
  session,  \* whether pendingByTurn has the Turn
  timer,    \* its timer: "off", "armed", or the handler's place once it fired
  stored,   \* whether pending_user_questions has the Turn's row
  late,     \* whether the row's expiresAt has passed
  stream,   \* turn_stream_events: an answer is named by its submit
  submit,   \* the handler of each posted answer
  restarted \* whether the process died

askVars      == <<ask, seen, result, by, aborted>>
questionVars == <<askVars, session, timer, stored, late, stream, submit, restarted>>

Nobody == "nobody"
InFlight == {"lookup", "load", "drop", "count", "append", "clean", "resolve"}

SubmitType == [pc : InFlight \cup {"new", "accepted", "refused", "failed"},
               memory : BOOLEAN, seen : Nat, late : BOOLEAN]

QuestionTypeOK ==
  /\ ask \in {"idle", "append", "store", "wait", "waiting", "over"}
  /\ seen \in Nat
  /\ result \in {"open", "answered", "defaulted", "rejected", "lost"}
  /\ by \in Submit \cup {Nobody}
  /\ aborted \in BOOLEAN /\ session \in BOOLEAN
  /\ timer \in {"off", "armed", "fired", "deleted"}
  /\ stored \in BOOLEAN /\ late \in BOOLEAN
  /\ stream \in Seq(Submit \cup {"required", "other"})
  /\ submit \in [Submit -> SubmitType]
  /\ restarted \in BOOLEAN

QuestionInit ==
  /\ ask = "idle" /\ seen = 0 /\ result = "open" /\ by = Nobody /\ aborted = FALSE
  /\ session = FALSE /\ timer = "off" /\ stored = FALSE /\ late = FALSE
  /\ stream = <<>>
  /\ submit = [s \in Submit |-> [pc |-> "new", memory |-> FALSE, seen |-> 0, late |-> FALSE]]
  /\ restarted = FALSE

-----------------------------------------------------------------------------
(* handleAsk *)

Reject == result' = IF result = "open" THEN "rejected" ELSE result

Ask ==
  /\ ask = "idle" /\ result = "open"
  /\ ask' = "append" /\ seen' = Len(stream)
  /\ UNCHANGED <<result, by, aborted, session, timer, stored, late, stream, submit, restarted>>

(* user_question_required, numbered after what was counted; a taken number *)
(* fails the tool call.                                                    *)
Publish ==
  /\ ask = "append"
  /\ IF seen = Len(stream)
     THEN stream' = Append(stream, "required") /\ ask' = "store" /\ UNCHANGED result
     ELSE ask' = "over" /\ Reject /\ UNCHANGED stream
  /\ UNCHANGED <<seen, by, aborted, session, timer, stored, late, submit, restarted>>

(* upsertPending; expiresAt is computed just before. *)
Store ==
  /\ ask = "store"
  /\ ask' = "wait" /\ stored' = TRUE
  /\ UNCHANGED <<seen, result, by, aborted, session, timer, late, stream, submit, restarted>>

(* The promise's executor: an abort that came meanwhile ends the question, *)
(* otherwise the session and its timer are set up.                         *)
Wait ==
  /\ ask = "wait"
  /\ IF aborted
     THEN ask' = "over" /\ stored' \in {stored, FALSE} /\ Reject /\ UNCHANGED <<session, timer>>
     ELSE ask' = "waiting" /\ session' = TRUE /\ timer' = "armed" /\ UNCHANGED <<stored, result>>
  /\ UNCHANGED <<seen, by, aborted, late, stream, submit, restarted>>

(* onAbort, listened to while the question waits and until its timer fires; *)
(* nobody waits for the row's deletion, which may fail.                    *)
CancelPending ==
  IF ask = "waiting" /\ timer \in {"off", "armed"}
  THEN session' = FALSE /\ timer' = "off" /\ stored' \in {stored, FALSE} /\ ask' = "over"
  ELSE UNCHANGED <<session, timer, stored, ask>>

(* The heartbeat finds the lease lost: the signal is aborted.  A question  *)
(* already published and waiting is rejected, one still being set up later. *)
LeaseLost ==
  /\ ask \in {"append", "store", "wait", "waiting"} /\ ~aborted
  /\ aborted' = TRUE
  /\ CancelPending
  /\ IF ask = "waiting" /\ timer \in {"off", "armed"} THEN Reject ELSE UNCHANGED result
  /\ UNCHANGED <<seen, by, late, stream, submit, restarted>>

(* The tool's own, longer timeout: it rejects the call whatever the        *)
(* coordinator does, and aborts it.                                        *)
ToolTimesOut ==
  /\ ask # "idle" /\ result = "open" /\ late
  /\ result' = "rejected" /\ aborted' = TRUE
  /\ CancelPending
  /\ UNCHANGED <<seen, by, late, stream, submit, restarted>>

(* The timer's handler: the session goes first ... *)
TimerFires ==
  /\ timer = "armed" /\ late
  /\ timer' = "fired" /\ session' = FALSE
  /\ UNCHANGED <<askVars, stored, late, stream, submit, restarted>>

(* ... then the row (a failure is swallowed) ...                           *)
TimerDeletes ==
  /\ timer = "fired"
  /\ timer' = "deleted" /\ stored' \in {stored, FALSE}
  /\ UNCHANGED <<askVars, session, late, stream, submit, restarted>>

(* ... then the call: default answers if every question has options. *)
TimerSettles ==
  /\ timer = "deleted"
  /\ timer' = "off" /\ ask' = "over"
  /\ IF result = "open" THEN result' \in {"defaulted", "rejected"} ELSE UNCHANGED result
  /\ UNCHANGED <<seen, by, aborted, session, stored, late, stream, submit, restarted>>

-----------------------------------------------------------------------------
(* submitAnswers *)

At(s, place) == submit[s].pc = place
Goto(s, place) == submit' = [submit EXCEPT ![s].pc = place]

Answered == \E s \in Submit : Contains(stream, s)

(* A session in memory is taken out, with its timer, before the first await. *)
Begin(s) ==
  /\ At(s, "new") /\ ask # "idle"
  /\ submit' = [submit EXCEPT ![s] =
       [@ EXCEPT !.pc = IF session THEN "count" ELSE "lookup", !.memory = session, !.late = late]]
  /\ session' = FALSE
  /\ timer' = IF session THEN "off" ELSE timer
  /\ UNCHANGED <<askVars, stored, late, stream, restarted>>

(* hasAnswered: a repeated submission is accepted as it is. *)
LookUp(s) ==
  /\ At(s, "lookup")
  /\ Goto(s, IF Answered THEN "accepted" ELSE "load")
  /\ UNCHANGED <<askVars, session, timer, stored, late, stream, restarted>>

(* getPending: no row, an expired row or one to answer. *)
Load(s) ==
  /\ At(s, "load")
  /\ Goto(s, IF ~stored THEN "refused" ELSE IF late THEN "drop" ELSE "count")
  /\ UNCHANGED <<askVars, session, timer, stored, late, stream, restarted>>

Drop(s) ==
  /\ At(s, "drop")
  /\ Goto(s, "refused") /\ stored' \in {stored, FALSE}
  /\ UNCHANGED <<askVars, session, timer, late, stream, restarted>>

(* writeAnsweredEvent counts the stream ...                                *)
CountEvents(s) ==
  /\ At(s, "count")
  /\ submit' = [submit EXCEPT ![s] = [@ EXCEPT !.pc = "append", !.seen = Len(stream)]]
  /\ UNCHANGED <<askVars, session, timer, stored, late, stream, restarted>>

WriteSwallowed(s) ==
  /\ At(s, "append")
  /\ Goto(s, "clean")
  /\ stream' = IF submit[s].seen = Len(stream) THEN Append(stream, s) ELSE stream
  /\ UNCHANGED <<askVars, session, timer, stored, late, restarted>>

(* ... and appends under the next number, or throws if it was taken.       *)
Write(s) ==
  /\ At(s, "append")
  /\ IF submit[s].seen = Len(stream)
     THEN stream' = Append(stream, s) /\ Goto(s, "clean")
     ELSE Goto(s, "failed") /\ UNCHANGED stream
  /\ UNCHANGED <<askVars, session, timer, stored, late, restarted>>

(* deletePending; a failure is swallowed. *)
Clean(s) ==
  /\ At(s, "clean")
  /\ Goto(s, "resolve") /\ stored' \in {stored, FALSE}
  /\ UNCHANGED <<askVars, session, timer, late, stream, restarted>>

(* The waiting call gets the answers, if they were found in memory and it  *)
(* is still waiting; the client is told they are accepted in any case.     *)
Resolve(s) ==
  /\ At(s, "resolve")
  /\ Goto(s, "accepted")
  /\ IF submit[s].memory /\ result = "open" THEN result' = "answered" /\ by' = s /\ ask' = "over"
     ELSE UNCHANGED <<result, by, ask>>
  /\ UNCHANGED <<seen, aborted, session, timer, stored, late, stream, restarted>>

-----------------------------------------------------------------------------
(* expiresAt passes. *)
TimePasses ==
  /\ ask \in {"wait", "waiting", "over"} /\ ~late
  /\ late' = TRUE
  /\ UNCHANGED <<askVars, session, timer, stored, stream, submit, restarted>>

(* GET .../questions/pending deletes an expired row it comes across. *)
Look ==
  /\ ~session /\ stored /\ late
  /\ stored' = FALSE
  /\ UNCHANGED <<askVars, session, timer, late, stream, submit, restarted>>

(* Another event of the Turn. *)
Other ==
  /\ Len(SelectSeq(stream, LAMBDA e : e = "other")) < MaxOther
  /\ stream' = Append(stream, "other")
  /\ UNCHANGED <<askVars, session, timer, stored, late, submit, restarted>>

(* The API process dies and is started again: rows and events remain.      *)
Restart ==
  /\ ask # "idle" /\ ~restarted
  /\ restarted' = TRUE
  /\ ask' = "over" /\ result' = IF result = "open" THEN "lost" ELSE result
  /\ session' = FALSE /\ timer' = "off"
  /\ submit' = [s \in Submit |-> IF submit[s].pc \in InFlight
                                 THEN [submit[s] EXCEPT !.pc = "failed"] ELSE submit[s]]
  /\ UNCHANGED <<seen, by, aborted, stored, late, stream>>

Asking == Ask \/ Publish \/ Store \/ Wait \/ TimerFires \/ TimerDeletes \/ TimerSettles

Submission(s) ==
  Begin(s) \/ LookUp(s) \/ Load(s) \/ Drop(s) \/ CountEvents(s) \/ Write(s) \/ Clean(s)
  \/ Resolve(s)

QuestionNext ==
  \/ Asking \/ LeaseLost \/ ToolTimesOut
  \/ \E s \in Submit : Submission(s)
  \/ TimePasses \/ Look \/ Other \/ Restart

QuestionSpec == QuestionInit /\ [][QuestionNext]_questionVars

(* Timers of a live process fire and its statements return; nobody has to  *)
(* answer, and an answer once posted need not get anywhere.                *)
QuestionFairness ==
  /\ WF_questionVars(Publish \/ Store \/ Wait)
  /\ WF_questionVars(TimePasses)
  /\ WF_questionVars(ToolTimesOut)

-----------------------------------------------------------------------------
(* The model goes on only with an answer that is in the stream: it is      *)
(* recorded before the call is resolved.                                   *)
AnswerIsRecorded == result = "answered" => Contains(stream, by)

(* A client that was told "accepted" finds an answer in the stream,        *)
(* whatever else was written while its own was.                            *)
AcceptedIsRecorded == \A s \in Submit : At(s, "accepted") => Answered

(* Expiry survives a restart: an answer that arrives too late and finds no *)
(* session is never recorded.                                              *)
LateIsRefused ==
  \A s \in Submit : submit[s].late /\ ~submit[s].memory => ~Contains(stream, s)

(* A session in memory belongs to a call that is still waiting: no answer  *)
(* is handed to a question that was aborted, timed out or answered.        *)
SessionIsLive == session => result = "open" /\ ask = "waiting" /\ timer = "armed"

(* A published question comes to an end, even if the answer that took it   *)
(* out of memory and stopped its timer fails to be written.                *)
AskEnds == ask # "idle" ~> result # "open"

(* In every state of a question: who may answer, and what is recorded.     *)
QuestionInvariant ==
  QuestionTypeOK /\ AnswerIsRecorded /\ AcceptedIsRecorded /\ LateIsRefused /\ SessionIsLive
=============================================================================
