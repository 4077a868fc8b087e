-------------------------- MODULE ConversationProofs --------------------------
(***************************************************************************)
(* What the window of the user meets.                                      *)
(***************************************************************************)
EXTENDS MCConversation, AttemptStoreProofs, FiniteSetTheorems

-----------------------------------------------------------------------------
(* A question.  That a session belongs to a call that still waits is not   *)
(* inductive: it has to be known that a call being set up is open unless   *)
(* it was aborted, that an answer found its session in memory took it out, *)
(* how far an answer has come when it is recorded, and that one that came  *)
(* late without a session never gets past the row.                         *)
SetUpIsOpen == ask \in {"idle", "append", "store", "wait"} => aborted \/ result = "open"

AnswerIsFounded(s) ==
  /\ submit[s].memory => ~session /\ ask \in {"waiting", "over"}
  /\ submit[s].pc \in {"clean", "resolve"} => Contains(stream, s)
  /\ Contains(stream, s) => submit[s].pc \in {"clean", "resolve", "accepted", "failed"}
  /\ submit[s].late => late
  /\ submit[s].late /\ ~submit[s].memory => submit[s].pc \notin {"count", "append", "clean", "resolve"}

QuestionInv ==
  /\ QuestionInvariant /\ SetUpIsOpen
  /\ result = "answered" => by \in Submit
  /\ \A s \in Submit : AnswerIsFounded(s)

\* What was in the stream is in it, and one event more.
LEMMA StreamGrows ==
  ASSUME NEW S, NEW q \in Seq(S), NEW x \in S
  PROVE  /\ Append(q, x) \in Seq(S)
         /\ \A e : Contains(Append(q, x), e) <=> Contains(q, e) \/ e = x
<1>1. Append(q, x) \in Seq(S) /\ Len(Append(q, x)) = Len(q) + 1 /\ Len(q) \in Nat
  OBVIOUS
<1>2. Append(q, x)[Len(q) + 1] = x /\ \A i \in 1..Len(q) : Append(q, x)[i] = q[i]
  OBVIOUS
<1>3. ASSUME NEW e PROVE Contains(Append(q, x), e) <=> Contains(q, e) \/ e = x
  <2>1. ASSUME Contains(Append(q, x), e) PROVE Contains(q, e) \/ e = x
    <3>1. PICK i \in 1..(Len(q) + 1) : Append(q, x)[i] = e
      BY <1>1, <2>1 DEF Contains
    <3>2. i \in 1..Len(q) \/ i = Len(q) + 1
      BY <1>1
    <3> QED
      BY <1>2, <3>1, <3>2 DEF Contains
  <2>2. ASSUME Contains(q, e) PROVE Contains(Append(q, x), e)
    <3>1. PICK i \in 1..Len(q) : q[i] = e
      BY <2>2 DEF Contains
    <3>2. i \in 1..(Len(q) + 1)
      BY <1>1
    <3> QED
      BY <1>1, <1>2, <3>1, <3>2 DEF Contains
  <2>3. ASSUME e = x PROVE Contains(Append(q, x), e)
    <3>1. Len(q) + 1 \in 1..Len(Append(q, x))
      BY <1>1
    <3> QED
      BY <1>2, <2>3, <3>1 DEF Contains
  <2> QED
    BY <2>1, <2>2, <2>3
<1> QED
  BY <1>1, <1>3

LEMMA QuestionInitInv == QuestionInit => QuestionInv
<1> SUFFICES ASSUME QuestionInit PROVE QuestionInv
  OBVIOUS
<1>1. QuestionTypeOK
  <2>1. [pc |-> "new", memory |-> FALSE, seen |-> 0, late |-> FALSE] \in SubmitType
    BY DEF SubmitType
  <2>2. submit \in [Submit -> SubmitType]
    BY <2>1 DEF QuestionInit
  <2>3. stream \in Seq(Submit \cup {"required", "other"})
    BY DEF QuestionInit
  <2> QED
    BY <2>2, <2>3 DEF QuestionInit, QuestionTypeOK, Nobody
<1>2. \A e : ~Contains(stream, e)
  BY DEF QuestionInit, Contains
<1>3. \A s \in Submit : submit[s] = [pc |-> "new", memory |-> FALSE, seen |-> 0, late |-> FALSE]
  BY DEF QuestionInit
<1>4. \A s \in Submit : AnswerIsFounded(s)
  BY <1>2, <1>3 DEF AnswerIsFounded
<1>5. AnswerIsRecorded /\ SessionIsLive /\ SetUpIsOpen /\ result # "answered"
  BY DEF QuestionInit, AnswerIsRecorded, SessionIsLive, SetUpIsOpen
<1>6. AcceptedIsRecorded /\ LateIsRefused
  BY <1>2, <1>3 DEF AcceptedIsRecorded, LateIsRefused, At
<1> QED
  BY <1>1, <1>4, <1>5, <1>6 DEF QuestionInv, QuestionInvariant

\* The call's own steps leave the answers alone, and of the stream they make none of them.
LEMMA QuestionCallMoves ==
  ASSUME QuestionInv, QuestionTypeOK', SetUpIsOpen', SessionIsLive',
         submit' = submit, late => late', by' = by,
         \A s \in Submit : Contains(stream', s) <=> Contains(stream, s),
         result' = "answered" => result = "answered",
         ask \in {"waiting", "over"} => ask' \in {"waiting", "over"},
         session' => session \/ ask = "wait"
  PROVE  QuestionInv'
<1>1. AnswerIsRecorded' /\ (result' = "answered" => by' \in Submit)
  BY DEF QuestionInv, QuestionInvariant, AnswerIsRecorded
<1>2. Answered <=> Answered'
  BY DEF Answered
<1>3. AcceptedIsRecorded'
  BY <1>2 DEF QuestionInv, QuestionInvariant, AcceptedIsRecorded, At
<1>4. LateIsRefused'
  BY DEF QuestionInv, QuestionInvariant, LateIsRefused
<1>5. ASSUME NEW s \in Submit PROVE AnswerIsFounded(s)'
  BY DEF QuestionInv, AnswerIsFounded
<1> QED
  BY <1>1, <1>3, <1>4, <1>5 DEF QuestionInv, QuestionInvariant

\* A step of one answer leaves the others alone, and takes nothing out of the stream.
LEMMA QuestionAnswerMoves ==
  ASSUME QuestionInv, QuestionTypeOK', SetUpIsOpen', SessionIsLive', AnswerIsRecorded',
         result' = "answered" => by' \in Submit,
         late' = late, session' => session,
         ask \in {"waiting", "over"} => ask' \in {"waiting", "over"},
         NEW s \in Submit, AnswerIsFounded(s)',
         submit'[s].late /\ ~submit'[s].memory => ~Contains(stream', s),
         submit'[s].pc = "accepted" => Answered \/ Contains(stream', s),
         \A t \in Submit : Contains(stream, t) => Contains(stream', t),
         \A t \in Submit : t # s => submit'[t] = submit[t] /\ (Contains(stream', t) => Contains(stream, t))
  PROVE  QuestionInv'
<1>1. Answered => Answered'
  BY DEF Answered
<1>2. submit'[s].pc = "accepted" => Answered'
  BY <1>1 DEF Answered
<1>3. AcceptedIsRecorded'
  BY <1>1, <1>2 DEF QuestionInv, QuestionInvariant, AcceptedIsRecorded, At
<1>4. LateIsRefused'
  BY DEF QuestionInv, QuestionInvariant, LateIsRefused
<1>5. ASSUME NEW t \in Submit PROVE AnswerIsFounded(t)'
  BY DEF QuestionInv, AnswerIsFounded
<1> QED
  BY <1>3, <1>4, <1>5 DEF QuestionInv, QuestionInvariant

LEMMA QuestionAskStep == ASSUME QuestionInv, Ask PROVE QuestionInv'
<1>1. /\ ask = "idle" /\ ask' = "append" /\ seen' = Len(stream)
      /\ UNCHANGED <<result, by, aborted, session, timer, stored, late, stream, submit, restarted>>
  BY DEF Ask
<1>2. QuestionTypeOK
  BY DEF QuestionInv, QuestionInvariant
<1>3. QuestionTypeOK'
  <2>1. seen' \in Nat
    BY <1>1, <1>2 DEF QuestionTypeOK
  <2> QED
    BY <1>1, <1>2, <2>1 DEF QuestionTypeOK
<1>4. SetUpIsOpen' /\ SessionIsLive'
  BY <1>1 DEF QuestionInv, QuestionInvariant, SetUpIsOpen, SessionIsLive
<1> QED
  BY <1>1, <1>3, <1>4, QuestionCallMoves

LEMMA QuestionPublishStep == ASSUME QuestionInv, Publish PROVE QuestionInv'
<1>1. /\ ask = "append" /\ UNCHANGED <<seen, by, aborted, session, timer, stored, late, submit, restarted>>
  BY DEF Publish
<1>2. QuestionTypeOK /\ stream \in Seq(Submit \cup {"required", "other"}) /\ "required" \notin Submit
  BY QuestionAssumption DEF QuestionInv, QuestionInvariant, QuestionTypeOK
<1>3. \/ stream' = Append(stream, "required") /\ ask' = "store" /\ result' = result
      \/ ask' = "over" /\ stream' = stream /\ result' \in {"rejected", result}
  BY DEF Publish, Reject
<1>4. /\ stream' \in Seq(Submit \cup {"required", "other"})
      /\ \A s \in Submit : Contains(stream', s) <=> Contains(stream, s)
  <2>1. CASE stream' = Append(stream, "required")
    <3>1. "required" \in Submit \cup {"required", "other"}
      OBVIOUS
    <3> QED
      BY <1>2, <2>1, <3>1, StreamGrows
  <2> QED
    BY <1>2, <1>3, <2>1
<1>5. QuestionTypeOK'
  BY <1>1, <1>2, <1>3, <1>4 DEF QuestionTypeOK
<1>6. SetUpIsOpen' /\ SessionIsLive'
  BY <1>1, <1>3 DEF QuestionInv, QuestionInvariant, SetUpIsOpen, SessionIsLive
<1> QED
  BY <1>1, <1>3, <1>4, <1>5, <1>6, QuestionCallMoves

LEMMA QuestionStoreStep == ASSUME QuestionInv, Store PROVE QuestionInv'
<1>1. /\ ask = "store" /\ ask' = "wait" /\ stored' = TRUE
      /\ UNCHANGED <<seen, result, by, aborted, session, timer, late, stream, submit, restarted>>
  BY DEF Store
<1>2. QuestionTypeOK'
  BY <1>1 DEF QuestionInv, QuestionInvariant, QuestionTypeOK
<1>3. SetUpIsOpen' /\ SessionIsLive'
  BY <1>1 DEF QuestionInv, QuestionInvariant, SetUpIsOpen, SessionIsLive
<1> QED
  BY <1>1, <1>2, <1>3, QuestionCallMoves

LEMMA QuestionWaitStep == ASSUME QuestionInv, Wait PROVE QuestionInv'
<1>1. /\ ask = "wait" /\ UNCHANGED <<seen, by, aborted, late, stream, submit, restarted>>
  BY DEF Wait
<1>2. \/ /\ ask' = "over" /\ stored' \in {stored, FALSE} /\ UNCHANGED <<session, timer>>
         /\ result' \in {"rejected", result}
      \/ /\ ~aborted /\ ask' = "waiting" /\ session' = TRUE /\ timer' = "armed" /\ UNCHANGED <<stored, result>>
  BY DEF Wait, Reject
<1>3. QuestionTypeOK'
  <2>1. stored' \in BOOLEAN /\ session' \in BOOLEAN
    BY <1>2 DEF QuestionInv, QuestionInvariant, QuestionTypeOK
  <2> QED
    BY <1>1, <1>2, <2>1, ZenonT(60) DEF QuestionInv, QuestionInvariant, QuestionTypeOK
<1>4. ~session /\ (~aborted => result = "open")
  BY <1>1 DEF QuestionInv, QuestionInvariant, SetUpIsOpen, SessionIsLive
<1>5. SetUpIsOpen' /\ SessionIsLive'
  <2>1. CASE ask' = "over" /\ session' = session
    BY <1>4, <2>1 DEF SetUpIsOpen, SessionIsLive
  <2>2. CASE ~aborted /\ ask' = "waiting" /\ session' = TRUE /\ timer' = "armed" /\ result' = result
    BY <1>4, <2>2 DEF SetUpIsOpen, SessionIsLive
  <2> QED
    BY <1>2, <2>1, <2>2
<1> QED
  BY <1>1, <1>2, <1>3, <1>5, QuestionCallMoves

\* The abort and the tool's own timeout, both over CancelPending.
LEMMA QuestionAbortStep == ASSUME QuestionInv, LeaseLost \/ ToolTimesOut PROVE QuestionInv'
<1>1. /\ ask # "idle" /\ aborted' = TRUE /\ UNCHANGED <<seen, by, late, stream, submit, restarted>>
  BY DEF LeaseLost, ToolTimesOut
<1>2. result' \in {"rejected", result}
  BY DEF LeaseLost, ToolTimesOut, Reject
<1>3. \/ session' = FALSE /\ timer' = "off" /\ stored' \in {stored, FALSE} /\ ask' = "over"
      \/ ~(ask = "waiting" /\ timer \in {"off", "armed"}) /\ UNCHANGED <<session, timer, stored, ask>>
  BY DEF LeaseLost, ToolTimesOut, CancelPending
<1>4. QuestionTypeOK'
  <2>1. stored' \in BOOLEAN /\ session' \in BOOLEAN /\ aborted' \in BOOLEAN
    BY <1>1, <1>3 DEF QuestionInv, QuestionInvariant, QuestionTypeOK
  <2> QED
    BY <1>1, <1>2, <1>3, <2>1, ZenonT(60) DEF QuestionInv, QuestionInvariant, QuestionTypeOK
<1>5. SetUpIsOpen'
  BY <1>1 DEF SetUpIsOpen
<1>6. ~session'
  <2>1. (ask = "waiting" /\ timer \in {"off", "armed"}) \/ ~session
    BY DEF QuestionInv, QuestionInvariant, SessionIsLive
  <2> QED
    BY <1>3, <2>1
<1>7. /\ SessionIsLive' /\ (session' => session \/ ask = "wait") /\ (late => late')
      /\ (ask \in {"waiting", "over"} => ask' \in {"waiting", "over"})
      /\ (result' = "answered" => result = "answered")
  BY <1>1, <1>2, <1>3, <1>6 DEF SessionIsLive
<1> QED
  BY <1>1, <1>4, <1>5, <1>7, QuestionCallMoves

LEMMA QuestionTimerStep == ASSUME QuestionInv, TimerFires \/ TimerDeletes \/ TimerSettles PROVE QuestionInv'
<1>1. /\ UNCHANGED <<seen, by, aborted, late, stream, submit, restarted>>
      /\ timer' \in {"off", "fired", "deleted"}
  BY DEF TimerFires, TimerDeletes, TimerSettles, askVars
<1>2. ask' = ask \/ ask' = "over"
  BY DEF TimerFires, TimerDeletes, TimerSettles, askVars
<1>3. stored' = stored \/ stored' = FALSE
  BY DEF TimerFires, TimerDeletes, TimerSettles
<1>4. session' = FALSE
  <2>1. CASE TimerFires
    BY <2>1 DEF TimerFires
  <2>2. CASE TimerDeletes \/ TimerSettles
    <3>1. timer # "armed" /\ session' = session
      BY <2>2 DEF TimerDeletes, TimerSettles
    <3> QED
      BY <3>1 DEF QuestionInv, QuestionInvariant, QuestionTypeOK, SessionIsLive
  <2> QED
    BY <2>1, <2>2
<1>5. ask' = "over" \/ result' = result
  BY DEF TimerFires, TimerDeletes, TimerSettles, askVars
<1>6. result' = result \/ result' \in {"defaulted", "rejected"}
  BY DEF TimerFires, TimerDeletes, TimerSettles, askVars
<1>7. QuestionTypeOK'
  <2>1. stored' \in BOOLEAN
    BY <1>3 DEF QuestionInv, QuestionInvariant, QuestionTypeOK
  <2> QED
    BY <1>1, <1>2, <1>4, <1>6, <2>1, ZenonT(60) DEF QuestionInv, QuestionInvariant, QuestionTypeOK
<1>8. SetUpIsOpen' /\ SessionIsLive'
  BY <1>1, <1>2, <1>4, <1>5 DEF QuestionInv, QuestionInvariant, SetUpIsOpen, SessionIsLive
<1> QED
  BY <1>1, <1>2, <1>4, <1>6, <1>7, <1>8, QuestionCallMoves

LEMMA QuestionWorldStep == ASSUME QuestionInv, TimePasses \/ Look \/ Other PROVE QuestionInv'
<1>1. /\ UNCHANGED <<seen, by, aborted, ask, result, session, timer, submit, restarted>>
      /\ stored' = stored \/ stored' = FALSE
      /\ late' = late \/ late' = TRUE
      /\ stream' = stream \/ stream' = Append(stream, "other")
  <2>1. CASE TimePasses
    BY <2>1 DEF TimePasses, askVars
  <2>2. CASE Look
    BY <2>2 DEF Look, askVars
  <2>3. CASE Other
    BY <2>3 DEF Other, askVars
  <2> QED
    BY <2>1, <2>2, <2>3
<1>2. QuestionTypeOK /\ stream \in Seq(Submit \cup {"required", "other"}) /\ "other" \notin Submit
  BY QuestionAssumption DEF QuestionInv, QuestionInvariant, QuestionTypeOK
<1>3. /\ stream' \in Seq(Submit \cup {"required", "other"})
      /\ \A s \in Submit : Contains(stream', s) <=> Contains(stream, s)
  <2>1. CASE stream' = Append(stream, "other")
    <3>1. "other" \in Submit \cup {"required", "other"}
      OBVIOUS
    <3> QED
      BY <1>2, <2>1, <3>1, StreamGrows
  <2> QED
    BY <1>1, <1>2, <2>1
<1>4. QuestionTypeOK'
  <2>1. stored' \in BOOLEAN /\ late' \in BOOLEAN
    BY <1>1, <1>2 DEF QuestionTypeOK
  <2> QED
    BY <1>1, <1>2, <1>3, <2>1 DEF QuestionTypeOK
<1>5. SetUpIsOpen' /\ SessionIsLive'
  BY <1>1 DEF QuestionInv, QuestionInvariant, SetUpIsOpen, SessionIsLive
<1> QED
  BY <1>1, <1>3, <1>4, <1>5, QuestionCallMoves

\* A step of an answer that is recorded neither before nor by it.
LEMMA QuestionAnswerGoes ==
  ASSUME QuestionInv, NEW s \in Submit, NEW r \in SubmitType, submit' = [submit EXCEPT ![s] = r],
         ~Contains(stream, s), r.pc \notin {"clean", "resolve"}, r.pc = "accepted" => Answered,
         r.late => late, r.late /\ ~r.memory => r.pc \notin {"count", "append"},
         r.memory => ~session' /\ ask \in {"waiting", "over"},
         \/ session' = session /\ timer' = timer
         \/ session' = FALSE /\ timer' \in {timer, "off"},
         stored' \in BOOLEAN,
         UNCHANGED <<askVars, late, stream, restarted>>
  PROVE  QuestionInv'
<1>1. QuestionTypeOK /\ UNCHANGED <<ask, seen, result, by, aborted, late, stream, restarted>>
  BY DEF QuestionInv, QuestionInvariant, askVars
<1>2. submit' \in [Submit -> SubmitType] /\ submit'[s] = r /\ \A t \in Submit : t # s => submit'[t] = submit[t]
  BY <1>1 DEF QuestionTypeOK
<1>3. QuestionTypeOK'
  <2>1. session' \in BOOLEAN /\ timer' \in {"off", "armed", "fired", "deleted"}
    BY <1>1 DEF QuestionTypeOK
  <2> QED
    BY <1>1, <1>2, <2>1 DEF QuestionTypeOK
<1>4. SetUpIsOpen' /\ AnswerIsRecorded' /\ (result' = "answered" => by' \in Submit)
  BY <1>1 DEF QuestionInv, QuestionInvariant, SetUpIsOpen, AnswerIsRecorded
<1>5. (session' => session) /\ SessionIsLive'
  BY <1>1 DEF QuestionInv, QuestionInvariant, SessionIsLive
<1>6. AnswerIsFounded(s)'
  BY <1>1, <1>2 DEF AnswerIsFounded
<1> QED
  BY <1>1, <1>2, <1>3, <1>4, <1>5, <1>6, QuestionAnswerMoves

LEMMA QuestionBeforeStep ==
  ASSUME QuestionInv, NEW s \in Submit, Begin(s) \/ LookUp(s) \/ Load(s) \/ Drop(s) \/ CountEvents(s)
  PROVE  QuestionInv'
<1>1. QuestionTypeOK /\ AnswerIsFounded(s) /\ submit[s] \in SubmitType
  BY DEF QuestionInv, QuestionInvariant, QuestionTypeOK
<1>2. ~Contains(stream, s)
  BY <1>1 DEF Begin, LookUp, Load, Drop, CountEvents, At, AnswerIsFounded
<1>3. CASE Begin(s)
  <2>1. PICK b \in BOOLEAN, l \in BOOLEAN : b = session /\ l = late
    BY <1>1 DEF QuestionTypeOK
  <2>2. PICK r \in SubmitType :
          r = [submit[s] EXCEPT !.pc = IF session THEN "count" ELSE "lookup", !.memory = session, !.late = late]
    BY <1>1, <2>1 DEF SubmitType, InFlight
  <2>3. r.pc \in {"count", "lookup"} /\ (session <=> r.pc = "count") /\ r.memory = session /\ r.late = late
    BY <1>1, <2>1, <2>2 DEF SubmitType
  <2>4. /\ submit' = [submit EXCEPT ![s] = r] /\ session' = FALSE /\ timer' \in {timer, "off"}
        /\ stored' = stored /\ UNCHANGED <<askVars, late, stream, restarted>>
    BY <1>1, <1>3, <2>2 DEF Begin, QuestionTypeOK
  <2>5. session => ask = "waiting"
    BY DEF QuestionInv, QuestionInvariant, SessionIsLive
  <2>6. stored' \in BOOLEAN
    BY <1>1, <2>4 DEF QuestionTypeOK
  <2> QED
    BY <1>2, <2>1, <2>3, <2>4, <2>5, <2>6, QuestionAnswerGoes
<1>4. CASE LookUp(s) \/ Load(s) \/ Drop(s)
  <2>1. PICK pc \in {"accepted", "load", "refused", "drop", "count"} :
          /\ submit' = [submit EXCEPT ![s].pc = pc]
          /\ pc = "accepted" => Answered
          /\ pc = "count" => ~late
    BY <1>4 DEF LookUp, Load, Drop, Goto
  <2>2. /\ submit[s].pc \in {"lookup", "load", "drop"}
        /\ UNCHANGED <<askVars, session, timer, late, stream, restarted>>
        /\ stored' = stored \/ stored' = FALSE
    BY <1>4 DEF LookUp, Load, Drop, At
  <2>3. PICK r \in SubmitType : r = [submit[s] EXCEPT !.pc = pc]
    BY <1>1, <2>1 DEF SubmitType, InFlight
  <2>4. submit' = [submit EXCEPT ![s] = r] /\ r.pc = pc /\ r.memory = submit[s].memory /\ r.late = submit[s].late
    BY <1>1, <2>1, <2>3 DEF QuestionTypeOK, SubmitType
  <2>5. stored' \in BOOLEAN
    BY <1>1, <2>2 DEF QuestionTypeOK
  <2>6. (r.late => late) /\ (r.memory => ~session' /\ ask \in {"waiting", "over"})
    BY <1>1, <2>2, <2>4 DEF AnswerIsFounded
  <2> QED
    BY <1>2, <2>1, <2>2, <2>4, <2>5, <2>6, QuestionAnswerGoes
<1>5. CASE CountEvents(s)
  <2>1. Len(stream) \in Nat
    BY <1>1 DEF QuestionTypeOK
  <2>2. PICK r \in SubmitType : r = [submit[s] EXCEPT !.pc = "append", !.seen = Len(stream)]
    BY <1>1, <2>1 DEF SubmitType, InFlight
  <2>3. submit' = [submit EXCEPT ![s] = r] /\ r.pc = "append" /\ r.memory = submit[s].memory /\ r.late = submit[s].late
    BY <1>1, <1>5, <2>2 DEF QuestionTypeOK, SubmitType, CountEvents
  <2>4. submit[s].pc = "count" /\ UNCHANGED <<askVars, session, timer, stored, late, stream, restarted>>
    BY <1>5 DEF CountEvents, At
  <2>5. stored' \in BOOLEAN
    BY <1>1, <2>4 DEF QuestionTypeOK
  <2>6. /\ r.late => late
        /\ r.memory => ~session' /\ ask \in {"waiting", "over"}
        /\ r.late /\ ~r.memory => r.pc \notin {"count", "append"}
    BY <1>1, <2>3, <2>4 DEF AnswerIsFounded
  <2> QED
    BY <1>2, <2>3, <2>4, <2>5, <2>6, QuestionAnswerGoes
<1> QED
  BY <1>3, <1>4, <1>5

LEMMA QuestionWriteStep == ASSUME QuestionInv, NEW s \in Submit, Write(s) PROVE QuestionInv'
<1>1. /\ QuestionTypeOK /\ AnswerIsFounded(s) /\ submit[s] \in SubmitType /\ submit[s].pc = "append"
      /\ stream \in Seq(Submit \cup {"required", "other"})
      /\ UNCHANGED <<ask, seen, result, by, aborted, session, timer, stored, late, restarted>>
  BY DEF QuestionInv, QuestionInvariant, QuestionTypeOK, Write, At, askVars
<1>2. PICK pc \in {"clean", "failed"} :
        /\ submit' = [submit EXCEPT ![s].pc = pc]
        /\ pc = "clean" => stream' = Append(stream, s)
        /\ pc = "failed" => stream' = stream
  BY DEF Write, Goto
<1>3. PICK r \in SubmitType : r = [submit[s] EXCEPT !.pc = pc]
  BY <1>1, <1>2 DEF SubmitType, InFlight
<1>4. /\ submit' \in [Submit -> SubmitType] /\ submit'[s] = r /\ \A t \in Submit : t # s => submit'[t] = submit[t]
      /\ r.pc = pc /\ r.memory = submit[s].memory /\ r.late = submit[s].late
  BY <1>1, <1>2, <1>3 DEF QuestionTypeOK, SubmitType
<1>5. /\ stream' \in Seq(Submit \cup {"required", "other"})
      /\ \A t \in Submit : Contains(stream, t) => Contains(stream', t)
      /\ \A t \in Submit : t # s => (Contains(stream', t) => Contains(stream, t))
      /\ pc = "clean" => Contains(stream', s)
      /\ pc = "failed" => ~Contains(stream', s)
  <2>1. CASE pc = "clean"
    <3>1. s \in Submit \cup {"required", "other"}
      OBVIOUS
    <3>2. /\ Append(stream, s) \in Seq(Submit \cup {"required", "other"})
          /\ \A e : Contains(Append(stream, s), e) <=> Contains(stream, e) \/ e = s
      BY <1>1, <3>1, StreamGrows
    <3> QED
      BY <1>2, <2>1, <3>2
  <2>2. CASE pc = "failed"
    <3>1. ~Contains(stream, s)
      BY <1>1 DEF AnswerIsFounded
    <3> QED
      BY <1>1, <1>2, <2>2, <3>1
  <2> QED
    BY <2>1, <2>2
<1>6. QuestionTypeOK'
  BY <1>1, <1>4, <1>5 DEF QuestionTypeOK
<1>7. SetUpIsOpen' /\ SessionIsLive' /\ (result' = "answered" => by' \in Submit)
  BY <1>1 DEF QuestionInv, QuestionInvariant, SetUpIsOpen, SessionIsLive
<1>8. AnswerIsRecorded'
  <2>1. result = "answered" => by \in Submit /\ Contains(stream, by)
    BY DEF QuestionInv, QuestionInvariant, AnswerIsRecorded
  <2> QED
    BY <1>1, <1>5, <2>1 DEF AnswerIsRecorded
<1>9. AnswerIsFounded(s)' /\ (submit'[s].late /\ ~submit'[s].memory => ~Contains(stream', s))
  BY <1>1, <1>4, <1>5 DEF AnswerIsFounded
<1> QED
  BY <1>1, <1>2, <1>4, <1>5, <1>6, <1>7, <1>8, <1>9, QuestionAnswerMoves

LEMMA QuestionAfterStep == ASSUME QuestionInv, NEW s \in Submit, Clean(s) \/ Resolve(s) PROVE QuestionInv'
<1>1. /\ QuestionTypeOK /\ AnswerIsFounded(s) /\ submit[s] \in SubmitType /\ submit[s].pc \in {"clean", "resolve"}
      /\ UNCHANGED <<seen, aborted, session, timer, late, stream, restarted>>
  BY DEF QuestionInv, QuestionInvariant, QuestionTypeOK, Clean, Resolve, At, askVars
<1>2. PICK pc \in {"resolve", "accepted"} : submit' = [submit EXCEPT ![s].pc = pc]
  BY DEF Clean, Resolve, Goto
<1>3. PICK r \in SubmitType : r = [submit[s] EXCEPT !.pc = pc]
  BY <1>1, <1>2 DEF SubmitType, InFlight
<1>4. /\ submit' \in [Submit -> SubmitType] /\ submit'[s] = r /\ \A t \in Submit : t # s => submit'[t] = submit[t]
      /\ r.pc = pc /\ r.memory = submit[s].memory /\ r.late = submit[s].late
  BY <1>1, <1>2, <1>3 DEF QuestionTypeOK, SubmitType
<1>5. Contains(stream, s) /\ ~(submit[s].late /\ ~submit[s].memory)
  BY <1>1 DEF AnswerIsFounded
<1>6. \/ UNCHANGED <<result, by, ask>>
      \/ submit[s].memory /\ result' = "answered" /\ by' = s /\ ask' = "over"
  BY DEF Clean, Resolve, askVars
<1>7. stored' = stored \/ stored' = FALSE
  BY DEF Clean, Resolve
<1>8. QuestionTypeOK'
  <2>1. stored' \in BOOLEAN
    BY <1>1, <1>7 DEF QuestionTypeOK
  <2>2. /\ ask' \in {"idle", "append", "store", "wait", "waiting", "over"} /\ by' \in Submit \cup {Nobody}
        /\ result' \in {"open", "answered", "defaulted", "rejected", "lost"}
    BY <1>1, <1>6 DEF QuestionTypeOK
  <2> QED
    BY <1>1, <1>4, <2>1, <2>2 DEF QuestionTypeOK
<1>9. submit[s].memory => ~session /\ ask \in {"waiting", "over"}
  BY <1>1 DEF AnswerIsFounded
<1>10. SetUpIsOpen' /\ SessionIsLive' /\ (ask \in {"waiting", "over"} => ask' \in {"waiting", "over"})
  BY <1>1, <1>6, <1>9 DEF QuestionInv, QuestionInvariant, SetUpIsOpen, SessionIsLive
<1>11. AnswerIsRecorded' /\ (result' = "answered" => by' \in Submit)
  BY <1>1, <1>5, <1>6 DEF QuestionInv, QuestionInvariant, AnswerIsRecorded
<1>12. AnswerIsFounded(s)'
  BY <1>1, <1>4, <1>5, <1>6, <1>9 DEF AnswerIsFounded
<1> QED
  BY <1>1, <1>4, <1>5, <1>8, <1>10, <1>11, <1>12, QuestionAnswerMoves

LEMMA QuestionRestartStep == ASSUME QuestionInv, Restart PROVE QuestionInv'
<1>1. /\ ask' = "over" /\ session' = FALSE /\ timer' = "off" /\ restarted' = TRUE
      /\ result' \in {"lost", result} /\ UNCHANGED <<seen, by, aborted, stored, late, stream>>
  BY DEF Restart
<1>2. QuestionTypeOK /\ submit \in [Submit -> SubmitType]
  BY DEF QuestionInv, QuestionInvariant, QuestionTypeOK
<1>3. ASSUME NEW s \in Submit
      PROVE  /\ submit'[s] \in SubmitType /\ submit'[s].memory = submit[s].memory /\ submit'[s].late = submit[s].late
             /\ submit'[s].pc = "failed" \/ (submit'[s].pc = submit[s].pc /\ submit[s].pc \notin InFlight)
  <2>1. submit'[s] = IF submit[s].pc \in InFlight THEN [submit[s] EXCEPT !.pc = "failed"] ELSE submit[s]
    BY DEF Restart
  <2>2. submit[s] \in SubmitType
    BY <1>2
  <2>3. CASE submit[s].pc \in InFlight
    BY <2>1, <2>2, <2>3 DEF SubmitType
  <2>4. CASE submit[s].pc \notin InFlight
    BY <2>1, <2>2, <2>4
  <2> QED
    BY <2>3, <2>4
<1>4. submit' \in [Submit -> SubmitType]
  <2>1. submit' = [s \in Submit |-> submit'[s]]
    BY DEF Restart
  <2> QED
    BY <1>3, <2>1
<1>5. QuestionTypeOK'
  BY <1>1, <1>2, <1>4 DEF QuestionTypeOK
<1>6. SetUpIsOpen' /\ SessionIsLive'
  BY <1>1 DEF SetUpIsOpen, SessionIsLive
<1>7. AnswerIsRecorded' /\ (result' = "answered" => by' \in Submit)
  BY <1>1 DEF QuestionInv, QuestionInvariant, AnswerIsRecorded
<1>8. AcceptedIsRecorded' /\ LateIsRefused'
  <2>1. Answered => Answered'
    BY <1>1 DEF Answered
  <2> QED
    BY <1>1, <1>3, <2>1 DEF QuestionInv, QuestionInvariant, AcceptedIsRecorded, LateIsRefused, At
<1>9. ASSUME NEW s \in Submit PROVE AnswerIsFounded(s)'
  <2>1. AnswerIsFounded(s)
    BY DEF QuestionInv
  <2>2. submit'[s].pc \in {"clean", "resolve", "count", "append"} => FALSE
    BY <1>3 DEF InFlight
  <2>3. Contains(stream, s) => submit'[s].pc \in {"accepted", "failed"}
    BY <1>3, <2>1 DEF AnswerIsFounded, InFlight
  <2> QED
    BY <1>1, <1>3, <2>1, <2>2, <2>3 DEF AnswerIsFounded
<1> QED
  BY <1>5, <1>6, <1>7, <1>8, <1>9 DEF QuestionInv, QuestionInvariant

LEMMA QuestionStep == QuestionInv /\ [QuestionNext]_questionVars => QuestionInv'
<1> SUFFICES ASSUME QuestionInv, [QuestionNext]_questionVars PROVE QuestionInv'
  OBVIOUS
<1>1. CASE Asking \/ LeaseLost \/ ToolTimesOut
  BY <1>1, QuestionAskStep, QuestionPublishStep, QuestionStoreStep, QuestionWaitStep, QuestionTimerStep,
     QuestionAbortStep DEF Asking
<1>2. ASSUME NEW s \in Submit, Submission(s) PROVE QuestionInv'
  BY <1>2, QuestionBeforeStep, QuestionWriteStep, QuestionAfterStep DEF Submission
<1>3. CASE TimePasses \/ Look \/ Other \/ Restart
  BY <1>3, QuestionWorldStep, QuestionRestartStep
<1>4. CASE UNCHANGED questionVars
  <2>1. UNCHANGED <<ask, seen, result, by, aborted, session, timer, stored, late, stream, submit, restarted>>
    BY <1>4 DEF questionVars, askVars
  <2>2. QuestionTypeOK' /\ SetUpIsOpen' /\ SessionIsLive'
    BY <2>1 DEF QuestionInv, QuestionInvariant, QuestionTypeOK, SetUpIsOpen, SessionIsLive
  <2> QED
    BY <2>1, <2>2, QuestionCallMoves
<1> QED
  BY <1>1, <1>2, <1>3, <1>4 DEF QuestionNext

(* Who may answer, and what is recorded (user-question-coordinator.ts):    *)
(* however many answers are posted, timers, aborts, timeouts and a restart *)
(* meet them, and however many other events are written meanwhile.         *)
THEOREM AnswersAreRecorded == QuestionSpec => []QuestionInvariant
<1>1. QuestionInv => QuestionInvariant
  BY DEF QuestionInv
<1> QED
  BY <1>1, QuestionInitInv, QuestionStep, PTL DEF QuestionSpec
-----------------------------------------------------------------------------
(* The event stream.  That a tail delivers the ending needs to be known of *)
(* the connection where the attempt was seen settled; from there on the    *)
(* stream may only grow beyond what is owed.                               *)
LogNumbered == \A i \in DOMAIN log : log[i].seq = i

ReaderInv(r) ==
  /\ Len(sent[r]) <= Len(log)
  /\ conn[r] \in Replaying => ~tailed[r]
  /\ conn[r] = "drain" /\ ~overdue[r] => Settled
  /\ conn[r] = "ended" /\ tailed[r] /\ ~overdue[r] => Settled /\ owed <= Len(sent[r])

DeliveryInv ==
  /\ StoreInv /\ DeliveryTypeOK /\ LogNumbered /\ owed <= Len(log)
  /\ DeliveredInOrder
  /\ \A r \in Reader : ReaderInv(r)

LEMMA LeastOf == ASSUME NEW S \in SUBSET Nat, S # {} PROVE \E n \in S : \A m \in S : n <= m
<1>1. PICK n \in S : \A m \in S : ~ (<<m, n>> \in OpToRel(<, Nat))
  BY NatLessThanWellFounded, WFMin, Zenon
<1>2. \A m \in S : ~ (m < n)
  BY <1>1 DEF OpToRel
<1> QED
  BY <1>2

\* The only list of the numbers from a + 1 to a + k.
LEMMA ListingIsTheRange ==
  ASSUME NEW a \in Nat, NEW k \in Nat, NEW list \in [1..k -> (a + 1)..(a + k)],
         IsListing(list, (a + 1)..(a + k))
  PROVE  \A i \in 1..k : list[i] = a + i
<1> DEFINE wrong == {i \in 1..k : list[i] # a + i}
<1> SUFFICES ASSUME wrong # {} PROVE FALSE
  OBVIOUS
<1>1. PICK m \in wrong : \A i \in wrong : m <= i
  <2>1. wrong \in SUBSET Nat
    OBVIOUS
  <2> HIDE DEF wrong
  <2> QED
    BY <2>1, LeastOf
<1>2. m \in 1..k /\ list[m] # a + m /\ list[m] \in (a + 1)..(a + k)
  OBVIOUS
<1>3. \A i \in 1..k : i < m => list[i] = a + i
  BY <1>1, <1>2
<1>4. PICK j \in 1..k : list[j] = a + m
  <2>1. a + m \in (a + 1)..(a + k)
    BY <1>2
  <2> QED
    BY <2>1 DEF IsListing
<1>5. j > m
  BY <1>2, <1>3, <1>4, SMTT(60)
<1>6. list[m] < a + m
  BY <1>2, <1>4, <1>5 DEF IsListing
<1>7. list[m] - a \in 1..k /\ list[m] - a < m
  BY <1>2, <1>6, SMTT(60)
<1>8. list[list[m] - a] = list[m]
  BY <1>2, <1>3, <1>7
<1>9. list[list[m] - a] < list[m]
  BY <1>2, <1>7 DEF IsListing
<1> QED
  BY <1>2, <1>8, <1>9

LEMMA NumberedIsBounded ==
  ASSUME NEW l \in Seq(EventType), \A i \in DOMAIN l : l[i].seq = i
  PROVE  Len(l) \in Nat /\ Len(l) <= MaxSeq /\ DOMAIN l = 1..Len(l)
<1>1. MaxSeq \in Nat
  BY StoreAssumption
<1>2. CASE Len(l) = 0
  BY <1>1, <1>2
<1>3. CASE Len(l) # 0
  <2>1. Len(l) \in DOMAIN l
    BY <1>3
  <2>2. l[Len(l)] \in EventType
    BY <2>1
  <2>3. l[Len(l)].seq \in 1..MaxSeq
    BY <2>2 DEF EventType
  <2> QED
    BY <1>1, <2>1, <2>3
<1> QED
  BY <1>2, <1>3

LEMMA LogIsLong ==
  ASSUME StoreTypeOK, LogNumbered
  PROVE  Len(log) \in Nat /\ Len(log) <= MaxSeq /\ DOMAIN log = 1..Len(log) /\ log \in Seq(EventType)
  BY NumberedIsBounded DEF StoreTypeOK, LogNumbered

IsRange(q, n, m) == q \in Seq(1..m) /\ Len(q) = n /\ q = [i \in 1..n |-> i]
LEMMA RangeIs ==
  ASSUME NEW n \in Nat, NEW m \in Nat, NEW q \in Seq(1..m), Len(q) = n, \A i \in 1..n : q[i] = i
  PROVE  IsRange(q, n, m)
<1>1. q \in [1..Len(q) -> 1..m]
  OBVIOUS
<1> QED
  BY <1>1 DEF IsRange

LEMMA RangeIsAppended ==
  ASSUME NEW k \in Nat, NEW d \in Nat, NEW m \in Nat, k + d <= m, NEW s, IsRange(s, k, m),
         NEW list \in [1..d -> (k + 1)..(k + d)], \A i \in 1..d : list[i] = k + i
  PROVE  IsRange(s \o list, k + d, m)
<1>1. s \in Seq(1..m) /\ Len(s) = k /\ \A i \in 1..k : s[i] = i
  BY DEF IsRange
<1>2. list \in [1..d -> 1..m]
  BY SMT
<1>3. list \in Seq(1..m) /\ Len(list) = d
  BY <1>2
<1>4. s \o list \in Seq(1..m) /\ Len(s \o list) = k + d
  BY <1>1, <1>3
<1>5. ASSUME NEW i \in 1..(k + d) PROVE (s \o list)[i] = i
  <2>1. CASE i <= k
    BY <1>1, <1>3, <2>1
  <2>2. CASE i > k
    <3>1. i - k \in 1..d
      BY <2>2
    <3>2. (s \o list)[i] = list[i - k]
      BY <1>1, <1>3, <2>2, SMTT(60)
    <3> QED
      BY <3>1, <3>2
  <2>3. i <= k \/ i > k
    OBVIOUS
  <2> QED
    BY <2>1, <2>2, <2>3
<1>6. k + d \in Nat
  OBVIOUS
<1> QED
  BY <1>4, <1>5, <1>6, RangeIs

LEMMA MaxOfRange == ASSUME NEW k \in Nat PROVE Max(0..k) = k
<1>1. k \in 0..k /\ \A y \in 0..k : y \in Nat /\ k >= y
  OBVIOUS
<1>2. \A x \in 0..k : (\A y \in 0..k : x >= y) => x = k
  BY <1>1
<1> QED
  BY <1>1, <1>2 DEF Max

\* A connection that has k events gets those from k + 1 to the last.
LEMMA SendBringsAll ==
  ASSUME StoreTypeOK, LogNumbered, NEW r \in Reader, DeliveredInOrder, sent \in [Reader -> Seq(1..MaxSeq)],
         Len(sent[r]) <= Len(log), Send(r)
  PROVE  /\ sent' \in [Reader -> Seq(1..MaxSeq)] /\ Len(sent'[r]) = Len(log)
         /\ sent'[r] = [i \in DOMAIN sent'[r] |-> i]
         /\ \A q \in Reader : q # r => sent'[q] = sent[q]
<1> DEFINE k == Len(sent[r])
           n == Len(log)
           unsent == EventsAfter(HighWater(r))
<1>1. /\ n \in Nat /\ n <= MaxSeq /\ DOMAIN log = 1..n /\ MaxSeq \in Nat
      /\ sent[r] \in Seq(1..MaxSeq) /\ k \in Nat /\ k <= n /\ DOMAIN sent[r] = 1..k
      /\ Len(sent[r]) = k /\ Len(log) = n
  BY LogIsLong, StoreAssumption
<1> HIDE DEF k, n
<1>2. \A i \in 1..k : sent[r][i] = i
  BY <1>1 DEF DeliveredInOrder
<1>3. HighWater(r) = k
  <2>1. {0} \cup ToSet(sent[r]) = 0..k
    BY <1>1, <1>2 DEF ToSet
  <2>2. Max(0..k) = k
    BY <1>1, MaxOfRange
  <2> QED
    BY <2>1, <2>2 DEF HighWater
<1>4. unsent = (k + 1)..n
  <2>1. {log[i].seq : i \in DOMAIN log} = 1..n
    BY <1>1 DEF LogNumbered
  <2> QED
    BY <1>1, <1>3, <2>1 DEF EventsAfter
<1>5. PICK d \in Nat : d = n - k /\ n = k + d /\ k + d <= MaxSeq /\ Cardinality((k + 1)..n) = d
  <2>1. k + 1 \in Int /\ n \in Int
    BY <1>1
  <2>2. Cardinality((k + 1)..n) = IF k + 1 > n THEN 0 ELSE n - (k + 1) + 1
    BY <2>1, FS_Interval
  <2>3. Cardinality((k + 1)..n) = n - k /\ n - k \in Nat /\ n = k + (n - k)
    BY <1>1, <2>2
  <2> QED
    BY <1>1, <2>3
<1>6. PICK list \in [1..d -> (k + 1)..(k + d)] :
        IsListing(list, (k + 1)..(k + d)) /\ sent' = [sent EXCEPT ![r] = @ \o list]
  BY <1>4, <1>5 DEF Send
<1> HIDE DEF unsent
<1>7. \A i \in 1..d : list[i] = k + i
  BY <1>1, <1>6, ListingIsTheRange, ZenonT(60)
<1>8. PICK whole : whole = sent[r] \o list
  OBVIOUS
<1>9. sent'[r] = whole /\ \A q \in Reader : q # r => sent'[q] = sent[q]
  BY <1>6, <1>8
<1>10. whole \in Seq(1..MaxSeq) /\ Len(whole) = n /\ whole = [i \in 1..n |-> i]
  <2>1. IsRange(sent[r], k, MaxSeq)
    BY <1>1, <1>2, RangeIs
  <2>2. k \in Nat /\ MaxSeq \in Nat /\ k + d <= MaxSeq
    BY <1>1, <1>5
  <2>3. IsRange(sent[r] \o list, k + d, MaxSeq)
    BY <1>7, <2>1, <2>2, RangeIsAppended
  <2> QED
    BY <1>5, <1>8, <2>3 DEF IsRange
<1>12. sent'[r] = [i \in DOMAIN sent'[r] |-> i]
  <2>1. DOMAIN whole = 1..n
    BY <1>10
  <2> QED
    BY <1>9, <1>10, <2>1
<1>13. sent' \in [Reader -> Seq(1..MaxSeq)]
  BY <1>6, <1>8, <1>10
<1> QED
  BY <1>1, <1>9, <1>10, <1>12, <1>13

LEMMA DeliveryInitInv == DeliveryInit => DeliveryInv
<1> SUFFICES ASSUME DeliveryInit PROVE DeliveryInv
  OBVIOUS
<1>1. StoreInit /\ StoreInv /\ StoreTypeOK
  BY StoreInitInv DEF DeliveryInit, StoreInv
<1>2. DeliveryTypeOK
  BY <1>1, StoreAssumption DEF DeliveryInit, DeliveryTypeOK, Standing
<1>3. LogNumbered /\ owed <= Len(log)
  BY <1>1 DEF StoreInit, LogNumbered, DeliveryInit
<1>4. DeliveredInOrder
  BY DEF DeliveryInit, DeliveredInOrder
<1>5. ASSUME NEW r \in Reader PROVE ReaderInv(r)
  BY <1>1 DEF DeliveryInit, ReaderInv, StoreInit, Replaying
<1> QED
  BY <1>1, <1>2, <1>3, <1>4, <1>5 DEF DeliveryInv

\* What a write of the store adds to the stream.
LEMMA StoreWrites ==
  ASSUME StoreTypeOK, StoreNext
  PROVE  /\ log' = log \/ \E ev \in EventType : log' = Append(log, ev)
         /\ Settled => Settled'
<1>1. held \in [Executor -> 0..MaxToken] /\ 0 \in 0..MaxToken /\ NoRef \in Ref /\ status \in Active \cup Terminal
  BY StoreAssumption DEF StoreTypeOK
<1>2. \A s \in 1..MaxSeq, k \in Kind \cup Terminal \cup {"side"}, r \in Ref, t \in 0..MaxToken :
        Event(s, k, r, t) \in EventType
  BY DEF Event, EventType
<1>3. \A e \in Executor : Fenced(e) => ~Settled
  BY DEF Fenced, Active, Terminal, Settled
<1>4. ASSUME NEW e \in Executor, NEW s \in 1..MaxSeq, NEW k \in Kind, NEW r \in Ref, AppendFenced(e, s, k, r)
      PROVE  (\E ev \in EventType : log' = Append(log, ev)) /\ status' = status
  BY <1>1, <1>2, <1>4 DEF AppendFenced
<1>5. ASSUME NEW e \in Executor, NEW s \in 1..MaxSeq, NEW o \in Terminal, Finalize(e, o, s) \/ AppendClosing(e, s, o)
      PROVE  (\E ev \in EventType : log' = Append(log, ev)) /\ (Settled => Settled')
  BY <1>1, <1>2, <1>3, <1>5 DEF Finalize, AppendClosing, Settled
<1>6. ASSUME NEW e \in Executor, NEW o \in Terminal, SetStatus(e, o)
      PROVE  log' = log /\ (Settled => Settled')
  BY <1>3, <1>6 DEF SetStatus
<1>7. ASSUME NEW s \in 1..MaxSeq, SideAppend(s)
      PROVE  (\E ev \in EventType : log' = Append(log, ev)) /\ status' = status
  BY <1>1, <1>2, <1>7 DEF SideAppend
<1>8. ASSUME NEW s \in 1..MaxSeq, FailEntry(s)
      PROVE  (log' = log \/ \E ev \in EventType : log' = Append(log, ev)) /\ status' = status
  BY <1>1, <1>2, <1>8 DEF FailEntry, Terminal
<1>9. ASSUME NEW e \in Executor, NEW t, Claim(e, t) PROVE log' = log /\ status' = status
  BY <1>9 DEF Claim
<1>10. ASSUME NEW e \in Executor, Renew(e) \/ Forget(e) PROVE log' = log /\ status' = status
  BY <1>10 DEF Renew, Forget
<1>11. ASSUME RequestCancel \/ RecoverExpired \/ LeaseExpires \/ EntryLeaves \/ FailEntryStatus
       PROVE  log' = log /\ (Settled => Settled')
  BY <1>11 DEF RequestCancel, RecoverExpired, LeaseExpires, EntryLeaves, FailEntryStatus, Settled,
               Active, Terminal
<1>12. ASSUME NEW e \in Executor, ExecutorOp(e) \/ SplitEnding(e)
       PROVE  /\ log' = log \/ \E ev \in EventType : log' = Append(log, ev)
              /\ Settled => Settled'
  BY <1>4, <1>5, <1>6, <1>9, <1>10, <1>12 DEF ExecutorOp, SplitEnding, ClaimFresh, ClaimExpired, Settled
<1>13. ASSUME OtherOp
       PROVE  /\ log' = log \/ \E ev \in EventType : log' = Append(log, ev)
              /\ Settled => Settled'
  BY <1>7, <1>8, <1>11, <1>13 DEF OtherOp, Settled
<1> QED
  BY <1>12, <1>13 DEF StoreNext, AtomicNext

LEMMA DeliveryWriteStep == ASSUME DeliveryInv, WriteNext PROVE DeliveryInv'
<1>1. /\ StoreInv /\ StoreTypeOK /\ LogNumbered /\ StoreNext /\ owed \in Nat /\ owed <= Len(log)
      /\ UNCHANGED <<conn, sent, tailed, overdue>>
      /\ owed' = IF ~Settled /\ Settled' THEN Len(log') ELSE owed
  BY StoreAssumption DEF DeliveryInv, DeliveryTypeOK, StoreInv, WriteNext, readVars, Settled
<1>2. StoreInv' /\ StoreTypeOK'
  BY <1>1, StoreNextInv DEF StoreInv
<1>3. Settled => Settled' /\ owed' = owed
  BY <1>1, StoreWrites
<1>4. LogNumbered' /\ Len(log) \in Nat /\ Len(log') \in Nat /\ Len(log') >= Len(log)
  <2>1. Len(log) \in Nat /\ DOMAIN log = 1..Len(log) /\ log \in Seq(EventType)
    BY <1>1, LogIsLong
  <2>2. CASE log' = log
    BY <1>1, <2>1, <2>2 DEF LogNumbered
  <2>3. CASE log' # log
    <3>1. PICK ev \in EventType : log' = Append(log, ev)
      BY <1>1, <2>3, StoreWrites
    <3>2. /\ Len(log') = Len(log) + 1 /\ DOMAIN log' = 1..(Len(log) + 1)
          /\ \A i \in DOMAIN log : log'[i] = log[i]
      BY <2>1, <3>1, AppendFacts
    <3>3. log'[Len(log) + 1].seq = Len(log) + 1
      BY <2>3, <3>2 DEF WriteNext, Last
    <3> QED
      BY <1>1, <2>1, <3>2, <3>3 DEF LogNumbered
  <2> QED
    BY <2>2, <2>3
<1>5. owed' \in 0..MaxSeq /\ owed' <= Len(log')
  <2>1. Len(log') <= MaxSeq /\ MaxSeq \in Nat
    BY <1>2, <1>4, NumberedIsBounded, StoreAssumption DEF StoreTypeOK, LogNumbered
  <2> QED
    BY <1>1, <1>4, <2>1
<1>6. DeliveryTypeOK' /\ DeliveredInOrder'
  BY <1>1, <1>2, <1>5 DEF DeliveryInv, DeliveryTypeOK, DeliveredInOrder
<1>7. ASSUME NEW r \in Reader PROVE ReaderInv(r)'
  <2>1. ReaderInv(r) /\ Len(sent[r]) \in Nat
    BY DEF DeliveryInv, DeliveryTypeOK
  <2> QED
    BY <1>1, <1>3, <1>4, <2>1 DEF ReaderInv
<1> QED
  BY <1>2, <1>4, <1>5, <1>6, <1>7 DEF DeliveryInv

\* A step of the reader r: what it leaves alone, and what is true of the others.
LEMMA DeliveryReadStep ==
  ASSUME DeliveryInv, NEW r \in Reader, UNCHANGED <<storeVars, owed>>, DeliveryTypeOK',
         sent'[r] = [i \in DOMAIN sent'[r] |-> i], ReaderInv(r)',
         \A q \in Reader : q # r => /\ conn'[q] = conn[q] /\ sent'[q] = sent[q]
                                    /\ tailed'[q] = tailed[q] /\ overdue'[q] = overdue[q]
  PROVE  DeliveryInv'
<1>1. UNCHANGED <<status, fencing, lease, leaseOwner, log, held, entry>>
  BY DEF storeVars
<1>2. StoreInv'
  BY <1>1, StoreNextInv DEF DeliveryInv, storeVars
<1>3. LogNumbered' /\ owed' <= Len(log') /\ Settled' = Settled
  BY <1>1 DEF DeliveryInv, LogNumbered, Settled
<1>4. DeliveredInOrder'
  BY DEF DeliveryInv, DeliveredInOrder
<1>5. ASSUME NEW q \in Reader, q # r PROVE ReaderInv(q)'
  <2>1. ReaderInv(q)
    BY DEF DeliveryInv
  <2> QED
    BY <1>1, <1>3, <1>5, <2>1 DEF ReaderInv
<1> QED
  BY <1>2, <1>3, <1>4, <1>5 DEF DeliveryInv

LEMMA DeliverySendStep ==
  ASSUME DeliveryInv, NEW r \in Reader, Send(r), UNCHANGED <<storeVars, owed, tailed, overdue>>,
         NEW place \in {"replayed", "polled", "ended"}, Go(r, place),
         place = "replayed" => conn[r] = "replay",
         place = "ended" => conn[r] = "drain"
  PROVE  DeliveryInv'
<1>1. /\ StoreTypeOK /\ LogNumbered /\ DeliveredInOrder /\ sent \in [Reader -> Seq(1..MaxSeq)]
      /\ ReaderInv(r) /\ Len(sent[r]) <= Len(log) /\ owed \in Nat /\ owed <= Len(log) /\ conn \in [Reader -> Standing]
      /\ UNCHANGED <<status, fencing, lease, leaseOwner, log, held, entry>>
  BY StoreAssumption DEF DeliveryInv, DeliveryTypeOK, ReaderInv, storeVars
<1>2. /\ sent' \in [Reader -> Seq(1..MaxSeq)] /\ Len(sent'[r]) = Len(log)
      /\ sent'[r] = [i \in DOMAIN sent'[r] |-> i]
      /\ \A q \in Reader : q # r => sent'[q] = sent[q]
  BY <1>1, SendBringsAll
<1>3. conn' = [conn EXCEPT ![r] = place] /\ conn'[r] = place /\ \A q \in Reader : q # r => conn'[q] = conn[q]
  BY <1>1 DEF Go
<1>4. DeliveryTypeOK'
  BY <1>1, <1>2, <1>3 DEF DeliveryInv, DeliveryTypeOK, Standing, Open, Replaying, Tailing, StoreTypeOK
<1>5. ReaderInv(r)'
  <2>1. Len(log) \in Nat /\ DOMAIN log = 1..Len(log)
    BY <1>1, LogIsLong
  <2>2. Settled' = Settled /\ log' = log
    BY <1>1 DEF Settled
  <2> QED
    BY <1>1, <1>2, <1>3, <2>1, <2>2 DEF ReaderInv, Replaying
<1> QED
  BY <1>2, <1>3, <1>4, <1>5, DeliveryReadStep

LEMMA DeliveryQuietStep ==
  ASSUME DeliveryInv, NEW r \in Reader, UNCHANGED <<storeVars, owed, sent>>,
         conn' \in [Reader -> Standing],
         tailed' \in [Reader -> BOOLEAN], overdue' \in [Reader -> BOOLEAN],
         \A q \in Reader : q # r => conn'[q] = conn[q] /\ tailed'[q] = tailed[q] /\ overdue'[q] = overdue[q],
         conn'[r] \in Replaying => ~tailed'[r],
         conn'[r] = "drain" /\ ~overdue'[r] => Settled,
         conn'[r] = "ended" /\ tailed'[r] => conn[r] = "ended" /\ tailed[r] /\ (overdue[r] => overdue'[r])
  PROVE  DeliveryInv'
<1>1. UNCHANGED <<status, fencing, lease, leaseOwner, log, held, entry>> /\ Settled' = Settled /\ ReaderInv(r)
  BY DEF storeVars, Settled, DeliveryInv
<1>2. DeliveryTypeOK'
  BY <1>1 DEF DeliveryInv, DeliveryTypeOK, StoreTypeOK
<1>3. ReaderInv(r)'
  BY <1>1 DEF ReaderInv
<1>4. sent'[r] = [i \in DOMAIN sent'[r] |-> i]
  BY DEF DeliveryInv, DeliveredInOrder
<1> QED
  BY <1>2, <1>3, <1>4, DeliveryReadStep

LEMMA DeliveryStep == DeliveryInv /\ [DeliveryNext]_deliveryVars => DeliveryInv'
<1> SUFFICES ASSUME DeliveryInv, [DeliveryNext]_deliveryVars PROVE DeliveryInv'
  OBVIOUS
<1>1. /\ conn \in [Reader -> Standing] /\ tailed \in [Reader -> BOOLEAN]
      /\ overdue \in [Reader -> BOOLEAN] /\ sent \in [Reader -> Seq(1..MaxSeq)] /\ MaxSeq \in Nat
      /\ \A r \in Reader : ReaderInv(r)
  BY StoreAssumption DEF DeliveryInv, DeliveryTypeOK
<1>2. CASE WriteNext
  BY <1>2, DeliveryWriteStep
<1>3. ASSUME NEW r \in Reader, Connect(r) PROVE DeliveryInv'
  <2>1. /\ conn'[r] = "replay" /\ sent'[r] = <<>> /\ ~tailed'[r] /\ UNCHANGED <<storeVars, owed>>
        /\ \A q \in Reader : q # r => /\ conn'[q] = conn[q] /\ sent'[q] = sent[q]
                                      /\ tailed'[q] = tailed[q] /\ overdue'[q] = overdue[q]
    BY <1>1, <1>3 DEF Connect, Go
  <2>2. /\ conn' \in [Reader -> Standing] /\ tailed' \in [Reader -> BOOLEAN]
        /\ overdue' \in [Reader -> BOOLEAN] /\ sent' \in [Reader -> Seq(1..MaxSeq)]
    BY <1>1, <1>3 DEF Connect, Go, Standing, Open, Replaying
  <2>3. DeliveryTypeOK'
    BY <2>1, <2>2 DEF DeliveryInv, DeliveryTypeOK, StoreTypeOK, storeVars
  <2>4. ReaderInv(r)'
    <3>1. log' = log /\ Len(log) \in Nat
      BY <2>1, LogIsLong DEF DeliveryInv, StoreInv, storeVars
    <3> QED
      BY <2>1, <3>1 DEF ReaderInv
  <2>5. sent'[r] = [i \in DOMAIN sent'[r] |-> i]
    BY <2>1
  <2> QED
    BY <2>1, <2>3, <2>4, <2>5, DeliveryReadStep
<1>4. ASSUME NEW r \in Reader, Replay(r) PROVE DeliveryInv'
  BY <1>4, DeliverySendStep DEF Replay
<1>5. ASSUME NEW r \in Reader, Poll(r) PROVE DeliveryInv'
  BY <1>5, DeliverySendStep DEF Poll
<1>6. ASSUME NEW r \in Reader, Drain(r) PROVE DeliveryInv'
  BY <1>6, DeliverySendStep DEF Drain
<1>7. ASSUME NEW r \in Reader, AfterReplay(r) PROVE DeliveryInv'
  <2>1. ~tailed[r] /\ UNCHANGED <<storeVars, owed, sent, overdue>>
    BY <1>1, <1>7 DEF AfterReplay, ReaderInv, Replaying
  <2>2. \/ conn' = [conn EXCEPT ![r] = "ended"] /\ tailed' = tailed
        \/ conn' = [conn EXCEPT ![r] = "tail"] /\ tailed' = [tailed EXCEPT ![r] = TRUE]
    BY <1>7 DEF AfterReplay, Go
  <2>3. /\ conn' \in [Reader -> Standing] /\ tailed' \in [Reader -> BOOLEAN]
        /\ conn'[r] = "ended" => tailed'[r] = tailed[r]
        /\ conn'[r] \in {"ended", "tail"}
        /\ \A q \in Reader : q # r => conn'[q] = conn[q] /\ tailed'[q] = tailed[q]
    BY <1>1, <2>2 DEF Standing, Open, Tailing
  <2> QED
    BY <1>1, <2>1, <2>3, DeliveryQuietStep DEF Replaying
<1>8. ASSUME NEW r \in Reader, AfterPoll(r) PROVE DeliveryInv'
  <2>1. UNCHANGED <<storeVars, owed, sent, tailed, overdue>>
    BY <1>8 DEF AfterPoll
  <2>2. PICK place \in {"drain", "tail"} : conn' = [conn EXCEPT ![r] = place] /\ (place = "drain" /\ ~overdue[r] => Settled)
    BY <1>8 DEF AfterPoll, Go
  <2>3. /\ conn' \in [Reader -> Standing] /\ conn'[r] = place
        /\ \A q \in Reader : q # r => conn'[q] = conn[q]
    BY <1>1, <2>2 DEF Standing, Open, Tailing
  <2> QED
    BY <1>1, <2>1, <2>2, <2>3, DeliveryQuietStep DEF Replaying
<1>9. ASSUME NEW r \in Reader, QueryFails(r) \/ Disconnect(r) PROVE DeliveryInv'
  <2>1. UNCHANGED <<storeVars, owed, sent, tailed, overdue>>
    BY <1>9 DEF QueryFails, Disconnect
  <2>2. PICK place \in {"failed", "stuck", "gone"} : conn' = [conn EXCEPT ![r] = place]
    BY <1>9 DEF QueryFails, Disconnect, Go
  <2>3. /\ conn' \in [Reader -> Standing] /\ conn'[r] = place
        /\ \A q \in Reader : q # r => conn'[q] = conn[q]
    BY <1>1, <2>2 DEF Standing
  <2> QED
    BY <1>1, <2>1, <2>2, <2>3, DeliveryQuietStep DEF Replaying
<1>10. ASSUME NEW r \in Reader, TimeUp(r) PROVE DeliveryInv'
  <2>1. UNCHANGED <<storeVars, owed, conn, sent, tailed>> /\ overdue' = [overdue EXCEPT ![r] = TRUE] /\ conn[r] # "ended"
    BY <1>10 DEF TimeUp, Open, Replaying, Tailing
  <2>2. overdue' \in [Reader -> BOOLEAN] /\ overdue'[r] /\ \A q \in Reader : q # r => overdue'[q] = overdue[q]
    BY <1>1, <2>1
  <2>3. conn[r] \in Replaying => ~tailed[r]
    BY <1>1 DEF ReaderInv
  <2> QED
    BY <1>1, <2>1, <2>2, <2>3, DeliveryQuietStep
<1>11. CASE UNCHANGED deliveryVars
  <2>1. UNCHANGED <<status, fencing, lease, leaseOwner, log, held, entry, conn, sent, tailed, overdue, owed>>
    BY <1>11 DEF deliveryVars, storeVars, readVars
  <2>2. StoreInv' /\ StoreTypeOK'
    BY <2>1, StoreNextInv DEF DeliveryInv, StoreInv, storeVars
  <2> QED
    BY <2>1, <2>2 DEF DeliveryInv, DeliveryTypeOK, LogNumbered, Settled, DeliveredInOrder, ReaderInv
<1> QED
  BY <1>2, <1>3, <1>4, <1>5, <1>6, <1>7, <1>8, <1>9, <1>10, <1>11 DEF DeliveryNext, Handler

LEMMA DeliveryHolds == DeliveryInv => DeliveryTypeOK /\ DeliveredInOrder /\ TailDeliversTheEnding
<1> SUFFICES ASSUME DeliveryInv, NEW r \in Reader, conn[r] = "ended", tailed[r], ~overdue[r]
             PROVE  Settled /\ \A i \in 1..owed : Delivered(r, i)
  BY DEF DeliveryInv, TailDeliversTheEnding
<1>1. /\ ReaderInv(r) /\ LogNumbered /\ owed \in Nat /\ owed <= Len(log)
      /\ sent[r] \in Seq(1..MaxSeq) /\ log \in Seq(EventType)
      /\ sent[r] = [j \in DOMAIN sent[r] |-> j]
  BY StoreAssumption DEF DeliveryInv, DeliveryTypeOK, StoreTypeOK, DeliveredInOrder
<1>2. Settled /\ owed <= Len(sent[r])
  BY <1>1 DEF ReaderInv
<1>3. ASSUME NEW i \in 1..owed PROVE Delivered(r, i)
  <2>1. i \in DOMAIN log /\ i \in 1..Len(sent[r]) /\ DOMAIN sent[r] = 1..Len(sent[r])
    BY <1>1, <1>2
  <2>2. sent[r][i] = i /\ log[i].seq = i
    BY <1>1, <2>1 DEF LogNumbered
  <2> QED
    BY <2>1, <2>2 DEF Delivered, Contains
<1> QED
  BY <1>2, <1>3
-----------------------------------------------------------------------------
(* The workbench.                                                          *)
WorkbenchInv == WorkbenchTypeOK /\ (deciding.at = "post" => deciding.of # 0)

SendType == [at : {"none", "upload", "post", "listen", "over"}, line : {"none", "streaming", "complete", "error"},
             frames : 0..MaxFrames, again : 0..MaxSends]

LEMMA NextSendIsOne == ASSUME Unbegun # {} PROVE NextSend \in Sends
<1>1. Unbegun \in SUBSET Nat
  BY WorkbenchAssumption DEF Unbegun, Sends
<1>2. \E x \in Unbegun : \A y \in Unbegun : x <= y
  BY <1>1, LeastOf
<1> QED
  BY <1>2 DEF NextSend, Min, Unbegun

LEMMA WorkbenchInitInv == WorkbenchInit => WorkbenchInv
<1> SUFFICES ASSUME WorkbenchInit PROVE WorkbenchInv
  OBVIOUS
<1>1. MaxSends \in Nat /\ MaxFrames \in Nat
  BY WorkbenchAssumption
<1>2. Blank \in SendType
  BY <1>1 DEF Blank, SendType
<1>3. sends \in [Sends -> SendType]
  BY <1>2 DEF WorkbenchInit
<1>4. deciding \in [at : {"none", "post", "resend"}, decision : {"none", "granted", "denied"}, of : 0..MaxSends]
      /\ deciding.at = "none"
  BY <1>1 DEF WorkbenchInit, NoDecision
<1>5. /\ streaming \in BOOLEAN /\ attached \in BOOLEAN /\ desktop \in BOOLEAN
      /\ pending \in 0..MaxSends /\ grants \subseteq Sends
  <2>1. attached \in BOOLEAN /\ desktop \in BOOLEAN /\ streaming \in BOOLEAN
    BY Zenon DEF WorkbenchInit
  <2>2. pending \in 0..MaxSends /\ grants \subseteq Sends
    BY <1>1 DEF WorkbenchInit
  <2> QED
    BY <2>1, <2>2
<1> QED
  BY <1>3, <1>4, <1>5 DEF WorkbenchInv, WorkbenchTypeOK, SendType

LEMMA SendMoves ==
  ASSUME WorkbenchInv, NEW s \in Sends, NEW m \in SendType, sends' = [sends EXCEPT ![s] = m],
         streaming' \in BOOLEAN, attached' \in BOOLEAN, pending' \in 0..MaxSends, grants' \subseteq Sends,
         UNCHANGED <<deciding, desktop>>
  PROVE  WorkbenchInv'
  BY DEF WorkbenchInv, WorkbenchTypeOK, SendType

LEMMA StartStreamTyped ==
  ASSUME WorkbenchInv, NEW s \in Sends, NEW again \in 0..MaxSends, StartStream(s, again)
  PROVE  /\ streaming' = TRUE
         /\ \E m \in SendType : sends' = [sends EXCEPT ![s] = m]
<1>1. sends[s] \in SendType
  BY DEF WorkbenchInv, WorkbenchTypeOK, SendType
<1>2. [sends[s] EXCEPT !.at = "post", !.line = "streaming", !.again = again] \in SendType
  BY <1>1 DEF SendType
<1> QED
  BY <1>2 DEF StartStream

LEMMA EndsTyped ==
  ASSUME WorkbenchInv, NEW s \in Sends, NEW line \in {"none", "streaming", "complete", "error"}, Ends(s, line)
  PROVE  /\ streaming' = FALSE
         /\ \E m \in SendType : sends' = [sends EXCEPT ![s] = m]
<1>1. sends[s] \in SendType
  BY DEF WorkbenchInv, WorkbenchTypeOK, SendType
<1>2. [sends[s] EXCEPT !.at = "over", !.line = line] \in SendType
  BY <1>1 DEF SendType
<1>3. sends' = [sends EXCEPT ![s] = [sends[s] EXCEPT !.at = "over", !.line = line]]
  BY <1>1 DEF Ends, SendType
<1> QED
  BY <1>2, <1>3 DEF Ends

LEMMA WorkbenchStep == WorkbenchInv /\ [WorkbenchNext]_workbenchVars => WorkbenchInv'
<1> SUFFICES ASSUME WorkbenchInv, [WorkbenchNext]_workbenchVars PROVE WorkbenchInv'
  OBVIOUS
<1>1. /\ MaxSends \in Nat /\ MaxFrames \in Nat /\ sends \in [Sends -> SendType]
      /\ streaming \in BOOLEAN /\ attached \in BOOLEAN /\ desktop \in BOOLEAN /\ pending \in 0..MaxSends
      /\ deciding \in [at : {"none", "post", "resend"}, decision : {"none", "granted", "denied"}, of : 0..MaxSends]
      /\ grants \subseteq Sends
  BY WorkbenchAssumption DEF WorkbenchInv, WorkbenchTypeOK, SendType
<1>2. CASE SubmitText
  <2>1. NextSend \in Sends /\ UNCHANGED <<attached, pending, deciding, grants, desktop>>
    BY <1>2, NextSendIsOne DEF SubmitText
  <2>2. CASE attached
    <3>1. [sends[NextSend] EXCEPT !.at = "upload"] \in SendType
      BY <1>1, <2>1 DEF SendType
    <3>2. sends' = [sends EXCEPT ![NextSend] = [sends[NextSend] EXCEPT !.at = "upload"]] /\ streaming' = streaming
      BY <1>2, <2>2 DEF SubmitText
    <3> QED
      BY <1>1, <2>1, <3>1, <3>2, SendMoves
  <2>3. CASE ~attached
    <3>1. 0 \in 0..MaxSends /\ StartStream(NextSend, 0)
      BY <1>1, <1>2, <2>3 DEF SubmitText
    <3> QED
      BY <1>1, <2>1, <3>1, StartStreamTyped, SendMoves
  <2> QED
    BY <2>2, <2>3
<1>3. CASE Attach
  BY <1>3 DEF Attach, WorkbenchInv, WorkbenchTypeOK
<1>4. ASSUME NEW s \in Sends, Uploaded(s) PROVE WorkbenchInv'
  <2>1. UNCHANGED <<pending, deciding, grants, desktop>>
    BY <1>4 DEF Uploaded
  <2>2. CASE StartStream(s, 0) /\ attached' = FALSE
    <3>1. 0 \in 0..MaxSends
      BY <1>1
    <3>2. PICK m \in SendType : streaming' = TRUE /\ sends' = [sends EXCEPT ![s] = m]
      BY <2>2, <3>1, StartStreamTyped
    <3>3. streaming' \in BOOLEAN /\ attached' \in BOOLEAN /\ pending' \in 0..MaxSends /\ grants' \subseteq Sends
          /\ UNCHANGED <<deciding, desktop>>
      BY <1>1, <2>1, <2>2, <3>2
    <3> QED
      BY <3>2, <3>3, SendMoves
  <2>3. CASE sends' = [sends EXCEPT ![s].at = "over"] /\ UNCHANGED <<streaming, attached>>
    <3>1. [sends[s] EXCEPT !.at = "over"] \in SendType
      BY <1>1 DEF SendType
    <3> QED
      BY <1>1, <2>1, <2>3, <3>1, SendMoves
  <2> QED
    BY <1>4, <2>2, <2>3 DEF Uploaded
<1>5. ASSUME NEW s \in Sends, Posted(s) PROVE WorkbenchInv'
  <2>1. [sends[s] EXCEPT !.at = "listen"] \in SendType
    BY <1>1 DEF SendType
  <2> QED
    BY <1>1, <1>5, <2>1, SendMoves DEF Posted
<1>6. ASSUME NEW s \in Sends, NEW line \in {"none", "streaming", "complete", "error"}, Ends(s, line),
             UNCHANGED <<attached, pending, deciding, grants, desktop>>
      PROVE  WorkbenchInv'
  BY <1>1, <1>6, EndsTyped, SendMoves, ZenonT(60)
<1>7. ASSUME NEW s \in Sends, IdleTimeout(s) \/ Closed(s) PROVE WorkbenchInv'
  <2>1. sends[s].line \in {"none", "streaming", "complete", "error"}
    BY <1>1 DEF SendType
  <2> QED
    BY <1>6, <1>7, <2>1 DEF IdleTimeout, Closed
<1>8. ASSUME NEW s \in Sends, Hear(s), sends' = [sends EXCEPT ![s].frames = @ + 1],
             UNCHANGED <<streaming, attached, deciding, grants, desktop>>, pending' \in 0..MaxSends
      PROVE  WorkbenchInv'
  <2>1. [sends[s] EXCEPT !.frames = @ + 1] \in SendType
    BY <1>1, <1>8 DEF SendType, Hear
  <2> QED
    BY <1>1, <1>8, <2>1, SendMoves
<1>9. ASSUME NEW s \in Sends, Delta(s) \/ AskApproval(s) PROVE WorkbenchInv'
  <2>1. s \in 0..MaxSends
    BY <1>1 DEF Sends
  <2> QED
    BY <1>1, <1>8, <1>9, <2>1 DEF Delta, AskApproval
<1>10. ASSUME NEW s \in Sends, ErrorFrame(s) PROVE WorkbenchInv'
  <2>1. CASE desktop
    BY <1>6, <1>10, <2>1 DEF ErrorFrame
  <2>2. CASE ~desktop
    BY <1>1, <1>8, <1>10, <2>2 DEF ErrorFrame
  <2> QED
    BY <2>1, <2>2
<1>11. ASSUME NEW s \in Sends, DoneFrame(s) PROVE WorkbenchInv'
  <2>1. [sends[s] EXCEPT !.line = "complete", !.frames = MaxFrames] \in SendType
    <3>1. sends[s] \in SendType /\ MaxFrames \in 0..MaxFrames
      BY <1>1
    <3> QED
      BY <3>1 DEF SendType
  <2>2. sends' = [sends EXCEPT ![s] = [sends[s] EXCEPT !.line = "complete", !.frames = MaxFrames]]
    BY <1>1, <1>11 DEF DoneFrame, SendType
  <2> QED
    BY <1>1, <1>11, <2>1, <2>2, SendMoves DEF DoneFrame
<1>12. ASSUME NEW decision \in {"granted", "denied"}, Decide(decision) PROVE WorkbenchInv'
  BY <1>1, <1>12 DEF Decide, WorkbenchInv, WorkbenchTypeOK
<1>13. CASE Decided
  <2>1. deciding.of \in Sends /\ deciding.of \in 0..MaxSends /\ UNCHANGED <<attached, desktop>> /\ pending' = 0
    BY <1>1, <1>13 DEF Decided, WorkbenchInv, Sends
  <2>2. CASE deciding.decision = "granted"
    <3>1. grants' \subseteq Sends /\ deciding' = [deciding EXCEPT !.at = "resend"] /\ Resend(deciding.of)
      BY <1>1, <1>13, <2>1, <2>2 DEF Decided
    <3>2. \/ sends' = sends /\ streaming' = streaming
          \/ streaming' = TRUE /\ \E s \in Sends, m \in SendType : sends' = [sends EXCEPT ![s] = m]
      BY <2>1, <3>1, NextSendIsOne, StartStreamTyped DEF Resend
    <3>3. sends' \in [Sends -> SendType] /\ streaming' \in BOOLEAN
      BY <1>1, <3>2
    <3>4. /\ deciding' \in [at : {"none", "post", "resend"}, decision : {"none", "granted", "denied"}, of : 0..MaxSends]
          /\ deciding'.at = "resend"
      BY <1>1, <3>1
    <3>5. attached' \in BOOLEAN /\ desktop' \in BOOLEAN /\ pending' \in 0..MaxSends
      BY <1>1, <2>1
    <3> QED
      BY <3>1, <3>3, <3>4, <3>5 DEF WorkbenchInv, WorkbenchTypeOK, SendType
  <2>3. CASE deciding.decision # "granted"
    <3>1. streaming' \in BOOLEAN /\ deciding' = NoDecision /\ UNCHANGED <<sends, grants>>
      BY <1>13, <2>3 DEF Decided
    <3>2. /\ NoDecision \in [at : {"none", "post", "resend"}, decision : {"none", "granted", "denied"}, of : 0..MaxSends]
          /\ NoDecision.at = "none"
      BY <1>1 DEF NoDecision
    <3>3. attached' \in BOOLEAN /\ desktop' \in BOOLEAN /\ pending' \in 0..MaxSends
      BY <1>1, <2>1
    <3> QED
      BY <1>1, <3>1, <3>2, <3>3 DEF WorkbenchInv, WorkbenchTypeOK, SendType
  <2> QED
    BY <2>2, <2>3
<1>14. CASE DecideFails \/ ResendOver
  BY <1>1, <1>14 DEF DecideFails, ResendOver, WorkbenchInv, WorkbenchTypeOK, NoDecision
<1>15. CASE UNCHANGED workbenchVars
  BY <1>15 DEF workbenchVars, WorkbenchInv, WorkbenchTypeOK
<1> QED
  BY <1>2, <1>3, <1>4, <1>5, <1>7, <1>9, <1>10, <1>11, <1>12, <1>13, <1>14, <1>15 DEF WorkbenchNext, StreamMoves
-----------------------------------------------------------------------------
(* Voice input.  That a cut keeps the order needs to be known of the       *)
(* frames kept from before speech as well, and that nothing heard is later *)
(* than the last frame; that a segment thrown away is a single frame rests *)
(* on silence coming one frame after speech at the earliest.  The          *)
(* microphone that is on is the one that was asked for, as long as no two  *)
(* were asked for at once.                                                 *)
UpTo(q, n) == \A i \in DOMAIN q : q[i] <= n

HeldInv ==
  ~sound.met => /\ On = IF mic.listening THEN {mic.recorder} ELSE {}
                /\ Waiting # {} => Waiting = {mic.recorder} /\ ~mic.listening

HeardInv(r) ==
  LET rec == recorders[r] IN
  /\ Rising(rec.chunks) /\ Rising(rec.before)
  /\ UpTo(rec.chunks, sound.frames) /\ UpTo(rec.before, sound.frames)
  /\ rec.speaking <=> rec.chunks # <<>>
  /\ rec.silence => Len(rec.chunks) >= 2
  /\ rec.speaking => rec.before = <<>>

CutInv(r) ==
  \A s \in SentBy(r) :
    /\ Rising(segments[s].frames) /\ UpTo(segments[s].frames, sound.frames)
    /\ Precedes(segments[s].frames, recorders[r].chunks) /\ Precedes(segments[s].frames, recorders[r].before)
    /\ \A t \in SentBy(r) : s < t => Precedes(segments[s].frames, segments[t].frames)

LostInv(r) == sound.lost[r] # {} => recorders[r].pc = "off" /\ Cardinality(sound.lost[r]) = 1

SpeechInv(r) ==
  \A f \in sound.speech[r] :
    \/ f \in sound.lost[r] \/ f \in ToSet(recorders[r].chunks)
    \/ \E s \in SentBy(r) : f \in ToSet(segments[s].frames)

RecorderInv(r) == HeardInv(r) /\ CutInv(r) /\ LostInv(r) /\ SpeechInv(r)

VoiceInv ==
  /\ VoiceTypeOK /\ Len(recorders) <= MaxRecorders /\ HeldInv /\ SignGoesOut
  /\ \A s \in DOMAIN segments : segments[s].by \in DOMAIN recorders
  /\ \A r \in Recorder : r \notin DOMAIN recorders => sound.speech[r] = {} /\ sound.lost[r] = {}
  /\ \A r \in DOMAIN recorders : RecorderInv(r)

LEMMA SeqExcept ==
  ASSUME NEW S, NEW q \in Seq(S), NEW i \in DOMAIN q, NEW x \in S
  PROVE  /\ [q EXCEPT ![i] = x] \in Seq(S) /\ Len([q EXCEPT ![i] = x]) = Len(q)
         /\ DOMAIN [q EXCEPT ![i] = x] = DOMAIN q
         /\ [q EXCEPT ![i] = x][i] = x /\ \A j \in DOMAIN q : j # i => [q EXCEPT ![i] = x][j] = q[j]
  OBVIOUS

LEMMA LastFramesOf ==
  ASSUME NEW S, NEW q \in Seq(S), NEW n \in Nat
  PROVE  /\ LastFrames(q, n) \in Seq(S)
         /\ \E d \in Nat : /\ Len(LastFrames(q, n)) = Len(q) - d /\ d <= Len(q)
                           /\ \A i \in DOMAIN LastFrames(q, n) : i + d \in DOMAIN q /\ LastFrames(q, n)[i] = q[i + d]
<1>1. PICK m \in Nat : m = Min({n, Len(q)}) /\ m <= Len(q)
  <2>1. n \in Nat /\ Len(q) \in Nat
    OBVIOUS
  <2>2. \E x \in {n, Len(q)} : \A y \in {n, Len(q)} : x <= y
    BY <2>1
  <2>3. Min({n, Len(q)}) \in {n, Len(q)} /\ \A y \in {n, Len(q)} : Min({n, Len(q)}) <= y
    BY <2>2 DEF Min
  <2> QED
    BY <2>1, <2>3
<1>2. LastFrames(q, n) = SubSeq(q, Len(q) - m + 1, Len(q))
  BY <1>1 DEF LastFrames
<1>3. PICK a \in Nat, b \in Nat : a = Len(q) - m + 1 /\ b = Len(q) /\ a <= b + 1 /\ a >= 1
  BY <1>1
<1>4. SubSeq(q, a, b) \in Seq(S) /\ Len(SubSeq(q, a, b)) = b - a + 1
  BY <1>3
<1>5. ASSUME NEW i \in 1..(b - a + 1) PROVE SubSeq(q, a, b)[i] = q[i + (a - 1)] /\ i + (a - 1) \in DOMAIN q
  BY <1>3
<1>6. DOMAIN SubSeq(q, a, b) = 1..(b - a + 1)
  BY <1>4
<1>7. a - 1 \in Nat /\ a - 1 <= Len(q) /\ b - a + 1 = Len(q) - (a - 1)
  BY <1>3
<1>8. LastFrames(q, n) = SubSeq(q, a, b)
  BY <1>2, <1>3
<1> QED
  BY <1>4, <1>5, <1>6, <1>7, <1>8

\* One frame more, later than all others.
LEMMA FrameIsAdded ==
  ASSUME NEW q \in Seq(Nat), NEW n \in Nat, Rising(q), UpTo(q, n)
  PROVE  /\ Rising(Append(q, n + 1)) /\ UpTo(Append(q, n + 1), n + 1) /\ Append(q, n + 1) # <<>>
         /\ ToSet(Append(q, n + 1)) = ToSet(q) \cup {n + 1}
         /\ \A p \in Seq(Nat) : UpTo(p, n) /\ Precedes(p, q) => Precedes(p, Append(q, n + 1))
<1>1. /\ DOMAIN Append(q, n + 1) = 1..(Len(q) + 1) /\ DOMAIN q = 1..Len(q) /\ Len(q) \in Nat
      /\ \A i \in DOMAIN q : Append(q, n + 1)[i] = q[i] /\ q[i] \in Nat /\ i \in Nat
      /\ Append(q, n + 1)[Len(q) + 1] = n + 1
  OBVIOUS
<1>2. \A i \in DOMAIN Append(q, n + 1) : i \in DOMAIN q \/ i = Len(q) + 1
  BY <1>1
<1>3. Rising(Append(q, n + 1))
  <2> SUFFICES ASSUME NEW i \in DOMAIN Append(q, n + 1), NEW j \in DOMAIN Append(q, n + 1), i < j
               PROVE  Append(q, n + 1)[i] < Append(q, n + 1)[j]
    BY DEF Rising
  <2>1. i \in DOMAIN q
    BY <1>1
  <2>2. CASE j \in DOMAIN q
    BY <1>1, <2>1, <2>2 DEF Rising
  <2>3. CASE j = Len(q) + 1
    BY <1>1, <2>1, <2>3 DEF UpTo
  <2> QED
    BY <1>2, <2>2, <2>3
<1>4. UpTo(Append(q, n + 1), n + 1)
  BY <1>1, <1>2 DEF UpTo
<1>5. ToSet(Append(q, n + 1)) = ToSet(q) \cup {n + 1}
  <2>1. ASSUME NEW x PROVE x \in ToSet(Append(q, n + 1)) <=> x \in ToSet(q) \/ x = n + 1
    BY <1>1, <1>2 DEF ToSet
  <2> QED
    BY <2>1
<1>6. ASSUME NEW p \in Seq(Nat), UpTo(p, n), Precedes(p, q) PROVE Precedes(p, Append(q, n + 1))
  <2> SUFFICES ASSUME NEW i \in DOMAIN p, NEW j \in DOMAIN Append(q, n + 1) PROVE p[i] < Append(q, n + 1)[j]
    BY DEF Precedes
  <2>1. p[i] \in Nat /\ p[i] <= n
    BY <1>6 DEF UpTo
  <2>2. CASE j \in DOMAIN q
    BY <1>1, <1>6, <2>2 DEF Precedes
  <2>3. CASE j = Len(q) + 1
    BY <1>1, <2>1, <2>3
  <2> QED
    BY <1>2, <2>2, <2>3
<1>7. Append(q, n + 1) # <<>>
  BY <1>1
<1> QED
  BY <1>3, <1>4, <1>5, <1>6, <1>7

\* The last frames of a list keep its order.
LEMMA FramesAreLast ==
  ASSUME NEW q \in Seq(Nat), NEW n \in Nat, NEW m \in Nat, Rising(q), UpTo(q, n)
  PROVE  /\ Rising(LastFrames(q, m)) /\ UpTo(LastFrames(q, m), n)
         /\ \A p \in Seq(Nat) : Precedes(p, q) => Precedes(p, LastFrames(q, m))
<1>1. LastFrames(q, m) \in Seq(Nat)
  BY LastFramesOf
<1>2. PICK d \in Nat : \A i \in DOMAIN LastFrames(q, m) : i + d \in DOMAIN q /\ LastFrames(q, m)[i] = q[i + d]
  BY LastFramesOf
<1>3. PICK w \in Seq(Nat) : w = LastFrames(q, m)
  BY <1>1
<1>4. \A i \in DOMAIN w : i \in Nat /\ i + d \in DOMAIN q /\ w[i] = q[i + d]
  BY <1>2, <1>3, SMTT(60)
<1>5. Rising(w)
  <2> SUFFICES ASSUME NEW i \in DOMAIN w, NEW j \in DOMAIN w, i < j PROVE w[i] < w[j]
    BY DEF Rising
  <2>1. i + d < j + d
    BY <1>4
  <2> QED
    BY <1>4, <2>1 DEF Rising
<1>6. UpTo(w, n) /\ \A p \in Seq(Nat) : Precedes(p, q) => Precedes(p, w)
  BY <1>4 DEF UpTo, Precedes
<1> QED
  BY <1>3, <1>5, <1>6
LEMMA VoiceFacts ==
  ASSUME VoiceInv
  PROVE  /\ PreRoll \in Nat /\ Shortest \in Nat /\ Shortest <= 2 /\ MaxRecorders \in Nat /\ MaxHeard \in Nat
         /\ DOMAIN recorders = 1..Len(recorders) /\ Len(recorders) \in Nat /\ DOMAIN recorders \subseteq Recorder
         /\ \A r \in DOMAIN recorders :
              /\ recorders[r] \in RecorderType
              /\ recorders[r].chunks \in Seq(Frame) /\ recorders[r].before \in Seq(Frame)
              /\ recorders[r].chunks \in Seq(Nat) /\ recorders[r].before \in Seq(Nat)
         /\ \A s \in DOMAIN segments : segments[s].frames \in Seq(Frame) /\ segments[s].frames \in Seq(Nat)
         /\ DOMAIN segments = 1..Len(segments) /\ Len(segments) \in Nat
         /\ Frame \subseteq Nat /\ sound.frames \in Nat
<1>1. PreRoll \in Nat /\ Shortest \in Nat /\ Shortest <= 2 /\ MaxRecorders \in Nat /\ MaxHeard \in Nat
  BY VoiceAssumption
<1>2. recorders \in Seq(RecorderType) /\ segments \in Seq(SegmentType) /\ sound.frames \in 0..MaxHeard
  BY DEF VoiceInv, VoiceTypeOK
<1>3. /\ DOMAIN recorders = 1..Len(recorders) /\ Len(recorders) \in Nat /\ DOMAIN recorders \subseteq Recorder
      /\ DOMAIN segments = 1..Len(segments) /\ Len(segments) \in Nat
  BY <1>1, <1>2 DEF VoiceInv, Recorder
<1>4. Frame \subseteq Nat /\ \A q \in Seq(Frame) : q \in Seq(Nat)
  BY <1>1 DEF Frame
<1>5. ASSUME NEW r \in DOMAIN recorders
      PROVE  recorders[r] \in RecorderType /\ recorders[r].chunks \in Seq(Frame) /\ recorders[r].before \in Seq(Frame)
  <2>1. recorders[r] \in RecorderType
    BY <1>2
  <2> QED
    BY <2>1 DEF RecorderType
<1>6. ASSUME NEW s \in DOMAIN segments PROVE segments[s].frames \in Seq(Frame)
  <2>1. segments[s] \in SegmentType
    BY <1>2
  <2> QED
    BY <2>1 DEF SegmentType
<1> QED
  BY <1>1, <1>2, <1>3, <1>4, <1>5, <1>6

\* The frames of a recorder, its segments and what was heard are as they were; time may
\* have passed.
SameRecorder(r) ==
  /\ recorders'[r].chunks = recorders[r].chunks /\ recorders'[r].before = recorders[r].before
  /\ recorders'[r].speaking = recorders[r].speaking /\ recorders'[r].silence = recorders[r].silence
  /\ recorders[r].pc = "off" => recorders'[r].pc = "off"
SameSound(r) ==
  /\ sound'.speech[r] = sound.speech[r] /\ sound'.lost[r] = sound.lost[r]
  /\ sound'.frames \in Nat /\ sound.frames <= sound'.frames
SameSegments(r) ==
  /\ \A s : s \in SentBy(r)' <=> s \in SentBy(r)
  /\ \A s \in SentBy(r) : segments'[s].frames = segments[s].frames

LEMMA LaterIsFine ==
  ASSUME NEW q \in Seq(Nat), NEW n \in Nat, NEW m \in Nat, n <= m, UpTo(q, n) PROVE UpTo(q, m)
<1>1. \A i \in DOMAIN q : q[i] \in Nat
  OBVIOUS
<1> QED
  BY <1>1 DEF UpTo

LEMMA RecorderStays ==
  ASSUME VoiceInv, NEW r \in DOMAIN recorders, SameRecorder(r), SameSound(r), SameSegments(r)
  PROVE  RecorderInv(r)'
<1>1. RecorderInv(r)
  BY DEF VoiceInv
<1>2. HeardInv(r)'
  <2>1. UpTo(recorders[r].chunks, sound'.frames) /\ UpTo(recorders[r].before, sound'.frames)
    BY <1>1, VoiceFacts, LaterIsFine DEF RecorderInv, HeardInv, SameSound
  <2> QED
    BY <1>1, <2>1 DEF RecorderInv, HeardInv, SameRecorder
<1>3. CutInv(r)'
  <2> SUFFICES ASSUME NEW s \in SentBy(r)
               PROVE  /\ Rising(segments'[s].frames) /\ UpTo(segments'[s].frames, sound'.frames)
                      /\ Precedes(segments'[s].frames, recorders'[r].chunks)
                      /\ Precedes(segments'[s].frames, recorders'[r].before)
                      /\ \A t \in SentBy(r) : s < t => Precedes(segments'[s].frames, segments'[t].frames)
    BY DEF CutInv, SameSegments
  <2>1. segments[s].frames \in Seq(Nat) /\ sound.frames \in Nat
    BY VoiceFacts DEF SentBy
  <2>2. UpTo(segments[s].frames, sound'.frames)
    BY <1>1, <2>1, LaterIsFine DEF RecorderInv, CutInv, SameSound
  <2> QED
    BY <1>1, <2>2 DEF RecorderInv, CutInv, SameSegments, SameRecorder
<1>4. LostInv(r)' /\ SpeechInv(r)'
  BY <1>1 DEF RecorderInv, LostInv, SpeechInv, SameRecorder, SameSound, SameSegments
<1> QED
  BY <1>2, <1>3, <1>4 DEF RecorderInv

\* A step of one recorder.
LEMMA RecorderMoves ==
  ASSUME VoiceInv, VoiceTypeOK', SignGoesOut', NEW r \in DOMAIN recorders, NEW x \in RecorderType,
         recorders' = [recorders EXCEPT ![r] = x],
         \A q \in Recorder : q # r => SameSound(q),
         \/ segments' = segments
         \/ \E seg \in SegmentType : seg.by = r /\ segments' = Append(segments, seg),
         HeldInv', RecorderInv(r)'
  PROVE  VoiceInv'
<1>1. /\ DOMAIN recorders' = DOMAIN recorders /\ Len(recorders') = Len(recorders)
      /\ \A q \in DOMAIN recorders : q # r => recorders'[q] = recorders[q]
  BY SeqExcept DEF VoiceInv, VoiceTypeOK
<1>2. Len(recorders') <= MaxRecorders
  BY <1>1 DEF VoiceInv
<1>3. /\ \A s \in DOMAIN segments' : s \in DOMAIN segments \/ segments'[s].by = r
      /\ \A s \in DOMAIN segments : s \in DOMAIN segments' /\ segments'[s] = segments[s]
  <2>1. CASE segments' = segments
    BY <2>1
  <2>2. ASSUME NEW seg \in SegmentType, seg.by = r, segments' = Append(segments, seg)
        PROVE  <1>3!1 /\ <1>3!2
    <3>1. segments \in Seq(SegmentType)
      BY DEF VoiceInv, VoiceTypeOK
    <3> QED
      BY <2>2, <3>1, AppendFacts
  <2> QED
    BY <2>1, <2>2
<1>4. \A s \in DOMAIN segments' : segments'[s].by \in DOMAIN recorders'
  BY <1>1, <1>3 DEF VoiceInv
<1>5. \A q \in Recorder : q \notin DOMAIN recorders' => sound'.speech[q] = {} /\ sound'.lost[q] = {}
  BY <1>1 DEF VoiceInv, SameSound
<1>6. ASSUME NEW q \in DOMAIN recorders, q # r PROVE RecorderInv(q)'
  <2>1. SameRecorder(q) /\ SameSound(q)
    BY <1>1, <1>6, VoiceFacts DEF SameRecorder
  <2>2. SameSegments(q)
    BY <1>3, <1>6 DEF SameSegments, SentBy
  <2> QED
    BY <2>1, <2>2, RecorderStays
<1> QED
  BY <1>1, <1>2, <1>4, <1>5, <1>6 DEF VoiceInv
LEMMA VoiceInitInv == VoiceInit => VoiceInv
<1> SUFFICES ASSUME VoiceInit PROVE VoiceInv
  OBVIOUS
<1>1. PreRoll \in Nat /\ MaxRecorders \in Nat /\ MaxHeard \in Nat
  BY VoiceAssumption
<1>2. /\ mic \in [listening : BOOLEAN, transcribing : BOOLEAN, recorder : 0..MaxRecorders]
      /\ ~mic.listening /\ ~mic.transcribing
  BY <1>1 DEF VoiceInit
<1>3. /\ sound \in [frames : 0..MaxHeard, speech : [Recorder -> SUBSET Frame], lost : [Recorder -> SUBSET Frame], met : BOOLEAN]
      /\ \A r \in Recorder : sound.speech[r] = {} /\ sound.lost[r] = {}
  BY <1>1 DEF VoiceInit
<1>4. /\ recorders = <<>> /\ segments = <<>> /\ toggles = {} /\ DOMAIN recorders = {} /\ DOMAIN segments = {}
      /\ Len(recorders) = 0
  BY DEF VoiceInit
<1>5. VoiceTypeOK
  BY <1>2, <1>3, <1>4 DEF VoiceTypeOK
<1>6. On = {} /\ Waiting = {}
  BY <1>4 DEF On, Waiting
<1>7. HeldInv /\ SignGoesOut
  BY <1>2, <1>6 DEF HeldInv, SignGoesOut
<1> QED
  BY <1>1, <1>3, <1>4, <1>5, <1>7 DEF VoiceInv

\* Who is on and who waits, when one recorder moves.
LEMMA OnAndWaiting ==
  ASSUME VoiceInv, NEW r \in DOMAIN recorders, NEW x \in RecorderType, recorders' = [recorders EXCEPT ![r] = x]
  PROVE  /\ On' = IF x.pc = "on" THEN On \cup {r} ELSE On \ {r}
         /\ Waiting' = IF x.pc = "asking" THEN Waiting \cup {r} ELSE Waiting \ {r}
<1>1. /\ DOMAIN recorders' = DOMAIN recorders /\ recorders'[r] = x
      /\ \A q \in DOMAIN recorders : q # r => recorders'[q] = recorders[q]
  BY SeqExcept DEF VoiceInv, VoiceTypeOK
<1> QED
  BY <1>1 DEF On, Waiting

LEMMA OnlyPcMoves ==
  ASSUME VoiceInv, NEW r \in DOMAIN recorders, NEW x \in RecorderType, recorders' = [recorders EXCEPT ![r] = x],
         recorders[r].pc # "off", x.pc # "off",
         x.chunks = recorders[r].chunks, x.before = recorders[r].before,
         x.speaking = recorders[r].speaking, x.silence = recorders[r].silence,
         VoiceTypeOK', SignGoesOut', HeldInv', UNCHANGED <<segments, sound>>
  PROVE  VoiceInv'
<1>1. recorders'[r] = x
  BY SeqExcept DEF VoiceInv, VoiceTypeOK
<1>2. SameRecorder(r) /\ SameSegments(r)
  BY <1>1 DEF SameRecorder, SameSegments, SentBy
<1>3. \A q : SameSound(q)
  BY VoiceFacts DEF SameSound
<1>4. RecorderInv(r)'
  BY <1>2, <1>3, RecorderStays
<1> QED
  BY <1>3, <1>4, RecorderMoves

LEMMA VoiceToggleStep == ASSUME VoiceInv, NEW t \in Click, Toggle(t) \/ ConfigFails(t) PROVE VoiceInv'
<1>1. UNCHANGED <<mic, recorders, segments, sound>>
  BY DEF Toggle, ConfigFails
<1>2. toggles' \in SUBSET Click
  BY DEF Toggle, ConfigFails, VoiceInv, VoiceTypeOK
<1>3. VoiceTypeOK'
  BY <1>1, <1>2 DEF VoiceInv, VoiceTypeOK
<1>4. HeldInv' /\ SignGoesOut'
  BY <1>1 DEF VoiceInv, HeldInv, SignGoesOut, On, Waiting
<1>5. ASSUME NEW r \in DOMAIN recorders PROVE RecorderInv(r)'
  <2>1. SameRecorder(r) /\ SameSegments(r) /\ SameSound(r)
    BY <1>1, VoiceFacts DEF SameRecorder, SameSegments, SentBy, SameSound
  <2> QED
    BY <2>1, RecorderStays
<1> QED
  BY <1>1, <1>3, <1>4, <1>5 DEF VoiceInv

LEMMA VoiceStartStep == ASSUME VoiceInv, NEW t \in Click, StartListening(t) PROVE VoiceInv'
<1>1. toggles' \in SUBSET Click /\ segments' = segments
  BY DEF StartListening, VoiceInv, VoiceTypeOK
<1>2. CASE mic.listening
  <2>1. UNCHANGED <<mic, recorders, sound>>
    BY <1>2 DEF StartListening
  <2>2. VoiceTypeOK'
    BY <1>1, <2>1 DEF VoiceInv, VoiceTypeOK
  <2>3. HeldInv' /\ SignGoesOut'
    BY <1>1, <2>1 DEF VoiceInv, HeldInv, SignGoesOut, On, Waiting
  <2>4. ASSUME NEW r \in DOMAIN recorders PROVE RecorderInv(r)'
    <3>1. SameRecorder(r) /\ SameSegments(r) /\ SameSound(r)
      BY <1>1, <2>1, VoiceFacts DEF SameRecorder, SameSegments, SentBy, SameSound
    <3> QED
      BY <3>1, RecorderStays
  <2> QED
    BY <1>1, <2>1, <2>2, <2>3, <2>4 DEF VoiceInv
<1>3. CASE ~mic.listening
  <2>1. /\ Len(recorders) < MaxRecorders /\ recorders' = Append(recorders, NewRecorder)
        /\ mic' = [mic EXCEPT !.recorder = Len(recorders) + 1]
        /\ sound' = [sound EXCEPT !.met = @ \/ Waiting # {}]
    BY <1>3 DEF StartListening
  <2>2. PICK new \in DOMAIN recorders' : new = Len(recorders) + 1 /\ new \in Recorder /\ new \notin DOMAIN recorders
    BY <2>1, VoiceFacts, AppendFacts, SMTT(60) DEF VoiceInv, VoiceTypeOK, Recorder
  <2>3. NewRecorder \in RecorderType
    <3>1. <<>> \in Seq(Frame)
      OBVIOUS
    <3> QED
      BY <3>1 DEF NewRecorder, RecorderType
  <2>4. /\ recorders' \in Seq(RecorderType) /\ DOMAIN recorders' = DOMAIN recorders \cup {new}
        /\ recorders'[new] = NewRecorder /\ \A q \in DOMAIN recorders : recorders'[q] = recorders[q]
        /\ Len(recorders') <= MaxRecorders
    <3>1. recorders \in Seq(RecorderType) /\ Len(recorders) \in Nat /\ MaxRecorders \in Nat
      BY VoiceFacts DEF VoiceInv, VoiceTypeOK
    <3>2. DOMAIN recorders' = 1..(Len(recorders) + 1) /\ DOMAIN recorders = 1..Len(recorders)
      BY <2>1, <2>3, <3>1, AppendFacts
    <3> QED
      BY <2>1, <2>2, <2>3, <3>1, <3>2, AppendFacts
  <2>5. /\ mic'.listening = mic.listening /\ mic'.transcribing = mic.transcribing /\ mic'.recorder = new
        /\ mic' \in [listening : BOOLEAN, transcribing : BOOLEAN, recorder : 0..MaxRecorders]
    <3>1. mic \in [listening : BOOLEAN, transcribing : BOOLEAN, recorder : 0..MaxRecorders]
      BY DEF VoiceInv, VoiceTypeOK
    <3>2. new \in 0..MaxRecorders /\ mic' = [mic EXCEPT !.recorder = new]
      BY <2>1, <2>2, VoiceFacts DEF Recorder
    <3> QED
      BY <3>1, <3>2
  <2>6. /\ sound'.frames = sound.frames /\ sound'.speech = sound.speech /\ sound'.lost = sound.lost
        /\ sound' \in [frames : 0..MaxHeard, speech : [Recorder -> SUBSET Frame], lost : [Recorder -> SUBSET Frame], met : BOOLEAN]
        /\ ~sound'.met => ~sound.met /\ Waiting = {}
    BY <2>1 DEF VoiceInv, VoiceTypeOK
  <2>7. VoiceTypeOK'
    BY <1>1, <2>4, <2>5, <2>6 DEF VoiceInv, VoiceTypeOK
  <2>8. On' = On /\ Waiting' = Waiting \cup {new}
    BY <2>4 DEF On, Waiting, NewRecorder
  <2>9. HeldInv'
    BY <1>3, <2>5, <2>6, <2>8 DEF VoiceInv, HeldInv
  <2>10. SignGoesOut'
    BY <1>1, <2>5 DEF VoiceInv, SignGoesOut
  <2>11. ASSUME NEW r \in DOMAIN recorders PROVE RecorderInv(r)'
    <3>1. SameRecorder(r) /\ SameSegments(r) /\ SameSound(r)
      BY <1>1, <2>4, <2>6, VoiceFacts, SMTT(60) DEF SameRecorder, SameSegments, SentBy, SameSound
    <3> QED
      BY <3>1, RecorderStays
  <2>12. RecorderInv(new)'
    <3>1. SentBy(new)' = {} /\ sound'.speech[new] = {} /\ sound'.lost[new] = {}
      BY <1>1, <2>2, <2>6 DEF VoiceInv, SentBy
    <3>2. /\ recorders'[new].chunks = <<>> /\ recorders'[new].before = <<>> /\ recorders'[new].speaking = FALSE
          /\ recorders'[new].silence = FALSE
      BY <2>4 DEF NewRecorder
    <3> QED
      BY <3>1, <3>2 DEF RecorderInv, HeardInv, CutInv, LostInv, SpeechInv, Rising, UpTo
  <2> QED
    BY <1>1, <2>4, <2>6, <2>7, <2>9, <2>10, <2>11, <2>12 DEF VoiceInv
<1> QED
  BY <1>2, <1>3

LEMMA VoiceGrantStep ==
  ASSUME VoiceInv, NEW r \in Recorder, MicrophoneGranted(r) \/ SetUpFails(r) \/ MicrophoneRefused(r) PROVE VoiceInv'
<1>1. r \in Waiting /\ r \in DOMAIN recorders /\ recorders[r].pc = "asking" /\ UNCHANGED <<toggles, segments, sound>>
  BY DEF MicrophoneGranted, SetUpFails, MicrophoneRefused, Waiting
<1>2. PICK pc \in {"on", "refused", "broken"} :
        recorders' = [recorders EXCEPT ![r].pc = pc] /\ mic' = [mic EXCEPT !.listening = (pc = "on")]
  BY DEF MicrophoneGranted, SetUpFails, MicrophoneRefused
<1>3. PICK x \in RecorderType :
        /\ x = [recorders[r] EXCEPT !.pc = pc] /\ x.pc = pc
        /\ x.chunks = recorders[r].chunks /\ x.before = recorders[r].before
        /\ x.speaking = recorders[r].speaking /\ x.silence = recorders[r].silence
  <2>1. recorders[r] \in RecorderType
    BY <1>1, VoiceFacts
  <2>2. PICK x : x = [recorders[r] EXCEPT !.pc = pc]
    OBVIOUS
  <2>3. x \in RecorderType
    BY <2>1, <2>2 DEF RecorderType
  <2>4. /\ x.pc = pc /\ x.chunks = recorders[r].chunks /\ x.before = recorders[r].before
        /\ x.speaking = recorders[r].speaking /\ x.silence = recorders[r].silence
    BY <2>1, <2>2 DEF RecorderType
  <2> QED
    BY <2>2, <2>3, <2>4
<1>4. recorders' = [recorders EXCEPT ![r] = x]
  BY <1>2, <1>3
<1>5. recorders' \in Seq(RecorderType)
  BY <1>1, <1>4, SeqExcept DEF VoiceInv, VoiceTypeOK
<1>6. /\ mic'.listening = (pc = "on") /\ mic'.transcribing = mic.transcribing /\ mic'.recorder = mic.recorder
      /\ mic' \in [listening : BOOLEAN, transcribing : BOOLEAN, recorder : 0..MaxRecorders]
  BY <1>2 DEF VoiceInv, VoiceTypeOK
<1>7. VoiceTypeOK'
  BY <1>1, <1>5, <1>6 DEF VoiceInv, VoiceTypeOK
<1>8. SignGoesOut'
  BY <1>1, <1>6 DEF VoiceInv, SignGoesOut
<1>9. HeldInv'
  <2>1. On' = (IF pc = "on" THEN On \cup {r} ELSE On \ {r}) /\ Waiting' = Waiting \ {r}
    BY <1>1, <1>2, <1>3, <1>4, OnAndWaiting
  <2>2. ~sound.met => Waiting = {r} /\ mic.recorder = r /\ On = {}
    BY <1>1 DEF VoiceInv, HeldInv
  <2>3. pc = "on" => mic'.listening
    BY <1>6
  <2>4. pc # "on" => ~mic'.listening
    BY <1>6
  <2> QED
    BY <1>1, <1>6, <2>1, <2>2, <2>3, <2>4 DEF HeldInv
<1> QED
  BY <1>1, <1>2, <1>3, <1>4, <1>7, <1>8, <1>9, OnlyPcMoves
\* A segment that is cut: its frames go from the recorder to the list of segments.
LEMMA SegmentIsCut ==
  ASSUME VoiceInv, NEW r \in DOMAIN recorders, NEW x \in RecorderType, recorders' = [recorders EXCEPT ![r] = x],
         x.chunks = <<>>, x.speaking = FALSE, x.silence = FALSE, x.before \in {recorders[r].before, <<>>},
         recorders[r].pc = "off" => x.pc = "off",
         segments' = Append(segments, [by |-> r, frames |-> recorders[r].chunks, open |-> TRUE]),
         sound' = sound
  PROVE  RecorderInv(r)'
<1> DEFINE n == sound.frames
<1>1. RecorderInv(r) /\ recorders'[r] = x /\ recorders[r].chunks \in Seq(Nat) /\ recorders[r].before \in Seq(Nat)
  BY SeqExcept, VoiceFacts DEF VoiceInv, VoiceTypeOK
<1>2. PICK new \in Nat : new = Len(segments) + 1
  BY VoiceFacts, SMTT(60)
<1>3. /\ \A s : s \in SentBy(r)' <=> s \in SentBy(r) \/ s = new
      /\ \A s \in SentBy(r) : segments'[s].frames = segments[s].frames /\ s \in Nat /\ s < new
      /\ segments'[new].frames = recorders[r].chunks
  <2>1. segments \in Seq(SegmentType) /\ [by |-> r, frames |-> recorders[r].chunks, open |-> TRUE] \in SegmentType
    BY VoiceFacts DEF VoiceInv, VoiceTypeOK, SegmentType
  <2>2. /\ DOMAIN segments = 1..Len(segments) /\ Len(segments) \in Nat
        /\ DOMAIN segments' = 1..new
        /\ \A s \in DOMAIN segments : segments'[s] = segments[s]
        /\ segments'[new] = [by |-> r, frames |-> recorders[r].chunks, open |-> TRUE]
        /\ \A s \in DOMAIN segments' : s \in DOMAIN segments \/ s = new
    BY <1>2, <2>1, AppendFacts
  <2>3. new \in DOMAIN segments' /\ new \notin DOMAIN segments /\ segments'[new].by = r
    BY <1>2, <2>2
  <2> QED
    BY <1>2, <2>2, <2>3 DEF SentBy
<1>4. HeardInv(r)'
  <2>1. Rising(<<>>) /\ UpTo(<<>>, sound.frames)
    BY DEF Rising, UpTo
  <2> QED
    BY <1>1, <2>1 DEF RecorderInv, HeardInv
<1>5. CutInv(r)'
  <2>1. recorders[r].chunks = <<>> \/ x.before = <<>>
    BY <1>1 DEF RecorderInv, HeardInv
  <2>2. Precedes(recorders[r].chunks, x.before) /\ \A p : Precedes(p, <<>>)
    BY <2>1 DEF Precedes
  <2>3. ASSUME NEW s \in SentBy(r)
        PROVE  /\ Rising(segments[s].frames) /\ UpTo(segments[s].frames, sound.frames)
               /\ Precedes(segments[s].frames, recorders[r].chunks) /\ Precedes(segments[s].frames, x.before)
               /\ \A t \in SentBy(r) : s < t => Precedes(segments[s].frames, segments[t].frames)
    BY <1>1, <2>2 DEF RecorderInv, CutInv
  <2>4. Rising(recorders[r].chunks) /\ UpTo(recorders[r].chunks, sound.frames)
    BY <1>1 DEF RecorderInv, HeardInv
  <2>5. ASSUME NEW s \in SentBy(r)'
        PROVE  /\ Rising(segments'[s].frames) /\ UpTo(segments'[s].frames, sound.frames)
               /\ Precedes(segments'[s].frames, <<>>) /\ Precedes(segments'[s].frames, x.before)
    BY <1>3, <2>2, <2>3, <2>4
  <2>6. ASSUME NEW s \in SentBy(r)', NEW t \in SentBy(r)', s < t
        PROVE  Precedes(segments'[s].frames, segments'[t].frames)
    <3>1. s \in SentBy(r)
      BY <1>2, <1>3, <2>6
    <3>2. CASE t \in SentBy(r)
      BY <1>3, <2>3, <2>6, <3>1, <3>2
    <3>3. CASE t = new
      BY <1>3, <2>3, <3>1, <3>3
    <3> QED
      BY <1>3, <3>2, <3>3
  <2> QED
    BY <1>1, <2>5, <2>6 DEF CutInv
<1>6. LostInv(r)' /\ SpeechInv(r)'
  BY <1>1, <1>3 DEF RecorderInv, LostInv, SpeechInv
<1> QED
  BY <1>4, <1>5, <1>6 DEF RecorderInv

\* A segment that is too short is one frame, and lost.
LEMMA SegmentIsLost ==
  ASSUME VoiceInv, NEW r \in DOMAIN recorders, NEW x \in RecorderType, recorders' = [recorders EXCEPT ![r] = x],
         recorders[r].pc = "on", recorders[r].chunks # <<>>, ~LongEnough(recorders[r].chunks),
         x.chunks = <<>>, x.before = <<>>, x.speaking = FALSE, x.silence = FALSE, x.pc = "off",
         segments' = segments, sound'.lost[r] = sound.lost[r] \cup ToSet(recorders[r].chunks),
         sound'.frames = sound.frames, sound'.speech = sound.speech
  PROVE  RecorderInv(r)'
<1>1. RecorderInv(r) /\ recorders'[r] = x /\ recorders[r].chunks \in Seq(Nat)
  BY SeqExcept, VoiceFacts DEF VoiceInv, VoiceTypeOK
<1>2. SentBy(r)' = SentBy(r)
  BY DEF SentBy
<1>3. HeardInv(r)' /\ CutInv(r)'
  <2>1. Rising(<<>>) /\ UpTo(<<>>, sound.frames) /\ \A p : Precedes(p, <<>>)
    BY DEF Rising, UpTo, Precedes
  <2> QED
    BY <1>1, <1>2, <2>1 DEF RecorderInv, HeardInv, CutInv
<1>4. sound.lost[r] = {}
  BY <1>1 DEF RecorderInv, LostInv
<1>5. sound'.lost[r] = {recorders[r].chunks[1]}
  <2>1. Len(recorders[r].chunks) = 1
    <3>1. PICK k \in Nat : k = Len(recorders[r].chunks)
      BY <1>1
    <3>2. k # 0
      BY <1>1, <3>1
    <3>3. ~ (k >= Shortest)
      BY <3>1 DEF LongEnough
    <3>4. Shortest \in Nat /\ Shortest <= 2
      BY VoiceFacts
    <3>5. k = 1
      BY <3>2, <3>3, <3>4
    <3> QED
      BY <3>1, <3>5
  <2>2. ToSet(recorders[r].chunks) = {recorders[r].chunks[1]}
    BY <1>1, <2>1 DEF ToSet
  <2> QED
    BY <1>4, <2>2
<1>6. LostInv(r)'
  <2>1. Cardinality({recorders[r].chunks[1]}) = 1
    BY FS_Singleton
  <2> QED
    BY <1>1, <1>5, <2>1 DEF LostInv
<1>7. SpeechInv(r)'
  BY <1>1, <1>2 DEF RecorderInv, SpeechInv
<1> QED
  BY <1>3, <1>6, <1>7 DEF RecorderInv

LEMMA VoiceSilenceStep == ASSUME VoiceInv, NEW r \in Recorder, SilenceEnds(r) PROVE VoiceInv'
<1>1. r \in DOMAIN recorders /\ recorders[r].pc = "on" /\ recorders[r].silence /\ r \in On /\ toggles' = toggles
  BY DEF SilenceEnds, On
<1>2. LongEnough(recorders[r].chunks) /\ recorders[r] \in RecorderType /\ recorders[r].chunks \in Seq(Frame)
  <2>1. RecorderInv(r) /\ recorders[r].chunks \in Seq(Nat)
    BY <1>1, VoiceFacts DEF VoiceInv
  <2>2. Len(recorders[r].chunks) >= 2
    BY <1>1, <2>1 DEF RecorderInv, HeardInv
  <2> QED
    BY <1>1, <2>1, <2>2, VoiceFacts DEF LongEnough
<1>3. PICK seg \in SegmentType :
        seg = [by |-> r, frames |-> recorders[r].chunks, open |-> TRUE] /\ seg.by = r /\ seg.open
  <2>1. [by |-> r, frames |-> recorders[r].chunks, open |-> TRUE] \in SegmentType
    BY <1>2 DEF SegmentType
  <2> QED
    BY <2>1, Zenon
<1>4. segments' = Append(segments, seg) /\ sound' = sound /\ mic' = [mic EXCEPT !.transcribing = @ \/ LongEnough(recorders[r].chunks)]
  BY <1>2, <1>3 DEF SilenceEnds, Flush
<1>5. PICK x : x = [recorders[r] EXCEPT !.chunks = <<>>, !.speaking = FALSE, !.silence = FALSE]
  OBVIOUS
<1>6. x \in RecorderType
  <2>1. <<>> \in Seq(Frame)
    OBVIOUS
  <2> QED
    BY <1>2, <1>5, <2>1 DEF RecorderType
<1>7. /\ x.pc = "on" /\ x.chunks = <<>> /\ x.speaking = FALSE /\ x.silence = FALSE /\ x.before = recorders[r].before
      /\ recorders' = [recorders EXCEPT ![r] = x]
  <2>1. x.pc = "on" /\ x.chunks = <<>> /\ x.speaking = FALSE /\ x.silence = FALSE /\ x.before = recorders[r].before
    BY <1>1, <1>2, <1>5 DEF RecorderType
  <2>2. recorders' = [recorders EXCEPT ![r] = x]
    BY <1>1, <1>2, <1>5 DEF SilenceEnds, VoiceInv, VoiceTypeOK, RecorderType
  <2> QED
    BY <2>1, <2>2
<1>8. /\ mic'.listening = mic.listening /\ mic'.recorder = mic.recorder
      /\ mic' \in [listening : BOOLEAN, transcribing : BOOLEAN, recorder : 0..MaxRecorders]
  BY <1>4 DEF VoiceInv, VoiceTypeOK
<1>9. VoiceTypeOK'
  <2>1. recorders' \in Seq(RecorderType)
    BY <1>1, <1>6, <1>7, SeqExcept DEF VoiceInv, VoiceTypeOK
  <2>2. segments' \in Seq(SegmentType)
    BY <1>3, <1>4 DEF VoiceInv, VoiceTypeOK
  <2> QED
    BY <1>1, <1>4, <1>8, <2>1, <2>2 DEF VoiceInv, VoiceTypeOK
<1>10. SignGoesOut'
  <2>1. segments \in Seq(SegmentType)
    BY DEF VoiceInv, VoiceTypeOK
  <2>2. Len(segments) + 1 \in DOMAIN segments' /\ segments'[Len(segments) + 1] = seg
    BY <1>3, <1>4, <2>1, AppendFacts
  <2> QED
    BY <1>3, <2>2 DEF SignGoesOut
<1>11. HeldInv'
  <2>1. On' = On /\ Waiting' = Waiting
    <3>1. On' = On \cup {r} /\ Waiting' = Waiting \ {r}
      BY <1>1, <1>6, <1>7, OnAndWaiting
    <3> QED
      BY <1>1, <3>1 DEF Waiting
  <2> QED
    BY <1>4, <1>8, <2>1 DEF VoiceInv, HeldInv
<1>12. RecorderInv(r)'
  BY <1>1, <1>3, <1>4, <1>6, <1>7, SegmentIsCut
<1>13. \A q : SameSound(q)
  BY <1>4, VoiceFacts DEF SameSound
<1> QED
  BY <1>1, <1>3, <1>4, <1>6, <1>7, <1>9, <1>10, <1>11, <1>12, <1>13, RecorderMoves
LEMMA VoiceStopStep == ASSUME VoiceInv, StopListening PROVE VoiceInv'
<1>0. PICK r : r = mic.recorder
  OBVIOUS
<1> DEFINE cuts == r \in On /\ recorders[r].speaking /\ recorders[r].chunks # <<>>
<1>1. /\ mic.listening /\ toggles' = toggles
      /\ IF cuts THEN Flush(r) ELSE UNCHANGED <<segments, sound>>
      /\ mic' = [mic EXCEPT !.listening = FALSE, !.recorder = 0,
                            !.transcribing = @ \/ (cuts /\ LongEnough(recorders[r].chunks))]
      /\ recorders' = IF r \in On THEN [recorders EXCEPT ![r] = [NewRecorder EXCEPT !.pc = "off"]] ELSE recorders
  BY <1>0 DEF StopListening
<1>2. /\ ~mic'.listening /\ mic'.recorder = 0
      /\ mic'.transcribing => mic.transcribing \/ (cuts /\ LongEnough(recorders[r].chunks))
      /\ mic' \in [listening : BOOLEAN, transcribing : BOOLEAN, recorder : 0..MaxRecorders]
  <2>1. mic \in [listening : BOOLEAN, transcribing : BOOLEAN, recorder : 0..MaxRecorders] /\ 0 \in 0..MaxRecorders
    BY VoiceFacts DEF VoiceInv, VoiceTypeOK
  <2>2. PICK b \in BOOLEAN : b = (mic.transcribing \/ (cuts /\ LongEnough(recorders[r].chunks)))
    OBVIOUS
  <2>3. mic' = [mic EXCEPT !.listening = FALSE, !.recorder = 0, !.transcribing = b]
    BY <1>1, <2>2
  <2>4. /\ ~mic'.listening /\ mic'.recorder = 0 /\ mic'.transcribing = b
        /\ mic' \in [listening : BOOLEAN, transcribing : BOOLEAN, recorder : 0..MaxRecorders]
    BY <2>1, <2>3
  <2> QED
    BY <2>2, <2>4
<1>3. CASE r \notin On
  <2>1. UNCHANGED <<recorders, segments, sound>>
    BY <1>1, <1>3
  <2>2. VoiceTypeOK'
    BY <1>1, <1>2, <2>1 DEF VoiceInv, VoiceTypeOK
  <2>3. sound'.met
    BY <1>0, <1>1, <1>3, <2>1 DEF VoiceInv, HeldInv
  <2>4. SignGoesOut'
    BY <1>2, <1>3, <2>1 DEF VoiceInv, SignGoesOut
  <2>5. ASSUME NEW q \in DOMAIN recorders PROVE RecorderInv(q)'
    <3>1. SameRecorder(q) /\ SameSegments(q) /\ SameSound(q)
      BY <2>1, VoiceFacts DEF SameRecorder, SameSegments, SentBy, SameSound
    <3> QED
      BY <3>1, RecorderStays
  <2> QED
    BY <2>1, <2>2, <2>3, <2>4, <2>5 DEF VoiceInv, HeldInv
<1>4. CASE r \in On
  <2>1. r \in DOMAIN recorders /\ recorders[r].pc = "on" /\ recorders[r] \in RecorderType /\ r \in Recorder
        /\ recorders[r].chunks \in Seq(Frame)
    BY <1>4, VoiceFacts DEF On
  <2>2. PICK x : x = [NewRecorder EXCEPT !.pc = "off"]
    OBVIOUS
  <2>3. /\ x \in RecorderType /\ x.pc = "off" /\ x.chunks = <<>> /\ x.before = <<>> /\ x.speaking = FALSE /\ x.silence = FALSE
        /\ recorders' = [recorders EXCEPT ![r] = x]
    <3>1. <<>> \in Seq(Frame)
      OBVIOUS
    <3>2. x \in RecorderType
      BY <2>2, <3>1 DEF NewRecorder, RecorderType
    <3>3. x.pc = "off" /\ x.chunks = <<>> /\ x.before = <<>> /\ x.speaking = FALSE /\ x.silence = FALSE
      BY <2>2 DEF NewRecorder
    <3>4. recorders' = [recorders EXCEPT ![r] = x]
      BY <1>1, <1>4, <2>2
    <3> QED
      BY <3>2, <3>3, <3>4
  <2>4. recorders' \in Seq(RecorderType) /\ recorders'[r] = x
    BY <2>1, <2>3, SeqExcept DEF VoiceInv, VoiceTypeOK
  <2>5. ASSUME ~sound.met, sound'.met = sound.met
        PROVE  /\ On' = IF mic'.listening THEN {mic'.recorder} ELSE {}
               /\ Waiting' # {} => Waiting' = {mic'.recorder} /\ ~mic'.listening
    <3>1. On' = On \ {r} /\ Waiting' = Waiting \ {r}
      BY <2>1, <2>3, OnAndWaiting
    <3>2. On = {r} /\ Waiting = {}
      BY <1>0, <1>1, <2>5 DEF VoiceInv, HeldInv
    <3> QED
      BY <1>2, <3>1, <3>2
  <2>6. CASE ~cuts
    <3>1. UNCHANGED <<segments, sound>>
      BY <1>1, <2>6
    <3>2. VoiceTypeOK'
      BY <1>1, <1>2, <2>4, <3>1 DEF VoiceInv, VoiceTypeOK
    <3>3. HeldInv' /\ SignGoesOut'
      BY <1>2, <2>5, <2>6, <3>1 DEF VoiceInv, HeldInv, SignGoesOut
    <3>4. RecorderInv(r)'
      <4>1. RecorderInv(r) /\ recorders[r].chunks = <<>>
        BY <1>4, <2>1, <2>6 DEF VoiceInv, RecorderInv, HeardInv
      <4>2. SentBy(r)' = SentBy(r) /\ Rising(<<>>) /\ UpTo(<<>>, sound.frames) /\ \A p : Precedes(p, <<>>)
        BY <3>1 DEF SentBy, Rising, UpTo, Precedes
      <4>3. HeardInv(r)' /\ CutInv(r)'
        BY <2>3, <2>4, <3>1, <4>1, <4>2 DEF RecorderInv, HeardInv, CutInv
      <4>4. LostInv(r)' /\ SpeechInv(r)'
        BY <2>1, <2>3, <2>4, <3>1, <4>1, <4>2 DEF RecorderInv, LostInv, SpeechInv
      <4> QED
        BY <4>3, <4>4 DEF RecorderInv
    <3>5. \A q : SameSound(q)
      BY <3>1, VoiceFacts DEF SameSound
    <3> QED
      BY <2>1, <2>3, <3>1, <3>2, <3>3, <3>4, <3>5, RecorderMoves
  <2>7. CASE cuts /\ LongEnough(recorders[r].chunks)
    <3>1. PICK seg \in SegmentType :
            seg = [by |-> r, frames |-> recorders[r].chunks, open |-> TRUE] /\ seg.by = r /\ seg.open
      <4>1. [by |-> r, frames |-> recorders[r].chunks, open |-> TRUE] \in SegmentType
        BY <2>1 DEF SegmentType
      <4> QED
        BY <4>1, Zenon
    <3>2. segments' = Append(segments, seg) /\ sound' = sound
      BY <1>1, <2>7, <3>1 DEF Flush
    <3>3. segments \in Seq(SegmentType) /\ segments' \in Seq(SegmentType)
          /\ Len(segments) + 1 \in DOMAIN segments' /\ segments'[Len(segments) + 1] = seg
      BY <3>1, <3>2, AppendFacts DEF VoiceInv, VoiceTypeOK
    <3>4. VoiceTypeOK'
      BY <1>1, <1>2, <2>4, <3>2, <3>3 DEF VoiceInv, VoiceTypeOK
    <3>5. HeldInv' /\ SignGoesOut'
      BY <2>5, <3>1, <3>2, <3>3 DEF HeldInv, SignGoesOut
    <3>6. RecorderInv(r)'
      BY <2>1, <2>3, <3>1, <3>2, SegmentIsCut
    <3>7. \A q : SameSound(q)
      BY <3>2, VoiceFacts DEF SameSound
    <3> QED
      BY <2>1, <2>3, <3>1, <3>2, <3>4, <3>5, <3>6, <3>7, RecorderMoves
  <2>8. CASE cuts /\ ~LongEnough(recorders[r].chunks)
    <3>1. segments' = segments /\ sound' = [sound EXCEPT !.lost[r] = @ \cup ToSet(recorders[r].chunks)]
      BY <1>1, <2>8 DEF Flush
    <3>2. ToSet(recorders[r].chunks) \subseteq Frame
      BY <2>1 DEF ToSet
    <3>3. sound \in [frames : 0..MaxHeard, speech : [Recorder -> SUBSET Frame], lost : [Recorder -> SUBSET Frame], met : BOOLEAN]
      BY DEF VoiceInv, VoiceTypeOK
    <3>4. /\ sound'.frames = sound.frames /\ sound'.speech = sound.speech /\ sound'.met = sound.met
          /\ sound'.lost = [sound.lost EXCEPT ![r] = @ \cup ToSet(recorders[r].chunks)]
          /\ sound' = [sound EXCEPT !.lost = sound'.lost]
      BY <3>1, <3>3
    <3>5. /\ sound'.lost \in [Recorder -> SUBSET Frame]
          /\ sound'.lost[r] = sound.lost[r] \cup ToSet(recorders[r].chunks)
          /\ \A q \in Recorder : q # r => sound'.lost[q] = sound.lost[q]
      BY <2>1, <3>2, <3>3, <3>4
    <3>6. sound' \in [frames : 0..MaxHeard, speech : [Recorder -> SUBSET Frame], lost : [Recorder -> SUBSET Frame], met : BOOLEAN]
      BY <3>3, <3>4, <3>5
    <3>7. VoiceTypeOK'
      BY <1>1, <1>2, <2>4, <3>1, <3>6 DEF VoiceInv, VoiceTypeOK
    <3>8. HeldInv' /\ SignGoesOut'
      BY <1>2, <2>5, <2>8, <3>1, <3>4 DEF VoiceInv, HeldInv, SignGoesOut
    <3>9. RecorderInv(r)'
      BY <2>1, <2>3, <2>8, <3>1, <3>4, <3>5, SegmentIsLost
    <3>10. \A q \in Recorder : q # r => SameSound(q)
      BY <3>4, <3>5, VoiceFacts DEF SameSound
    <3> QED
      BY <2>1, <2>3, <3>1, <3>7, <3>8, <3>9, <3>10, RecorderMoves
  <2> QED
    BY <2>6, <2>7, <2>8
<1> QED
  BY <1>3, <1>4

LEMMA VoiceTranscribedStep == ASSUME VoiceInv, NEW s \in Frame, Transcribed(s) PROVE VoiceInv'
<1>1. /\ s \in DOMAIN segments /\ segments' = [segments EXCEPT ![s].open = FALSE]
      /\ mic' = [mic EXCEPT !.transcribing = FALSE] /\ UNCHANGED <<recorders, toggles, sound>>
  BY DEF Transcribed
<1>2. segments \in Seq(SegmentType) /\ segments[s] \in SegmentType
  BY <1>1 DEF VoiceInv, VoiceTypeOK
<1>3. PICK seg : seg = [segments[s] EXCEPT !.open = FALSE]
  OBVIOUS
<1>4. seg \in SegmentType /\ seg.by = segments[s].by /\ seg.frames = segments[s].frames
  BY <1>2, <1>3 DEF SegmentType
<1>5. segments' = [segments EXCEPT ![s] = seg]
  BY <1>1, <1>3
<1>6. /\ segments' \in Seq(SegmentType) /\ DOMAIN segments' = DOMAIN segments
      /\ \A t \in DOMAIN segments : segments'[t].by = segments[t].by /\ segments'[t].frames = segments[t].frames
  <2>1. /\ segments' \in Seq(SegmentType) /\ DOMAIN segments' = DOMAIN segments
        /\ segments'[s] = seg /\ \A t \in DOMAIN segments : t # s => segments'[t] = segments[t]
    <3>1. segments \in Seq(SegmentType) /\ s \in DOMAIN segments /\ seg \in SegmentType
      BY <1>1, <1>2, <1>4
    <3> QED
      BY <1>5, <3>1, SeqExcept, Zenon
  <2> QED
    BY <1>4, <2>1
<1>7. /\ mic' \in [listening : BOOLEAN, transcribing : BOOLEAN, recorder : 0..MaxRecorders]
      /\ mic'.listening = mic.listening /\ mic'.recorder = mic.recorder /\ ~mic'.transcribing
  BY <1>1 DEF VoiceInv, VoiceTypeOK
<1>8. VoiceTypeOK' /\ SignGoesOut'
  BY <1>1, <1>6, <1>7 DEF VoiceInv, VoiceTypeOK, SignGoesOut
<1>9. HeldInv'
  BY <1>1, <1>7 DEF VoiceInv, HeldInv, On, Waiting
<1>10. ASSUME NEW r \in DOMAIN recorders PROVE RecorderInv(r)'
  <2>1. SameRecorder(r) /\ SameSegments(r) /\ SameSound(r)
    BY <1>1, <1>6, VoiceFacts DEF SameRecorder, SameSegments, SentBy, SameSound
  <2> QED
    BY <2>1, RecorderStays
<1> QED
  BY <1>1, <1>6, <1>8, <1>9, <1>10 DEF VoiceInv
\* A frame is heard: it is kept, behind what is kept already, or only for a moment.
LEMMA FrameIsHeard ==
  ASSUME VoiceInv, NEW r \in DOMAIN recorders, NEW loud \in BOOLEAN,
         sound.frames < MaxHeard, recorders[r].pc = "on",
         NEW x \in RecorderType, recorders' = [recorders EXCEPT ![r] = x], x.pc = "on",
         NEW f \in Frame, f = sound.frames + 1, sound'.frames = f, segments' = segments,
         sound'.lost = sound.lost, sound'.speech[r] = IF loud THEN sound.speech[r] \cup {f} ELSE sound.speech[r],
         \/ /\ loud \/ recorders[r].speaking
            /\ x.speaking = TRUE /\ x.silence = (~loud) /\ x.before = <<>>
            /\ x.chunks = Append(IF recorders[r].speaking THEN recorders[r].chunks ELSE recorders[r].before, f)
         \/ /\ ~loud /\ ~recorders[r].speaking
            /\ x.speaking = recorders[r].speaking /\ x.silence = recorders[r].silence /\ x.chunks = recorders[r].chunks
            /\ x.before = LastFrames(Append(recorders[r].before, f), PreRoll)
  PROVE  RecorderInv(r)'
<1>1. /\ RecorderInv(r) /\ recorders'[r] = x
      /\ recorders[r].chunks \in Seq(Nat) /\ recorders[r].before \in Seq(Nat)
      /\ sound.frames \in Nat /\ f \in Nat /\ sound.frames <= f /\ PreRoll \in Nat
  BY SeqExcept, VoiceFacts, SMTT(60) DEF VoiceInv, VoiceTypeOK
<1>2. /\ Rising(recorders[r].chunks) /\ UpTo(recorders[r].chunks, sound.frames)
      /\ Rising(recorders[r].before) /\ UpTo(recorders[r].before, sound.frames)
      /\ recorders[r].speaking <=> recorders[r].chunks # <<>>
      /\ recorders[r].silence => Len(recorders[r].chunks) >= 2
  BY <1>1 DEF RecorderInv, HeardInv
<1>3. SentBy(r)' = SentBy(r) /\ \A s \in SentBy(r) : segments[s].frames \in Seq(Nat)
  BY VoiceFacts DEF SentBy
<1>4. ASSUME NEW s \in SentBy(r)
      PROVE  /\ Rising(segments[s].frames) /\ UpTo(segments[s].frames, sound.frames) /\ UpTo(segments[s].frames, f)
             /\ Precedes(segments[s].frames, recorders[r].chunks) /\ Precedes(segments[s].frames, recorders[r].before)
             /\ \A t \in SentBy(r) : s < t => Precedes(segments[s].frames, segments[t].frames)
  BY <1>1, <1>3, LaterIsFine DEF RecorderInv, CutInv
<1>5. LostInv(r)'
  BY <1>1 DEF RecorderInv, LostInv
<1>6. CASE loud \/ recorders[r].speaking
  <2>1. PICK q \in Seq(Nat) : q = IF recorders[r].speaking THEN recorders[r].chunks ELSE recorders[r].before
    BY <1>1
  <2>2. /\ x.speaking = TRUE /\ x.silence = (~loud) /\ x.before = <<>> /\ x.chunks = Append(q, f)
    BY <1>6, <2>1
  <2>3. /\ Rising(q) /\ UpTo(q, sound.frames)
        /\ \A s \in SentBy(r) : Precedes(segments[s].frames, q)
    BY <1>2, <1>4, <2>1
  <2>4. /\ Rising(x.chunks) /\ UpTo(x.chunks, f) /\ x.chunks # <<>>
        /\ ToSet(x.chunks) = ToSet(q) \cup {f}
        /\ \A s \in SentBy(r) : Precedes(segments[s].frames, x.chunks)
    BY <1>1, <1>3, <1>4, <2>2, <2>3, FrameIsAdded, SMTT(60)
  <2>5. ~loud => Len(x.chunks) >= 2
    <3>1. ~loud => q # <<>>
      BY <1>2, <1>6, <2>1
    <3>2. Len(Append(q, f)) = Len(q) + 1 /\ Len(q) \in Nat /\ (q # <<>> => Len(q) # 0)
      OBVIOUS
    <3> QED
      BY <2>2, <3>1, <3>2
  <2>6. HeardInv(r)'
    <3>1. Rising(<<>>) /\ UpTo(<<>>, f)
      BY DEF Rising, UpTo
    <3> QED
      BY <1>1, <2>2, <2>4, <2>5, <3>1 DEF HeardInv
  <2>7. CutInv(r)'
    <3>1. \A p : Precedes(p, <<>>)
      BY DEF Precedes
    <3> QED
      BY <1>1, <1>3, <1>4, <2>2, <2>4, <3>1 DEF CutInv
  <2>8. SpeechInv(r)'
    <3>1. ToSet(recorders[r].chunks) \subseteq ToSet(x.chunks)
      <4>1. CASE recorders[r].speaking
        BY <2>1, <2>4, <4>1
      <4>2. CASE ~recorders[r].speaking
        <5>1. recorders[r].chunks = <<>>
          BY <1>2, <4>2
        <5> QED
          BY <5>1 DEF ToSet
      <4> QED
        BY <4>1, <4>2
    <3>2. f \in ToSet(x.chunks)
      BY <2>4
    <3> QED
      BY <1>1, <1>3, <3>1, <3>2 DEF RecorderInv, SpeechInv
  <2> QED
    BY <1>5, <2>6, <2>7, <2>8 DEF RecorderInv
<1>7. CASE ~loud /\ ~recorders[r].speaking
  <2>1. PICK q \in Seq(Nat) : q = Append(recorders[r].before, f)
    <3>1. PICK b \in Seq(Nat) : b = recorders[r].before
      BY <1>1
    <3>2. Append(b, f) \in Seq(Nat)
      BY <1>1
    <3> QED
      BY <3>1, <3>2
  <2>2. /\ x.speaking = recorders[r].speaking /\ x.silence = recorders[r].silence /\ x.chunks = recorders[r].chunks
        /\ x.before = LastFrames(q, PreRoll)
    BY <1>7, <2>1
  <2>3. /\ Rising(q) /\ UpTo(q, f) /\ \A s \in SentBy(r) : Precedes(segments[s].frames, q)
    BY <1>1, <1>2, <1>3, <1>4, <2>1, FrameIsAdded
  <2>4. /\ Rising(x.before) /\ UpTo(x.before, f) /\ \A s \in SentBy(r) : Precedes(segments[s].frames, x.before)
    BY <1>1, <1>3, <2>2, <2>3, FramesAreLast
  <2>5. UpTo(recorders[r].chunks, f)
    BY <1>1, <1>2, LaterIsFine
  <2>6. HeardInv(r)'
    BY <1>1, <1>2, <1>7, <2>2, <2>4, <2>5 DEF HeardInv
  <2>7. CutInv(r)'
    BY <1>1, <1>3, <1>4, <2>2, <2>4 DEF CutInv
  <2>8. SpeechInv(r)'
    BY <1>1, <1>3, <1>7, <2>2 DEF RecorderInv, SpeechInv
  <2> QED
    BY <1>5, <2>6, <2>7, <2>8 DEF RecorderInv
<1> QED
  BY <1>6, <1>7

LEMMA VoiceHearStep == ASSUME VoiceInv, NEW r \in Recorder, NEW loud \in BOOLEAN, HearFrame(r, loud) PROVE VoiceInv'
<1> DEFINE rec == recorders[r]
<1>1. /\ r \in On /\ sound.frames < MaxHeard /\ UNCHANGED <<mic, toggles, segments>>
      /\ r \in DOMAIN recorders /\ rec.pc = "on"
  BY DEF HearFrame, On
<1>2. PICK f \in Frame : f = sound.frames + 1
  BY <1>1, VoiceFacts, SMTT(60) DEF Frame
<1>3. /\ rec \in RecorderType /\ rec.chunks \in Seq(Frame) /\ rec.before \in Seq(Frame)
      /\ rec.speaking \in BOOLEAN /\ rec.silence \in BOOLEAN
      /\ rec.speaking <=> rec.chunks # <<>>
      /\ rec.speaking => rec.before = <<>>
  <2>1. recorders[r] \in RecorderType /\ RecorderInv(r)
    BY <1>1, VoiceFacts DEF VoiceInv
  <2> QED
    BY <2>1 DEF RecorderType, RecorderInv, HeardInv
<1> DEFINE starts == loud /\ ~rec.speaking
           kept == [rec EXCEPT !.speaking = TRUE, !.silence = ~loud, !.before = IF starts THEN <<>> ELSE rec.before,
                               !.chunks = rec.chunks \o (IF starts THEN rec.before ELSE <<>>) \o <<sound.frames + 1>>]
           waits == [rec EXCEPT !.before = LastFrames(Append(rec.before, sound.frames + 1), PreRoll)]
<1>0. recorders' = [recorders EXCEPT ![r] = IF loud \/ rec.speaking THEN kept ELSE waits]
  BY Zenon DEF HearFrame
<1>4. PICK x \in RecorderType :
        /\ recorders' = [recorders EXCEPT ![r] = x] /\ x.pc = "on"
        /\ \/ /\ loud \/ rec.speaking
              /\ x.speaking = TRUE /\ x.silence = (~loud) /\ x.before = <<>>
              /\ x.chunks = Append(IF rec.speaking THEN rec.chunks ELSE rec.before, f)
           \/ /\ ~loud /\ ~rec.speaking
              /\ x.speaking = rec.speaking /\ x.silence = rec.silence /\ x.chunks = rec.chunks
              /\ x.before = LastFrames(Append(rec.before, f), PreRoll)
  <2>1. CASE loud \/ rec.speaking
    <3>1. PICK x : x = kept
      OBVIOUS
    <3>2. recorders' = [recorders EXCEPT ![r] = x]
      BY <1>0, <2>1, <3>1, Zenon
    <3>3. PICK q \in Seq(Frame) : q = IF rec.speaking THEN rec.chunks ELSE rec.before
      BY <1>3
    <3>4. (IF loud /\ ~rec.speaking THEN <<>> ELSE rec.before) = <<>>
      BY <1>3, <2>1
    <3>5. rec.chunks \o (IF loud /\ ~rec.speaking THEN rec.before ELSE <<>>) = q
      <4>1. CASE rec.speaking
        BY <1>3, <3>3, <4>1
      <4>2. CASE ~rec.speaking
        <5>1. rec.chunks = <<>> /\ loud
          BY <1>3, <2>1, <4>2
        <5> QED
          BY <1>3, <3>3, <4>2, <5>1
      <4> QED
        BY <4>1, <4>2
    <3>6. q \o <<f>> = Append(q, f) /\ Append(q, f) \in Seq(Frame) /\ <<>> \in Seq(Frame)
      OBVIOUS
    <3>7. x = [rec EXCEPT !.speaking = TRUE, !.silence = ~loud, !.before = <<>>, !.chunks = Append(q, f)]
      BY <1>2, <3>1, <3>4, <3>5, <3>6
    <3>8. x \in RecorderType
      BY <1>3, <3>6, <3>7 DEF RecorderType
    <3>9. x.pc = "on" /\ x.speaking = TRUE /\ x.silence = (~loud) /\ x.before = <<>> /\ x.chunks = Append(q, f)
      BY <1>1, <1>3, <3>7 DEF RecorderType
    <3> QED
      BY <2>1, <3>2, <3>3, <3>8, <3>9
  <2>2. CASE ~(loud \/ rec.speaking)
    <3>1. PICK x : x = waits
      OBVIOUS
    <3>2. recorders' = [recorders EXCEPT ![r] = x]
      BY <1>0, <2>2, <3>1, Zenon
    <3>3. Append(rec.before, f) \in Seq(Frame) /\ PreRoll \in Nat
      BY <1>3, VoiceFacts
    <3>4. LastFrames(Append(rec.before, f), PreRoll) \in Seq(Frame)
      BY <3>3, LastFramesOf
    <3>5. x \in RecorderType
      BY <1>2, <1>3, <3>1, <3>4 DEF RecorderType
    <3>6. /\ x.pc = "on" /\ x.speaking = rec.speaking /\ x.silence = rec.silence /\ x.chunks = rec.chunks
          /\ x.before = LastFrames(Append(rec.before, f), PreRoll)
      BY <1>1, <1>2, <1>3, <3>1 DEF RecorderType
    <3> QED
      BY <2>2, <3>2, <3>5, <3>6
  <2> QED
    BY <2>1, <2>2
<1>5. /\ sound' \in [frames : 0..MaxHeard, speech : [Recorder -> SUBSET Frame], lost : [Recorder -> SUBSET Frame], met : BOOLEAN]
      /\ sound'.frames = f /\ sound'.lost = sound.lost /\ sound'.met = sound.met
      /\ sound'.speech[r] = IF loud THEN sound.speech[r] \cup {f} ELSE sound.speech[r]
      /\ \A q \in Recorder : q # r => sound'.speech[q] = sound.speech[q]
  <2>1. sound \in [frames : 0..MaxHeard, speech : [Recorder -> SUBSET Frame], lost : [Recorder -> SUBSET Frame], met : BOOLEAN]
    BY DEF VoiceInv, VoiceTypeOK
  <2>2. PICK speech : speech = [sound.speech EXCEPT ![r] = IF loud THEN @ \cup {f} ELSE @]
    OBVIOUS
  <2>3. /\ speech \in [Recorder -> SUBSET Frame]
        /\ speech[r] = IF loud THEN sound.speech[r] \cup {f} ELSE sound.speech[r]
        /\ \A q \in Recorder : q # r => speech[q] = sound.speech[q]
    BY <2>1, <2>2
  <2>4. sound' = [sound EXCEPT !.frames = f, !.speech = speech]
    BY <1>2, <2>1, <2>2 DEF HearFrame
  <2>5. f \in 0..MaxHeard
    BY <1>1, <1>2, VoiceFacts, SMTT(60)
  <2> QED
    BY <2>1, <2>3, <2>4, <2>5
<1>6. VoiceTypeOK'
  <2>1. recorders' \in Seq(RecorderType)
    BY <1>1, <1>4, SeqExcept DEF VoiceInv, VoiceTypeOK
  <2> QED
    BY <1>1, <1>5, <2>1 DEF VoiceInv, VoiceTypeOK
<1>7. SignGoesOut'
  BY <1>1 DEF VoiceInv, SignGoesOut
<1>8. HeldInv'
  <2>1. On' = On /\ Waiting' = Waiting
    <3>1. On' = On \cup {r} /\ Waiting' = Waiting \ {r}
      BY <1>1, <1>4, OnAndWaiting
    <3> QED
      BY <1>1, <3>1 DEF Waiting
  <2> QED
    BY <1>1, <1>5, <2>1 DEF VoiceInv, HeldInv
<1>9. RecorderInv(r)'
  BY <1>1, <1>2, <1>4, <1>5, FrameIsHeard
<1>10. \A q \in Recorder : q # r => SameSound(q)
  BY <1>2, <1>5, VoiceFacts DEF SameSound
<1> QED
  BY <1>1, <1>4, <1>6, <1>7, <1>8, <1>9, <1>10, RecorderMoves

LEMMA VoiceStep == VoiceInv /\ [VoiceNext]_voiceVars => VoiceInv'
<1> SUFFICES ASSUME VoiceInv, [VoiceNext]_voiceVars PROVE VoiceInv'
  OBVIOUS
<1>1. CASE UNCHANGED voiceVars
  <2>1. UNCHANGED <<mic, recorders, toggles, segments, sound>>
    BY <1>1 DEF voiceVars
  <2>2. VoiceTypeOK' /\ HeldInv' /\ SignGoesOut'
    BY <2>1 DEF VoiceInv, VoiceTypeOK, HeldInv, SignGoesOut, On, Waiting
  <2>3. ASSUME NEW r \in DOMAIN recorders PROVE RecorderInv(r)'
    <3>1. SameRecorder(r) /\ SameSegments(r) /\ SameSound(r)
      BY <2>1, VoiceFacts DEF SameRecorder, SameSegments, SentBy, SameSound
    <3> QED
      BY <3>1, RecorderStays
  <2> QED
    BY <2>1, <2>2, <2>3 DEF VoiceInv
<1> QED
  BY <1>1, VoiceToggleStep, VoiceStartStep, VoiceGrantStep, VoiceSilenceStep, VoiceHearStep, VoiceStopStep,
     VoiceTranscribedStep DEF VoiceNext

LEMMA VoiceHolds == VoiceInv => VoiceInvariant
<1> SUFFICES ASSUME VoiceInv PROVE VoiceInvariant
  OBVIOUS
<1>1. VoiceTypeOK /\ SignGoesOut /\ MicrophoneIsHeld
  <2>1. \A r \in Microphones : recorders[r].pc = "broken" \/ r \in On
    BY DEF Microphones, On
  <2> QED
    BY <2>1 DEF VoiceInv, HeldInv, MicrophoneIsHeld
<1>2. ASSUME NEW r \in DOMAIN recorders
      PROVE  /\ sound.speech[r] \subseteq
                  (SentFrames(r) \cup ToSet(recorders[r].chunks)) \cup sound.lost[r]
             /\ Rising(recorders[r].chunks)
             /\ \A s \in SentBy(r) :
                  /\ Rising(segments[s].frames) /\ Precedes(segments[s].frames, recorders[r].chunks)
                  /\ \A t \in SentBy(r) : s < t => Precedes(segments[s].frames, segments[t].frames)
             /\ sound.lost[r] # {} => recorders[r].pc = "off" /\ Cardinality(sound.lost[r]) = 1
  <2>1. HeardInv(r) /\ CutInv(r) /\ LostInv(r) /\ SpeechInv(r)
    BY DEF VoiceInv, RecorderInv
  <2>2. sound.speech[r] \subseteq
          (SentFrames(r) \cup ToSet(recorders[r].chunks)) \cup sound.lost[r]
    <3>1. ASSUME NEW f \in sound.speech[r]
          PROVE  f \in SentFrames(r) \/ f \in ToSet(recorders[r].chunks) \/ f \in sound.lost[r]
      BY <2>1 DEF SpeechInv, SentFrames
    <3> QED
      BY <3>1
  <2>3. \A s \in SentBy(r) :
          /\ Rising(segments[s].frames) /\ Precedes(segments[s].frames, recorders[r].chunks)
          /\ \A t \in SentBy(r) : s < t => Precedes(segments[s].frames, segments[t].frames)
    BY <2>1 DEF CutInv
  <2>4. Rising(recorders[r].chunks) /\ (sound.lost[r] # {} => recorders[r].pc = "off" /\ Cardinality(sound.lost[r]) = 1)
    BY <2>1 DEF HeardInv, LostInv
  <2> QED
    BY <2>2, <2>3, <2>4
<1>3. SpeechIsCut
  BY <1>2 DEF SpeechIsCut
<1> QED
  BY <1>1, <1>3 DEF VoiceInvariant

-----------------------------------------------------------------------------
(* The scan of the selected directories.  The tree is a function on finite *)
(* paths, so that a scan is whole is about prefixes of paths: everything   *)
(* on the way to something scannable was recorded, by induction on the     *)
(* length, as a smallest path that was missed.  The scan visits every path *)
(* once, from whichever root meets it first; that none is found too deep   *)
(* to be opened needs the order of the queue.                              *)

LEMMA PrefixIs ==
  ASSUME NEW p \in Seq(Nat), NEW i \in 0..Len(p)
  PROVE  /\ Prefix(p, i) \in Seq(Nat) /\ Len(Prefix(p, i)) = i
         /\ \A j \in 1..i : Prefix(p, i)[j] = p[j]
  BY DEF Prefix

LEMMA SamePath ==
  ASSUME NEW p \in Seq(Nat), NEW q \in Seq(Nat), Len(p) = Len(q), \A j \in 1..Len(p) : p[j] = q[j]
  PROVE  p = q
  BY SMTT(60)

LEMMA IsPrefixIs ==
  ASSUME NEW p \in Seq(Nat), NEW q \in Seq(Nat)
  PROVE  IsPrefix(p, q) <=> Len(p) <= Len(q) /\ \A j \in 1..Len(p) : p[j] = q[j]
  BY DEF IsPrefix

LEMMA SuffixIs ==
  ASSUME NEW p \in Seq(Nat), NEW i \in 0..Len(p)
  PROVE  /\ SubSeq(p, i + 1, Len(p)) \in Seq(Nat) /\ Len(SubSeq(p, i + 1, Len(p))) = Len(p) - i
         /\ \A j \in 1..(Len(p) - i) : SubSeq(p, i + 1, Len(p))[j] = p[i + j]
  OBVIOUS

LEMMA FrontIs ==
  ASSUME NEW p \in Seq(Nat), p # <<>>
  PROVE  /\ Front(p) = Prefix(p, Len(p) - 1) /\ Last(p) = p[Len(p)] /\ Last(p) \in Nat
         /\ Append(Front(p), Last(p)) = p
  BY DEF Front, Last, Prefix

LEMMA PrefixOfPrefix ==
  ASSUME NEW p \in Seq(Nat), NEW k \in 0..Len(p), NEW i \in 0..k
  PROVE  Prefix(Prefix(p, k), i) = Prefix(p, i)
<1>1. Prefix(p, k) \in Seq(Nat) /\ Len(Prefix(p, k)) = k /\ \A j \in 1..k : Prefix(p, k)[j] = p[j]
  BY PrefixIs
<1>2. PICK q : q = Prefix(p, k)
  OBVIOUS
<1>3. /\ Prefix(q, i) \in Seq(Nat) /\ Len(Prefix(q, i)) = i
      /\ \A j \in 1..i : Prefix(q, i)[j] = p[j]
  BY <1>1, <1>2, PrefixIs, SMTT(60)
<1>4. /\ Prefix(p, i) \in Seq(Nat) /\ Len(Prefix(p, i)) = i
      /\ \A j \in 1..i : Prefix(p, i)[j] = p[j]
  <2>1. i \in 0..Len(p)
    OBVIOUS
  <2> QED
    BY <2>1, PrefixIs
<1> QED
  BY <1>2, <1>3, <1>4, SamePath

LEMMA WholePrefix == ASSUME NEW p \in Seq(Nat) PROVE Prefix(p, Len(p)) = p
  BY PrefixIs, SamePath

\* A path that can be walked as it stands.
Solid(p) == There(p) /\ tree[p].kind # "link"

TreeOK == tree \in [Place -> Entry]

LEMMA NoLinks ==
  ASSUME TreeOK, NEW p, Solid(p), NEW k \in 0..Len(p)
  PROVE  Links(Prefix(p, k)) = {}
<1>1. p \in Seq(Nat)
  BY FileScanAssumption DEF Solid, There
<1>2. ASSUME NEW i \in 1..k, Prefix(Prefix(p, k), i) \in Place, tree[Prefix(Prefix(p, k), i)].kind = "link"
      PROVE  FALSE
  <2>1. tree[Prefix(p, i)].kind = "link"
    BY <1>1, <1>2, PrefixOfPrefix
  <2>2. i # Len(p)
    BY <1>1, <2>1, WholePrefix DEF Solid
  <2> QED
    BY <1>1, <2>1, <2>2 DEF Solid, There
<1>3. Len(Prefix(p, k)) = k
  BY <1>1, PrefixIs
<1> QED
  BY <1>2, <1>3 DEF Links

LEMMA SolidIsReal ==
  ASSUME TreeOK, NEW p, Solid(p)
  PROVE  /\ p \in Place /\ p \in Seq(Nat) /\ p # <<>>
         /\ Real(p) = p /\ Located(p) = p
         /\ KindAt(p) = tree[p].kind /\ tree[p].kind \notin {"gone", "link"}
<1>1. p \in Place /\ p \in Seq(Nat) /\ p # <<>> /\ tree[p].kind \notin {"gone", "link"}
  BY FileScanAssumption DEF Solid, There
<1>2. Real(p) = p
  <2>1. Len(p) \in 0..Len(p) /\ Prefix(p, Len(p)) = p
    BY <1>1, WholePrefix
  <2>2. Links(p) = {}
    BY <2>1, NoLinks
  <2> QED
    BY <2>2 DEF Real
<1>3. Located(p) = p
  <2>1. CASE Len(p) > 1
    <3>1. Links(Front(p)) = {}
      BY <1>1, NoLinks, FrontIs
    <3>2. Real(Front(p)) = Front(p)
      BY <3>1 DEF Real
    <3> QED
      BY <1>1, <2>1, <3>2, FrontIs DEF Located
  <2> QED
    BY <1>1, <2>1 DEF Located
<1> QED
  BY <1>1, <1>2, <1>3 DEF KindAt, Solid

\* A path resolves to where its first link leads, or to itself.
LEMMA FirstLink ==
  ASSUME NEW p \in Seq(Nat), Links(p) # {}
  PROVE  \E i \in Links(p) : (\A j \in Links(p) : i <= j) /\ Real(p) = tree[Prefix(p, i)].to \o SubSeq(p, i + 1, Len(p))
<1>1. Links(p) \in SUBSET Nat
  BY DEF Links
<1>2. \E i \in Links(p) : \A j \in Links(p) : i <= j
  BY <1>1, LeastOf
<1>3. PICK i : i = Min(Links(p))
  OBVIOUS
<1>4. i \in Links(p) /\ \A j \in Links(p) : i <= j
  BY <1>2, <1>3 DEF Min
<1>5. Real(p) = tree[Prefix(p, i)].to \o SubSeq(p, i + 1, Len(p))
  BY <1>3, Zenon DEF Real
<1> QED
  BY <1>4, <1>5

LEMMA RealIsPath == ASSUME TreeOK, NEW p \in Seq(Nat) PROVE Real(p) \in Seq(Nat)
<1>1. CASE Links(p) = {}
  BY <1>1 DEF Real
<1>2. CASE Links(p) # {}
  <2>1. PICK i \in Links(p) : Real(p) = tree[Prefix(p, i)].to \o SubSeq(p, i + 1, Len(p))
    BY <1>2, FirstLink
  <2>2. tree[Prefix(p, i)].to \in Seq(Nat)
    BY <2>1, FileScanAssumption DEF Links, TreeOK, Entry
  <2>3. SubSeq(p, i + 1, Len(p)) \in Seq(Nat)
    BY <2>1 DEF Links
  <2> QED
    BY <2>1, <2>2, <2>3
<1> QED
  BY <1>1, <1>2

LEMMA AppendsAfter ==
  ASSUME NEW p \in Seq(Nat), NEW q \in Seq(Nat), NEW n \in Nat
  PROVE  p \o Append(q, n) = Append(p \o q, n)
  OBVIOUS

LEMMA AppendIs ==
  ASSUME NEW q \in Seq(Nat), NEW n \in Nat
  PROVE  /\ Append(q, n) \in Seq(Nat) /\ Len(Append(q, n)) = Len(q) + 1 /\ Append(q, n)[Len(q) + 1] = n
         /\ \A j \in 1..Len(q) : Append(q, n)[j] = q[j]
  OBVIOUS

LEMMA Between ==
  ASSUME NEW m \in Nat, NEW i \in 1..m, NEW j \in Nat, 1 <= j, j <= m + 1 - i, j # m + 1 - i
  PROVE  j \in 1..(m - i) /\ i + j \in 1..m /\ j \in 1..(m + 1 - i)
  OBVIOUS

LEMMA SuffixEnds ==
  ASSUME NEW p \in Seq(Nat), NEW f \in Seq(Nat), Len(f) = Len(p) - 1, \A j \in 1..Len(f) : f[j] = p[j],
         NEW i \in 1..Len(f)
  PROVE  SubSeq(p, i + 1, Len(p)) = Append(SubSeq(f, i + 1, Len(f)), p[Len(p)])
<1>1. PICK a, b : a = SubSeq(p, i + 1, Len(p)) /\ b = SubSeq(f, i + 1, Len(f))
  OBVIOUS
<1>2. a \in Seq(Nat) /\ Len(a) = Len(p) - i /\ \A j \in 1..(Len(p) - i) : a[j] = p[i + j]
  <2>1. i \in 0..Len(p)
    OBVIOUS
  <2> QED
    BY <1>1, <2>1, SuffixIs
<1>3. b \in Seq(Nat) /\ Len(b) = Len(f) - i /\ \A j \in 1..(Len(f) - i) : b[j] = f[i + j]
  <2>1. i \in 0..Len(f)
    OBVIOUS
  <2> QED
    BY <1>1, <2>1, SuffixIs
<1>4. PICK c : c = Append(b, p[Len(p)])
  OBVIOUS
<1>5. p[Len(p)] \in Nat
  OBVIOUS
<1>6. c \in Seq(Nat) /\ Len(c) = Len(b) + 1 /\ c[Len(b) + 1] = p[Len(p)] /\ \A j \in 1..Len(b) : c[j] = b[j]
  BY <1>3, <1>4, <1>5, AppendIs
<1>7. Len(c) = Len(a)
  BY <1>2, <1>3, <1>6
<1>8. /\ Len(a) = Len(p) - i /\ Len(b) = Len(f) - i /\ Len(p) = Len(f) + 1
      /\ Len(f) \in Nat /\ i \in Nat /\ 1 <= i /\ i <= Len(f)
  BY <1>2, <1>3
<1>9. ASSUME NEW j \in 1..Len(a) PROVE a[j] = c[j]
  <2>1. j \in Nat /\ 1 <= j /\ j <= Len(f) + 1 - i
    BY <1>8
  <2>2. CASE j = Len(f) + 1 - i
    <3>1. j = Len(b) + 1 /\ i + j = Len(p) /\ j \in 1..(Len(p) - i)
      BY <1>8, <2>1, <2>2
    <3>2. a[j] = p[i + j] /\ c[j] = p[Len(p)]
      BY <1>2, <1>6, <3>1
    <3> QED
      BY <3>1, <3>2
  <2>3. CASE j # Len(f) + 1 - i
    <3>1. j \in 1..(Len(f) - i) /\ i + j \in 1..Len(f) /\ j \in 1..(Len(f) + 1 - i)
      <4>1. Len(f) \in Nat
        BY <1>8, <2>1
      <4> QED
        BY <2>1, <2>3, <4>1, Between
    <3>2. a[j] = p[i + j] /\ c[j] = b[j] /\ b[j] = f[i + j]
      BY <1>2, <1>3, <1>6, <1>8, <3>1
    <3> QED
      BY <3>1, <3>2
  <2> QED
    BY <2>2, <2>3
<1> QED
  BY <1>1, <1>2, <1>4, <1>6, <1>7, <1>9, SamePath

\* Whether the links of a path are followed before or after its last name is put to it is one.
LEMMA RealEnds ==
  ASSUME TreeOK, NEW p \in Seq(Nat), Len(p) > 1, Links(Front(p)) # {}
  PROVE  Real(p) = Append(Real(Front(p)), Last(p))
<1>1. PICK f : f = Front(p)
  OBVIOUS
<1>2. /\ f \in Seq(Nat) /\ Len(f) = Len(p) - 1 /\ f = Prefix(p, Len(p) - 1)
      /\ Last(p) = p[Len(p)] /\ \A j \in 1..Len(f) : f[j] = p[j]
  <2>1. p # <<>> /\ Len(p) - 1 \in 0..Len(p)
    OBVIOUS
  <2>2. f = Prefix(p, Len(p) - 1) /\ Last(p) = p[Len(p)]
    BY <1>1, <2>1, FrontIs
  <2> QED
    BY <2>1, <2>2, PrefixIs
<1>3. \A j \in 1..Len(f) : Prefix(f, j) = Prefix(p, j)
  BY <1>2, PrefixOfPrefix, SMTT(60)
<1>4. PICK i \in Links(f) : (\A j \in Links(f) : i <= j) /\ Real(f) = tree[Prefix(f, i)].to \o SubSeq(f, i + 1, Len(f))
  BY <1>1, <1>2, FirstLink
<1>5. PICK k \in Links(p) : (\A j \in Links(p) : k <= j) /\ Real(p) = tree[Prefix(p, k)].to \o SubSeq(p, k + 1, Len(p))
  <2>1. i \in Links(p)
    BY <1>2, <1>3, <1>4, SMTT(60) DEF Links
  <2> QED
    BY <2>1, FirstLink
<1>6. i = k
  <2>1. i \in Links(p)
    BY <1>2, <1>3, SMTT(60) DEF Links
  <2>2. k <= i /\ k \in 1..Len(f) /\ i \in 1..Len(f)
    <3>1. k <= i
      BY <1>5, <2>1
    <3>2. i \in 1..Len(f)
      BY <1>4 DEF Links
    <3>3. k \in 1..Len(p)
      BY <1>5 DEF Links
    <3>4. Len(f) \in Nat /\ Len(p) \in Nat
      BY <1>2
    <3> QED
      BY <3>1, <3>2, <3>3, <3>4
  <2>3. k \in Links(f)
    BY <1>3, <1>5, <2>2 DEF Links
  <2> QED
    BY <1>4, <2>2, <2>3
<1>7. PICK to : to = tree[Prefix(p, i)].to
  OBVIOUS
<1>8. to \in Seq(Nat) /\ i \in 1..Len(f)
  BY <1>3, <1>4, <1>7, FileScanAssumption DEF Links, TreeOK, Entry
<1>9. Real(p) = to \o SubSeq(p, i + 1, Len(p)) /\ Real(f) = to \o SubSeq(f, i + 1, Len(f))
  BY <1>3, <1>4, <1>5, <1>6, <1>7, <1>8
<1>10. PICK a, b : a = SubSeq(p, i + 1, Len(p)) /\ b = SubSeq(f, i + 1, Len(f))
  OBVIOUS
<1>11. a = Append(b, Last(p))
  BY <1>2, <1>8, <1>10, SuffixEnds
<1>12. to \o a = Append(to \o b, Last(p))
  <2>1. b \in Seq(Nat) /\ Last(p) \in Nat
    <3>1. i \in 0..Len(f)
      BY <1>2, <1>8
    <3>2. b \in Seq(Nat)
      BY <1>2, <1>10, <3>1, SuffixIs
    <3> QED
      BY <1>2, <3>2
  <2> QED
    BY <1>8, <1>11, <2>1, AppendsAfter
<1> QED
  BY <1>1, <1>9, <1>10, <1>12

\* What lstat finds there, and no link, resolves to a path that can be walked as it stands.
LEMMA RootIsSolid ==
  ASSUME TreeOK, NEW p \in Place, KindAt(p) \notin {"link", "gone"}
  PROVE  Solid(Real(p))
<1>1. p \in Seq(Nat) /\ p # <<>> /\ Len(p) \in Nat \ {0}
  BY FileScanAssumption
<1>2. Solid(Located(p))
  BY DEF KindAt, Solid
<1>3. CASE Located(p) = p
  BY <1>2, <1>3, SolidIsReal
<1>4. CASE Located(p) # p
  <2>1. Len(p) > 1 /\ Located(p) = Append(Real(Front(p)), Last(p))
    BY <1>1, <1>4 DEF Located
  <2>2. Links(Front(p)) # {}
    <3>1. ASSUME Links(Front(p)) = {} PROVE Located(p) = p
      BY <1>1, <2>1, <3>1, FrontIs DEF Real
    <3> QED
      BY <1>4, <3>1
  <2>3. Real(p) = Located(p)
    BY <1>1, <2>1, <2>2, RealEnds
  <2> QED
    BY <1>2, <2>3
<1> QED
  BY <1>3, <1>4

-----------------------------------------------------------------------------
ScanPc == {"probe", "authorize", "check", "seed", "take", "resolve", "record", "list"} \cup ScanEnd
ScanType ==
  [pc : ScanPc, asked : Asks, todo : Seq(Place), allowed : SUBSET Seq(Nat), queue : Seq(Item), item : Item,
   visited : SUBSET Seq(Nat), records : Seq(Item), skipped : Nat]

\* What holds of the scan whatever happens to the file system.
Scope(s) ==
  /\ \A j \in DOMAIN s.queue : s.queue[j].depth <= ScanDepth
  /\ s.item.depth <= ScanDepth /\ (s.pc = "list" => s.item.depth < ScanDepth)
  /\ s.pc \in {"resolve", "record"} => Len(s.records) < ScanItems
  /\ s.pc = "record" => /\ Within(s.item.root, s.item.path) /\ s.item.path \in s.visited
                        /\ \A k \in DOMAIN s.records : s.records[k].path # s.item.path
  /\ Len(s.records) <= ScanItems
  /\ \A k \in DOMAIN s.records : LET e == s.records[k] IN
       Within(e.root, e.path) /\ e.depth <= ScanDepth /\ e.path \in s.visited
  /\ \A i, j \in DOMAIN s.records : i # j => s.records[i].path # s.records[j].path

ScopeInv == TreeOK /\ swaps \in 0..MaxSwaps /\ scan \in ScanType /\ Scope(scan)

LEMMA ScopeStays ==
  ASSUME NEW s \in ScanType, NEW t \in ScanType, Scope(s), t.pc \notin {"resolve", "record", "list"},
         t.records = s.records, t.visited = s.visited, t.item = s.item,
         \A j \in DOMAIN t.queue : t.queue[j].depth <= ScanDepth
  PROVE  Scope(t)
  BY DEF Scope

LEMMA ScopeInitInv == FileScanInit => ScopeInv
<1> SUFFICES ASSUME FileScanInit PROVE ScopeInv
  OBVIOUS
<1>1. TreeOK /\ swaps \in 0..MaxSwaps
  BY FileScanAssumption DEF FileScanInit, TreeOK
<1>2. NoItem \in Item /\ NoItem.depth = 0
  BY DEF NoItem, Item
<1>3. PICK asked \in Asks :
        scan = [pc |-> "probe", asked |-> asked, todo |-> <<>>, allowed |-> {}, queue |-> <<>>, item |-> NoItem,
                visited |-> {}, records |-> <<>>, skipped |-> 0]
  BY DEF FileScanInit
<1>4. scan \in ScanType
  BY <1>2, <1>3 DEF ScanType, ScanPc
<1>5. Scope(scan)
  BY <1>2, <1>3, FileScanAssumption DEF Scope
<1> QED
  BY <1>1, <1>4, <1>5 DEF ScopeInv

LEMMA AskedRoots == ASSUME scan \in ScanType PROVE RootsOf \in Seq(Place)
  BY FileScanAssumption DEF RootsOf, ScanType

-----------------------------------------------------------------------------
\* What was found: it waits in the queue, is looked at, or has its record.
Met(s) == Range(s.queue) \cup Range(s.records) \cup (IF s.pc \in {"resolve", "record"} THEN {s.item} ELSE {})
Covered(s, p, d) == \E e \in Met(s) : e.path = p /\ e.depth <= d

\* How something was found that is in one of the roots R.
Found(R, e) ==
  /\ e.root \in R /\ IsPrefix(e.root, e.path) /\ Len(e.path) = Len(e.root) + e.depth /\ e.depth <= ScanDepth
  /\ Solid(e.path)
  /\ \A i \in Len(e.root)..(Len(e.path) - 1) : CanRead(Prefix(e.path, i))
  /\ \A q \in R : IsPrefix(e.root, q) /\ IsPrefix(q, e.path) => Within(q, e.path)

\* What a directory contains was found as well.
Opened(s, e) ==
  tree[e.path].kind = "dir" /\ e.depth < ScanDepth /\ CanRead(e.path) =>
    \A n \in Nat : /\ Append(e.path, n) \in Place /\ tree[Append(e.path, n)].kind \notin {"gone", "link"}
                   /\ Within(e.root, Append(e.path, n))
                   => Covered(s, Append(e.path, n), e.depth + 1)

\* The queue is in the order of the depths, at most one apart, and the records lie behind.
Levels(s) ==
  /\ \A j \in DOMAIN s.queue : s.item.depth <= s.queue[j].depth /\ s.queue[j].depth <= s.item.depth + 1
  /\ \A i, j \in DOMAIN s.queue : i < j => s.queue[i].depth <= s.queue[j].depth
  /\ \A k \in DOMAIN s.records : s.records[k].depth <= s.item.depth

\* The walk of the queue, and its ends.
Walking == {"take", "resolve", "record", "list", "complete", "partial", "aborted"}

\* What the walk keeps when nobody touches the files: all that was met was found in one of
\* the roots R, a root at depth 0, and what a recorded directory contains was met as well,
\* at most one deeper, the directory excepted that is about to be read.
Walk(R, s) ==
  /\ \A e \in Met(s) : Found(R, e)
  /\ \A k \in DOMAIN s.records : s.records[k].path \in R => s.records[k].depth = 0
  /\ Levels(s)
  /\ \A p \in s.visited : (\E k \in DOMAIN s.records : s.records[k].path = p) \/ (s.pc = "record" /\ p = s.item.path)
  /\ s.pc = "list" => /\ s.records # <<>> /\ s.item = s.records[Len(s.records)]
                      /\ tree[s.item.path].kind = "dir"
  /\ \A k \in DOMAIN s.records : (s.pc = "list" /\ k = Len(s.records)) \/ Opened(s, s.records[k])
  /\ s.pc \in Walking => \A r \in R : Covered(s, r, 0)
  /\ s.pc = "complete" => s.queue = <<>>

\* Nothing that was met gets lost: its path is met still, no deeper than before.
Carries(s, t) == \A e \in Met(s) : \E f \in Met(t) : f.path = e.path /\ f.depth <= e.depth

LEMMA ScanFacts ==
  ASSUME NEW s \in ScanType
  PROVE  /\ s.queue \in Seq(Item) /\ s.records \in Seq(Item) /\ s.item \in Item /\ s.visited \subseteq Seq(Nat)
         /\ Len(s.queue) \in Nat /\ DOMAIN s.queue = 1..Len(s.queue)
         /\ Len(s.records) \in Nat /\ DOMAIN s.records = 1..Len(s.records)
         /\ \A j \in DOMAIN s.queue : s.queue[j] \in Item /\ s.queue[j].depth \in Nat
         /\ \A k \in DOMAIN s.records : s.records[k] \in Item /\ s.records[k].depth \in Nat
         /\ s.item.depth \in Nat /\ s.item.path \in Seq(Nat) /\ s.item.root \in Seq(Nat) /\ s.skipped \in Nat
<1>1. /\ s.queue \in Seq(Item) /\ s.records \in Seq(Item) /\ s.item \in Item /\ s.visited \subseteq Seq(Nat)
      /\ s.skipped \in Nat
  BY DEF ScanType
<1>2. \A q \in Seq(Item) : Len(q) \in Nat /\ DOMAIN q = 1..Len(q) /\ \A j \in DOMAIN q : q[j] \in Item
  OBVIOUS
<1>3. \A e \in Item : e.depth \in Nat /\ e.path \in Seq(Nat) /\ e.root \in Seq(Nat)
  BY DEF Item
<1> QED
  BY <1>1, <1>2, <1>3

LEMMA MetAreItems == ASSUME NEW s \in ScanType PROVE Met(s) \subseteq Item /\ \A e \in Met(s) : e.depth \in Nat
<1>1. s.queue \in Seq(Item) /\ s.records \in Seq(Item) /\ s.item \in Item
  BY DEF ScanType
<1>2. Met(s) \subseteq Item
  BY <1>1 DEF Met, Range
<1> QED
  BY <1>2 DEF Item

LEMMA CoveredStays ==
  ASSUME NEW s \in ScanType, NEW t \in ScanType, Carries(s, t), NEW p, NEW d \in Nat, Covered(s, p, d)
  PROVE  Covered(t, p, d)
<1>1. PICK e \in Met(s) : e.path = p /\ e.depth <= d
  BY DEF Covered
<1>2. PICK f \in Met(t) : f.path = e.path /\ f.depth <= e.depth
  BY DEF Carries
<1>3. e.depth \in Nat /\ f.depth \in Nat
  BY MetAreItems
<1> QED
  BY <1>1, <1>2, <1>3 DEF Covered

LEMMA OpenedStays ==
  ASSUME NEW s \in ScanType, NEW t \in ScanType, Carries(s, t), NEW e \in Item, Opened(s, e)
  PROVE  Opened(t, e)
<1>1. e.depth + 1 \in Nat
  BY DEF Item
<1> QED
  BY <1>1, CoveredStays DEF Opened

LEMMA FoundIsSolid ==
  ASSUME TreeOK, NEW R, NEW s \in ScanType, Walk(R, s), NEW e \in Met(s)
  PROVE  /\ Real(e.path) = e.path /\ KindAt(e.path) = tree[e.path].kind
         /\ tree[e.path].kind \notin {"gone", "link"} /\ There(e.path)
         /\ Within(e.root, e.path)
<1>1. Found(R, e)
  BY DEF Walk
<1>2. Solid(e.path)
  BY <1>1 DEF Found
<1>3. e.path \in Seq(Nat) /\ e.root \in Seq(Nat)
  BY MetAreItems DEF Item
<1>4. Within(e.root, e.path)
  <2>1. IsPrefix(e.root, e.root)
    BY <1>3, IsPrefixIs
  <2> QED
    BY <1>1, <2>1 DEF Found
<1> QED
  BY <1>2, <1>4, SolidIsReal DEF Solid

\* A queue without its head.
LEMMA QueueHead ==
  ASSUME NEW q \in Seq(Item), q # <<>>
  PROVE  /\ Len(q) \in Nat \ {0} /\ Head(q) \in Item /\ Head(q) = q[1] /\ Tail(q) \in Seq(Item)
         /\ Len(Tail(q)) = Len(q) - 1 /\ \A j \in DOMAIN Tail(q) : j + 1 \in DOMAIN q /\ Tail(q)[j] = q[j + 1]
         /\ \A j \in DOMAIN q : j = 1 \/ (j - 1 \in DOMAIN Tail(q) /\ Tail(q)[j - 1] = q[j])
<1>1. Len(q) \in Nat \ {0} /\ Head(q) \in Item /\ Head(q) = q[1] /\ Tail(q) \in Seq(Item) /\ Len(Tail(q)) = Len(q) - 1
  OBVIOUS
<1>2. PICK u : u = Tail(q)
  OBVIOUS
<1>3. \A j \in 1..(Len(q) - 1) : u[j] = q[j + 1]
  BY <1>2
<1>4. DOMAIN u = 1..(Len(q) - 1) /\ DOMAIN q = 1..Len(q)
  BY <1>1, <1>2
<1>5. ASSUME NEW j \in DOMAIN u PROVE j + 1 \in DOMAIN q /\ u[j] = q[j + 1]
  BY <1>1, <1>3, <1>4
<1>6. ASSUME NEW j \in DOMAIN q, j # 1 PROVE j - 1 \in DOMAIN u /\ u[j - 1] = q[j]
  <2>1. j - 1 \in 1..(Len(q) - 1) /\ (j - 1) + 1 = j
    BY <1>1, <1>4, <1>6
  <2> QED
    BY <1>3, <1>4, <2>1
<1> QED
  BY <1>1, <1>2, <1>5, <1>6

LEMMA WalkGoesOn ==
  ASSUME NEW R, NEW s \in ScanType, NEW t \in ScanType, Walk(R, s), Carries(s, t),
         \A e \in Met(t) : Found(R, e),
         t.records = s.records, Levels(t), t.pc # "list",
         \A k \in DOMAIN s.records : Opened(s, s.records[k]) \/ Opened(t, s.records[k]),
         \A p \in t.visited : (\E k \in DOMAIN t.records : t.records[k].path = p) \/ (t.pc = "record" /\ p = t.item.path),
         t.pc \in Walking => s.pc \in Walking,
         t.pc = "complete" => t.queue = <<>>
  PROVE  Walk(R, t)
<1>1. \A k \in DOMAIN t.records : Opened(t, t.records[k])
  BY ScanFacts, OpenedStays
<1>2. ASSUME t.pc \in Walking PROVE \A r \in R : Covered(t, r, 0)
  <2>1. \A r \in R : Covered(s, r, 0)
    BY <1>2 DEF Walk
  <2> QED
    BY <2>1, CoveredStays
<1>3. \A k \in DOMAIN t.records : t.records[k].path \in R => t.records[k].depth = 0
  BY DEF Walk
<1> QED
  BY <1>1, <1>2, <1>3 DEF Walk

LEMMA LevelsStay ==
  ASSUME NEW R, NEW s, NEW t, Walk(R, s), t.queue = s.queue, t.records = s.records, t.item = s.item
  PROVE  Levels(t)
  BY DEF Walk, Levels

\* Each step of the loop keeps the walk.
LEMMA TakeKeepsWalk ==
  ASSUME TreeOK, NEW R, NEW s \in ScanType, NEW t \in ScanType, Walk(R, s), s.pc = "take", s.queue # <<>>,
         t.pc = "resolve", t.queue = Tail(s.queue), t.item = Head(s.queue),
         t.visited = s.visited, t.records = s.records
  PROVE  Walk(R, t)
<1>1. PICK q, u : q = s.queue /\ u = t.queue
  OBVIOUS
<1>2. /\ q \in Seq(Item) /\ u \in Seq(Item) /\ t.item = q[1] /\ 1 \in DOMAIN q
      /\ \A j \in DOMAIN u : j + 1 \in DOMAIN q /\ u[j] = q[j + 1]
      /\ \A j \in DOMAIN q : j = 1 \/ (j - 1 \in DOMAIN u /\ u[j - 1] = q[j])
  BY <1>1, QueueHead DEF ScanType
<1>3. Met(s) = Range(q) \cup Range(s.records) /\ Met(t) = Range(u) \cup Range(s.records) \cup {q[1]}
  BY <1>1, <1>2 DEF Met
<1>4. Met(t) \subseteq Met(s) /\ Met(s) \subseteq Met(t)
  <2>1. Range(u) \subseteq Range(q) /\ q[1] \in Range(q)
    BY <1>2 DEF Range
  <2>2. Range(q) \subseteq Range(u) \cup {q[1]}
    BY <1>2 DEF Range
  <2> QED
    BY <1>3, <2>1, <2>2
<1>5. Carries(s, t)
  BY <1>4, MetAreItems DEF Carries
<1>6. Levels(t)
  <2>1. /\ \A j \in DOMAIN q : q[j] \in Item /\ s.item.depth <= q[j].depth /\ q[j].depth <= s.item.depth + 1
        /\ \A i, j \in DOMAIN q : i < j => q[i].depth <= q[j].depth
        /\ \A k \in DOMAIN s.records : s.records[k].depth <= s.item.depth
    BY <1>1, ScanFacts DEF Walk, Levels
  <2>2. s.item.depth \in Nat /\ (\A j \in DOMAIN q : q[j].depth \in Nat) /\ (\A k \in DOMAIN s.records : s.records[k].depth \in Nat)
    BY <1>1, ScanFacts
  <2>3. DOMAIN u \subseteq Nat
    BY <1>2
  <2>4. ASSUME NEW j \in DOMAIN u PROVE q[1].depth <= u[j].depth /\ u[j].depth <= q[1].depth + 1
    <3>1. j + 1 \in DOMAIN q /\ u[j] = q[j + 1] /\ 1 < j + 1
      BY <1>2, <2>3
    <3>2. q[1].depth <= q[j + 1].depth /\ q[j + 1].depth <= s.item.depth + 1 /\ s.item.depth <= q[1].depth
      BY <1>2, <2>1, <3>1
    <3>3. q[1].depth \in Nat /\ q[j + 1].depth \in Nat /\ s.item.depth \in Nat
      BY <1>2, <2>2, <3>1
    <3> QED
      BY <3>1, <3>2, <3>3
  <2>5. ASSUME NEW i \in DOMAIN u, NEW j \in DOMAIN u, i < j PROVE u[i].depth <= u[j].depth
    <3>1. i + 1 \in DOMAIN q /\ u[i] = q[i + 1] /\ j + 1 \in DOMAIN q /\ u[j] = q[j + 1] /\ i + 1 < j + 1
      BY <1>2, <2>3, <2>5
    <3> QED
      BY <2>1, <3>1
  <2>6. ASSUME NEW k \in DOMAIN s.records PROVE s.records[k].depth <= q[1].depth
    <3>1. s.records[k].depth <= s.item.depth /\ s.item.depth <= q[1].depth
      BY <1>2, <2>1
    <3> QED
      BY <1>2, <2>2, <3>1
  <2> QED
    BY <1>1, <1>2, <2>4, <2>5, <2>6 DEF Levels
<1>7. \A e \in Met(t) : Found(R, e)
  BY <1>4 DEF Walk
<1>8. /\ \A k \in DOMAIN s.records : Opened(s, s.records[k])
      /\ \A p \in t.visited : \E k \in DOMAIN t.records : t.records[k].path = p
  BY DEF Walk
<1>9. s.pc \in Walking
  BY DEF Walking
<1> QED
  BY <1>5, <1>6, <1>7, <1>8, <1>9, WalkGoesOn

LEMMA EndKeepsWalk ==
  ASSUME NEW R, NEW s \in ScanType, NEW t \in ScanType, Walk(R, s), s.pc = "take",
         t.pc \in {"complete", "partial", "aborted"}, t.pc = "complete" => s.queue = <<>>,
         t.queue = s.queue, t.item = s.item, t.visited = s.visited, t.records = s.records
  PROVE  Walk(R, t)
<1>1. Met(t) = Met(s)
  BY DEF Met
<1>2. Carries(s, t)
  BY <1>1, MetAreItems DEF Carries
<1>3. /\ \A k \in DOMAIN s.records : Opened(s, s.records[k])
      /\ \A p \in t.visited : \E k \in DOMAIN t.records : t.records[k].path = p
      /\ \A e \in Met(t) : Found(R, e)
  BY <1>1 DEF Walk
<1>4. s.pc \in Walking
  BY DEF Walking
<1> QED
  BY <1>2, <1>3, <1>4, LevelsStay, WalkGoesOn

LEMMA ResolveKeepsWalk ==
  ASSUME NEW R, NEW s \in ScanType, NEW t \in ScanType, Walk(R, s), s.pc = "resolve",
         t.pc = "record", t.visited = s.visited \cup {s.item.path},
         t.queue = s.queue, t.item = s.item, t.records = s.records
  PROVE  Walk(R, t)
<1>1. Met(t) = Met(s)
  BY DEF Met
<1>2. Carries(s, t)
  BY <1>1, MetAreItems DEF Carries
<1>3. /\ \A k \in DOMAIN s.records : Opened(s, s.records[k])
      /\ \A p \in t.visited : (\E k \in DOMAIN t.records : t.records[k].path = p) \/ (t.pc = "record" /\ p = t.item.path)
      /\ \A e \in Met(t) : Found(R, e)
  BY <1>1 DEF Walk
<1>4. s.pc \in Walking
  BY DEF Walking
<1> QED
  BY <1>2, <1>3, <1>4, LevelsStay, WalkGoesOn

LEMMA SeenKeepsWalk ==
  ASSUME NEW R, NEW s \in ScanType, NEW t \in ScanType, Walk(R, s), s.pc = "resolve", s.item.path \in s.visited,
         t.pc = "take", t.visited = s.visited, t.queue = s.queue, t.item = s.item, t.records = s.records
  PROVE  Walk(R, t)
<1>1. PICK k \in DOMAIN s.records : s.records[k].path = s.item.path
  BY DEF Walk
<1>2. s.records[k].depth <= s.item.depth /\ s.records[k] \in Met(t)
  BY DEF Walk, Levels, Met, Range
<1>3. Met(s) = Met(t) \cup {s.item}
  BY DEF Met
<1>4. Carries(s, t)
  <2>1. ASSUME NEW e \in Met(s) PROVE \E f \in Met(t) : f.path = e.path /\ f.depth <= e.depth
    <3>1. CASE e \in Met(t)
      BY <3>1, MetAreItems
    <3>2. CASE e = s.item
      BY <1>1, <1>2, <3>2
    <3> QED
      BY <1>3, <3>1, <3>2
  <2> QED
    BY <2>1 DEF Carries
<1>5. /\ \A j \in DOMAIN s.records : Opened(s, s.records[j])
      /\ \A p \in t.visited : \E j \in DOMAIN t.records : t.records[j].path = p
      /\ \A e \in Met(t) : Found(R, e)
  BY <1>3 DEF Walk
<1>6. s.pc \in Walking
  BY DEF Walking
<1> QED
  BY <1>4, <1>5, <1>6, LevelsStay, WalkGoesOn

LEMMA UnreadKeepsWalk ==
  ASSUME NEW R, NEW s \in ScanType, NEW t \in ScanType, Walk(R, s), s.pc = "list", ~ CanRead(s.item.path),
         t.pc = "take", t.visited = s.visited, t.queue = s.queue, t.item = s.item, t.records = s.records
  PROVE  Walk(R, t)
<1>1. Met(t) = Met(s)
  BY DEF Met
<1>2. Carries(s, t)
  BY <1>1, MetAreItems DEF Carries
<1>3. Opened(s, s.item)
  BY DEF Opened
<1>4. \A k \in DOMAIN s.records : Opened(s, s.records[k])
  BY <1>3 DEF Walk
<1>5. /\ \A p \in t.visited : \E k \in DOMAIN t.records : t.records[k].path = p
      /\ \A e \in Met(t) : Found(R, e)
  BY <1>1 DEF Walk
<1>6. s.pc \in Walking
  BY DEF Walking
<1> QED
  BY <1>2, <1>4, <1>5, <1>6, LevelsStay, WalkGoesOn

LEMMA RecordKeepsWalk ==
  ASSUME TreeOK, NEW R, NEW s \in ScanType, NEW t \in ScanType, Walk(R, s), Scope(s), s.pc = "record",
         t.pc = IF tree[s.item.path].kind = "dir" /\ s.item.depth < ScanDepth THEN "list" ELSE "take",
         t.visited = s.visited, t.queue = s.queue, t.item = s.item, t.records = Append(s.records, s.item)
  PROVE  Walk(R, t)
<1>1. PICK q, u : q = s.records /\ u = t.records
  OBVIOUS
<1>2. /\ q \in Seq(Item) /\ Len(q) \in Nat /\ DOMAIN q = 1..Len(q)
      /\ u \in Seq(Item) /\ Len(u) = Len(q) + 1 /\ DOMAIN u = 1..(Len(q) + 1)
      /\ u[Len(q) + 1] = s.item /\ \A k \in DOMAIN q : u[k] = q[k]
  BY <1>1, ScanFacts
<1>3. \A k \in DOMAIN u : k \in DOMAIN q \/ k = Len(q) + 1
  BY <1>2
<1>4. Range(u) = Range(q) \cup {s.item}
  <2>1. \A k \in DOMAIN q : k \in DOMAIN u
    BY <1>2
  <2>2. Len(q) + 1 \in DOMAIN u
    BY <1>2
  <2> QED
    BY <1>2, <1>3, <2>1, <2>2 DEF Range
<1>5. Met(t) = Met(s)
  BY <1>1, <1>4 DEF Met
<1>6. Carries(s, t)
  BY <1>5, MetAreItems DEF Carries
<1>7. \A e \in Met(t) : Found(R, e)
  BY <1>5 DEF Walk
<1>8. ASSUME s.item.path \in R PROVE s.item.depth = 0
  <2>1. Covered(s, s.item.path, 0)
    BY <1>8 DEF Walk, Walking
  <2>2. PICK e \in Met(s) : e.path = s.item.path /\ e.depth <= 0
    BY <2>1 DEF Covered
  <2>3. e.depth = 0
    BY <2>2, MetAreItems
  <2>4. \A k \in DOMAIN s.records : s.records[k].path # s.item.path
    BY DEF Scope
  <2>5. e \notin Range(s.records)
    BY <2>2, <2>4 DEF Range
  <2>6. CASE e \in Range(s.queue)
    <3>1. PICK j \in DOMAIN s.queue : e = s.queue[j]
      BY <2>6 DEF Range
    <3>2. s.item.depth <= e.depth
      BY <3>1 DEF Walk, Levels
    <3> QED
      BY <2>3, <3>2, ScanFacts
  <2>7. CASE e = s.item
    BY <2>3, <2>7
  <2> QED
    BY <2>5, <2>6, <2>7 DEF Met
<1>9. \A k \in DOMAIN t.records : t.records[k].path \in R => t.records[k].depth = 0
  <2>1. \A k \in DOMAIN q : q[k].path \in R => q[k].depth = 0
    BY <1>1 DEF Walk
  <2> QED
    BY <1>1, <1>2, <1>3, <1>8, <2>1
<1>10. Levels(t)
  <2>1. /\ \A j \in DOMAIN s.queue : s.item.depth <= s.queue[j].depth /\ s.queue[j].depth <= s.item.depth + 1
        /\ \A i, j \in DOMAIN s.queue : i < j => s.queue[i].depth <= s.queue[j].depth
        /\ \A k \in DOMAIN q : q[k].depth <= s.item.depth
    BY <1>1 DEF Walk, Levels
  <2>2. s.item.depth <= s.item.depth
    BY ScanFacts
  <2>3. \A k \in DOMAIN u : u[k].depth <= s.item.depth
    BY <1>2, <1>3, <2>1, <2>2
  <2> QED
    BY <1>1, <2>1, <2>3 DEF Levels
<1>11. \A p \in t.visited : \E k \in DOMAIN t.records : t.records[k].path = p
  <2>1. ASSUME NEW p \in s.visited PROVE \E k \in DOMAIN u : u[k].path = p
    <3>1. (\E k \in DOMAIN q : q[k].path = p) \/ p = s.item.path
      BY <1>1 DEF Walk
    <3>2. \A k \in DOMAIN q : k \in DOMAIN u
      BY <1>2
    <3>3. Len(q) + 1 \in DOMAIN u
      BY <1>2
    <3> QED
      BY <1>2, <3>1, <3>2, <3>3
  <2> QED
    BY <1>1, <2>1
<1>12. t.pc = "list" => /\ t.records # <<>> /\ t.item = t.records[Len(t.records)]
                        /\ tree[t.item.path].kind = "dir"
  BY <1>1, <1>2
<1>13. ASSUME NEW k \in DOMAIN t.records PROVE (t.pc = "list" /\ k = Len(t.records)) \/ Opened(t, t.records[k])
  <2>1. CASE k \in DOMAIN q
    <3>1. q[k] \in Item /\ Opened(s, q[k])
      BY <1>1, <2>1, ScanFacts DEF Walk
    <3> QED
      BY <1>1, <1>2, <1>6, <2>1, <3>1, OpenedStays
  <2>2. CASE k = Len(q) + 1
    <3>1. t.records[k] = s.item
      BY <1>1, <1>2, <2>2
    <3>2. CASE t.pc = "list"
      BY <1>1, <1>2, <2>2, <3>2
    <3>3. CASE t.pc # "list"
      BY <3>1, <3>3 DEF Opened
    <3> QED
      BY <3>2, <3>3
  <2> QED
    BY <1>1, <1>3, <2>1, <2>2
<1>14. \A r \in R : Covered(t, r, 0)
  <2>1. \A r \in R : Covered(s, r, 0)
    BY DEF Walk, Walking
  <2> QED
    BY <1>6, <2>1, CoveredStays
<1>15. t.pc # "complete"
  OBVIOUS
<1> QED
  BY <1>7, <1>9, <1>10, <1>11, <1>12, <1>13, <1>14, <1>15 DEF Walk

LEMMA ChildIsFound ==
  ASSUME TreeOK, NEW R \in SUBSET Seq(Nat), NEW i \in Item, Found(R, i), i.path \in R => i.depth = 0,
         tree[i.path].kind = "dir", i.depth < ScanDepth, CanRead(i.path),
         NEW n \in Nat, Append(i.path, n) \in Place, tree[Append(i.path, n)].kind \notin {"gone", "link"},
         Within(i.root, Append(i.path, n))
  PROVE  Found(R, [path |-> Append(i.path, n), root |-> i.root, depth |-> i.depth + 1])
<1>1. PICK p, c, r : p = i.path /\ c = Append(p, n) /\ r = i.root
  OBVIOUS
<1>2. PICK l : l = Len(p)
  OBVIOUS
<1>3. /\ p \in Seq(Nat) /\ r \in Seq(Nat) /\ i.depth \in Nat /\ ScanDepth \in Nat /\ l \in Nat
      /\ c \in Seq(Nat) /\ Len(c) = l + 1 /\ \A j \in 1..l : c[j] = p[j]
  BY <1>1, <1>2, AppendIs, FileScanAssumption DEF Item
<1>4. /\ r \in R /\ IsPrefix(r, p) /\ l = Len(r) + i.depth /\ Solid(p)
      /\ \A j \in Len(r)..(l - 1) : CanRead(Prefix(p, j))
      /\ \A q \in R : IsPrefix(r, q) /\ IsPrefix(q, p) => Within(q, p)
  BY <1>1, <1>2 DEF Found
<1>5. \A j \in 0..l : Prefix(c, j) = Prefix(p, j)
  <2>1. ASSUME NEW j \in 0..l PROVE Prefix(c, j) = Prefix(p, j)
    <3>1. j \in 0..Len(c) /\ j \in 0..Len(p)
      BY <1>2, <1>3
    <3>2. /\ Prefix(c, j) \in Seq(Nat) /\ Len(Prefix(c, j)) = j /\ \A k \in 1..j : Prefix(c, j)[k] = c[k]
          /\ Prefix(p, j) \in Seq(Nat) /\ Len(Prefix(p, j)) = j /\ \A k \in 1..j : Prefix(p, j)[k] = p[k]
      BY <1>3, <3>1, PrefixIs
    <3>3. \A k \in 1..j : c[k] = p[k]
      BY <1>3, SMTT(60)
    <3> QED
      BY <3>2, <3>3, SamePath, SMTT(60)
  <2> QED
    BY <2>1
<1>6. Prefix(c, l) = p
  BY <1>2, <1>3, <1>5, WholePrefix
<1>7. Len(r) \in Nat /\ Len(r) <= l /\ \A j \in 1..Len(r) : r[j] = p[j]
  BY <1>2, <1>3, <1>4, IsPrefixIs, SMTT(60)
<1>8. IsPrefix(r, c)
  <2>1. Len(r) <= Len(c) /\ \A j \in 1..Len(r) : r[j] = c[j]
    BY <1>3, <1>7, SMTT(60)
  <2> QED
    BY <1>3, <2>1, IsPrefixIs
<1>9. Len(c) = Len(r) + (i.depth + 1) /\ i.depth + 1 <= ScanDepth
  BY <1>3, <1>4, <1>7, SMTT(60)
<1>10. Solid(c)
  <2>1. c \in Place /\ tree[c].kind \notin {"gone", "link"}
    BY <1>1
  <2>2. ASSUME NEW j \in 1..(Len(c) - 1) PROVE tree[Prefix(c, j)].kind = "dir"
    <3>1. j \in 0..l /\ (j = l \/ j \in 1..(l - 1))
      BY <1>3
    <3> QED
      BY <1>1, <1>2, <1>4, <1>5, <1>6, <3>1 DEF Solid, There
  <2> QED
    BY <2>1, <2>2 DEF Solid, There
<1>11. ASSUME NEW j \in Len(r)..(Len(c) - 1) PROVE CanRead(Prefix(c, j))
  <2>1. j \in 0..l /\ (j = l \/ j \in Len(r)..(l - 1))
    BY <1>3, <1>7
  <2> QED
    BY <1>1, <1>4, <1>5, <1>6, <2>1
<1>12. ASSUME NEW q \in R, IsPrefix(r, q), IsPrefix(q, c) PROVE Within(q, c)
  <2>1. /\ q \in Seq(Nat) /\ Len(q) \in Nat /\ Len(q) <= l + 1 /\ Len(r) <= Len(q)
        /\ (\A j \in 1..Len(q) : q[j] = c[j]) /\ \A j \in 1..Len(r) : r[j] = q[j]
    <3>1. q \in Seq(Nat)
      OBVIOUS
    <3>2. Len(q) <= Len(c) /\ \A j \in 1..Len(q) : q[j] = c[j]
      BY <1>3, <1>12, <3>1, IsPrefixIs
    <3>3. Len(r) <= Len(q) /\ \A j \in 1..Len(r) : r[j] = q[j]
      BY <1>3, <1>12, <3>1, IsPrefixIs
    <3> QED
      BY <1>3, <3>1, <3>2, <3>3
  <2>2. CASE Len(q) < l
    <3>1. IsPrefix(q, p)
      <4>1. Len(q) <= Len(p) /\ \A j \in 1..Len(q) : q[j] = p[j]
        <5>1. \A j \in 1..Len(q) : j \in 1..l
          BY <1>3, <2>1, <2>2
        <5>2. Len(q) <= Len(p)
          BY <1>2, <1>3, <2>1, <2>2
        <5> QED
          BY <1>3, <2>1, <5>1, <5>2
      <4> QED
        BY <1>3, <2>1, <4>1, IsPrefixIs
    <3>2. p[Len(q) + 1] # DotDot
      BY <1>2, <1>3, <1>4, <1>12, <2>1, <2>2, <3>1 DEF Within
    <3>3. Len(q) + 1 \in 1..l
      <4>1. PICK m : m = Len(q)
        OBVIOUS
      <4>2. m \in Nat /\ l \in Nat /\ m < l
        BY <1>3, <2>1, <2>2, <4>1
      <4>3. m + 1 \in 1..l
        BY <4>2
      <4> QED
        BY <4>1, <4>3
    <3>4. c[Len(q) + 1] # DotDot
      BY <1>3, <3>2, <3>3
    <3> QED
      BY <1>12, <3>4 DEF Within
  <2>3. CASE Len(q) = l
    <3>1. q = p
      BY <1>2, <1>3, <2>1, <2>3, SamePath
    <3>2. i.depth = 0
      BY <1>1, <3>1
    <3>3. Len(r) = l
      BY <1>3, <1>4, <1>7, <3>2
    <3>4. r = p
      BY <1>2, <1>3, <1>7, <3>3, SamePath
    <3> QED
      BY <1>1, <3>1, <3>4
  <2>4. CASE Len(q) = l + 1
    BY <1>3, <1>12, <2>4 DEF Within
  <2> QED
    BY <1>3, <2>1, <2>2, <2>3, <2>4
<1>13. PICK f : f = [path |-> c, root |-> r, depth |-> i.depth + 1]
  OBVIOUS
<1>14. f.path = c /\ f.root = r /\ f.depth = i.depth + 1
  BY <1>13
<1>15. Found(R, f)
  BY <1>4, <1>8, <1>9, <1>10, <1>11, <1>12, <1>14 DEF Found
<1> QED
  BY <1>1, <1>13, <1>15

LEMMA ChildrenAre ==
  ASSUME NEW i \in Item, NEW names \in Seq(Nat)
  PROVE  /\ Children(i, names) \in Seq(Item) /\ Len(Children(i, names)) = Len(names)
         /\ \A j \in 1..Len(names) :
              Children(i, names)[j] = [path |-> Append(i.path, names[j]), root |-> i.root, depth |-> i.depth + 1]
<1>1. DOMAIN names = 1..Len(names) /\ Len(names) \in Nat /\ \A j \in 1..Len(names) : names[j] \in Nat
  OBVIOUS
<1>2. ASSUME NEW j \in 1..Len(names)
      PROVE  [path |-> Append(i.path, names[j]), root |-> i.root, depth |-> i.depth + 1] \in Item
  <2>1. i.path \in Seq(Nat) /\ i.root \in Seq(Nat) /\ i.depth + 1 \in Nat /\ names[j] \in Nat
    BY <1>1 DEF Item
  <2>2. Append(i.path, names[j]) \in Seq(Nat)
    BY <2>1
  <2> QED
    BY <2>1, <2>2 DEF Item
<1>3. Children(i, names) =
        [j \in 1..Len(names) |-> [path |-> Append(i.path, names[j]), root |-> i.root, depth |-> i.depth + 1]]
  BY <1>1, Zenon DEF Children
<1>4. PICK c : c = [j \in 1..Len(names) |-> [path |-> Append(i.path, names[j]), root |-> i.root, depth |-> i.depth + 1]]
  OBVIOUS
<1>5. c \in [1..Len(names) -> Item]
  BY <1>2, <1>4
<1>6. c \in Seq(Item) /\ Len(c) = Len(names)
  BY <1>1, <1>5
<1> QED
  BY <1>3, <1>4, <1>6

LEMMA ChildrenDepth ==
  ASSUME NEW i \in Item, NEW names \in Seq(Nat)
  PROVE  Children(i, names) \in Seq(Item) /\ \A j \in DOMAIN Children(i, names) : Children(i, names)[j].depth = i.depth + 1
<1>1. PICK c : c = Children(i, names)
  OBVIOUS
<1>2. c \in Seq(Item) /\ DOMAIN c = 1..Len(names)
  BY <1>1, ChildrenAre
<1>3. \A j \in 1..Len(names) : c[j] = [path |-> Append(i.path, names[j]), root |-> i.root, depth |-> i.depth + 1]
  BY <1>1, ChildrenAre
<1> QED
  BY <1>1, <1>2, <1>3

LEMMA NamesAre == ASSUME NEW p PROVE IsFiniteSet(Names(p)) /\ Names(p) \subseteq Nat
<1>1. PICK L : L = {Last(q) : q \in Place}
  OBVIOUS
<1>2. IsFiniteSet(L)
  <2>1. PICK f : f = [q \in Place |-> Last(q)]
    OBVIOUS
  <2>2. f \in Surjection(Place, L)
    BY <1>1, <2>1 DEF Surjection
  <2> QED
    BY <2>2, FileScanAssumption, FS_Surjection DEF ExistsSurjection
<1>3. ASSUME NEW q \in Place PROVE Last(q) \in Nat
  BY FileScanAssumption, FrontIs
<1>4. L \subseteq Nat
  BY <1>1, <1>3
<1>5. Names(p) \subseteq L
  BY <1>1 DEF Names
<1> QED
  BY <1>2, <1>4, <1>5, FS_Subset

LEMMA PlainAre ==
  ASSUME NEW i
  PROVE  /\ IsFiniteSet(Plain(i)) /\ Cardinality(Plain(i)) \in Nat /\ Plain(i) \subseteq Nat
         /\ Cardinality(Names(Real(i.path)) \ Plain(i)) \in Nat
<1>1. PICK S, T : S = Names(Real(i.path)) /\ T = Plain(i)
  OBVIOUS
<1>2. IsFiniteSet(S) /\ S \subseteq Nat
  BY <1>1, NamesAre
<1>3. T \subseteq S
  BY <1>1 DEF Plain
<1>4. S \ T \subseteq S
  OBVIOUS
<1>5. IsFiniteSet(T) /\ IsFiniteSet(S \ T)
  BY <1>2, <1>3, <1>4, FS_Subset
<1>6. Cardinality(T) \in Nat /\ Cardinality(S \ T) \in Nat
  BY <1>5, FS_CardinalityType
<1> QED
  BY <1>1, <1>2, <1>3, <1>5, <1>6

LEMMA PlainIs ==
  ASSUME TreeOK, NEW i \in Item, Real(i.path) = i.path, NEW n \in Nat
  PROVE  n \in Plain(i) <=> /\ Append(i.path, n) \in Place
                            /\ tree[Append(i.path, n)].kind \notin {"gone", "link"}
                            /\ Within(i.root, Append(i.path, n))
<1>1. ASSUME Append(i.path, n) \in Place PROVE n \in {Last(q) : q \in Place}
  <2>1. i.path \in Seq(Nat)
    BY DEF Item
  <2>2. Last(Append(i.path, n)) = n
    BY <2>1 DEF Last
  <2> QED
    BY <1>1, <2>2
<1> QED
  BY <1>1 DEF Plain, Names

\* What a queue is made of when something goes to its end.
LEMMA QueueGrows ==
  ASSUME NEW q \in Seq(Item), NEW c \in Seq(Item)
  PROVE  /\ q \o c \in Seq(Item) /\ Range(q \o c) = Range(q) \cup Range(c)
         /\ DOMAIN (q \o c) \subseteq Nat /\ DOMAIN q \subseteq Nat
         /\ \A j \in DOMAIN q : (q \o c)[j] = q[j]
         /\ \A j \in DOMAIN (q \o c) : j \in DOMAIN q \/ (Len(q) < j /\ j - Len(q) \in DOMAIN c /\ (q \o c)[j] = c[j - Len(q)])
<1>1. PICK u : u = q \o c
  OBVIOUS
<1>2. PICK n, m : n = Len(q) /\ m = Len(c)
  OBVIOUS
<1>3. /\ u \in Seq(Item) /\ n \in Nat /\ m \in Nat /\ Len(u) = n + m
      /\ DOMAIN q = 1..n /\ DOMAIN c = 1..m /\ DOMAIN u = 1..(n + m)
  BY <1>1, <1>2
<1>4. /\ \A j \in 1..n : u[j] = q[j]
      /\ \A k \in 1..m : u[n + k] = c[k]
  BY <1>1, <1>2
<1>5. ASSUME NEW j \in DOMAIN u PROVE j \in DOMAIN q \/ (n < j /\ j - n \in DOMAIN c /\ u[j] = c[j - n])
  <2>1. CASE j <= n
    BY <1>3, <2>1
  <2>2. CASE ~ (j <= n)
    <3>1. j - n \in 1..m /\ n + (j - n) = j /\ n < j
      BY <1>3, <2>2
    <3> QED
      BY <1>3, <1>4, <3>1
  <2> QED
    BY <2>1, <2>2
<1>6. Range(u) = Range(q) \cup Range(c)
  <2>1. \A j \in DOMAIN q : j \in DOMAIN u /\ u[j] = q[j]
    BY <1>3, <1>4
  <2>2. \A k \in DOMAIN c : n + k \in DOMAIN u /\ u[n + k] = c[k]
    BY <1>3, <1>4
  <2>3. Range(u) \subseteq Range(q) \cup Range(c)
    BY <1>5, <2>1, Zenon DEF Range
  <2>4. Range(q) \subseteq Range(u)
    BY <2>1, Zenon DEF Range
  <2>5. Range(c) \subseteq Range(u)
    BY <2>2, Zenon DEF Range
  <2> QED
    BY <2>3, <2>4, <2>5
<1> QED
  BY <1>1, <1>2, <1>3, <1>4, <1>5, <1>6

\* The levels of a queue that grows by one level.
LEMMA LevelsGrow ==
  ASSUME NEW s \in ScanType, NEW t \in ScanType, Levels(s), NEW c \in Seq(Item), NEW d \in Nat,
         \A k \in DOMAIN c : c[k].depth = d, s.item.depth <= d, d <= s.item.depth + 1,
         \A j \in DOMAIN s.queue : s.queue[j].depth <= d,
         t.queue = s.queue \o c, t.item = s.item, t.records = s.records
  PROVE  Levels(t)
<1>1. PICK q, u : q = s.queue /\ u = t.queue
  OBVIOUS
<1>2. /\ q \in Seq(Item) /\ s.item.depth \in Nat /\ DOMAIN u \subseteq Nat /\ DOMAIN q = 1..Len(q) /\ Len(q) \in Nat
      /\ \A j \in DOMAIN q : u[j] = q[j] /\ q[j].depth \in Nat
      /\ \A j \in DOMAIN u : j \in DOMAIN q \/ (Len(q) < j /\ j - Len(q) \in DOMAIN c /\ u[j] = c[j - Len(q)])
  BY <1>1, QueueGrows, ScanFacts, SMTT(60)
<1>3. \A j \in DOMAIN u : j \in DOMAIN q \/ (Len(q) < j /\ u[j].depth = d)
  BY <1>2
<1>4. ASSUME NEW j \in DOMAIN u PROVE s.item.depth <= u[j].depth /\ u[j].depth <= s.item.depth + 1
  BY <1>1, <1>2, <1>3 DEF Levels
<1>5. ASSUME NEW i \in DOMAIN u, NEW j \in DOMAIN u, i < j PROVE u[i].depth <= u[j].depth
  <2>1. CASE j \in DOMAIN q
    <3>1. i \in DOMAIN q
      BY <1>2, <1>3, <1>5, <2>1
    <3> QED
      BY <1>1, <1>2, <1>5, <2>1, <3>1 DEF Levels
  <2>2. CASE j \notin DOMAIN q
    <3>1. u[j].depth = d
      BY <1>3, <2>2
    <3>2. u[i].depth <= d
      BY <1>1, <1>2, <1>3, SMTT(60)
    <3> QED
      BY <3>1, <3>2
  <2> QED
    BY <2>1, <2>2
<1>6. \A k \in DOMAIN t.records : t.records[k].depth <= t.item.depth
  BY DEF Levels
<1> QED
  BY <1>1, <1>4, <1>5, <1>6 DEF Levels

LEMMA ListKeepsWalk ==
  ASSUME TreeOK, NEW R \in SUBSET Seq(Nat), NEW s \in ScanType, NEW t \in ScanType, Walk(R, s), Scope(s),
         s.pc = "list", CanRead(s.item.path), Real(s.item.path) = s.item.path,
         NEW names \in Seq(Nat), Range(names) = Plain(s.item),
         t.pc = "take", t.queue = s.queue \o Children(s.item, names), t.item = s.item, t.visited = s.visited,
         t.records = s.records
  PROVE  Walk(R, t)
<1>1. PICK i, c : i = s.item /\ c = Children(i, names)
  OBVIOUS
<1>2. i \in Item /\ i.depth \in Nat /\ i.depth + 1 \in Nat /\ i.depth < ScanDepth
  BY <1>1, ScanFacts DEF Scope
<1>3. /\ c \in Seq(Item) /\ DOMAIN c = DOMAIN names
      /\ \A j \in DOMAIN names :
           c[j] = [path |-> Append(i.path, names[j]), root |-> i.root, depth |-> i.depth + 1]
  <2>1. /\ c \in Seq(Item) /\ Len(c) = Len(names)
        /\ \A j \in 1..Len(names) :
             c[j] = [path |-> Append(i.path, names[j]), root |-> i.root, depth |-> i.depth + 1]
    BY <1>1, <1>2, ChildrenAre
  <2>2. DOMAIN c = 1..Len(names) /\ DOMAIN names = 1..Len(names)
    BY <2>1
  <2> QED
    BY <2>1, <2>2
<1>4. i \in Met(s) /\ (i.path \in R => i.depth = 0) /\ tree[i.path].kind = "dir"
  <2>1. s.records # <<>> /\ i = s.records[Len(s.records)] /\ tree[i.path].kind = "dir"
    BY <1>1 DEF Walk
  <2>2. Len(s.records) \in DOMAIN s.records
    BY <2>1, ScanFacts
  <2> QED
    BY <2>1, <2>2 DEF Walk, Met, Range
<1>5. Found(R, i)
  BY <1>4 DEF Walk
<1>6. \A n \in Nat : n \in Plain(i) <=> /\ Append(i.path, n) \in Place
                                       /\ tree[Append(i.path, n)].kind \notin {"gone", "link"}
                                       /\ Within(i.root, Append(i.path, n))
  BY <1>1, <1>2, PlainIs
<1>7. \A e \in Range(c) : Found(R, e)
  <2>1. ASSUME NEW j \in DOMAIN names PROVE Found(R, c[j])
    <3>1. names[j] \in Nat /\ names[j] \in Plain(i)
      BY <1>1 DEF Range
    <3>2. /\ Append(i.path, names[j]) \in Place /\ tree[Append(i.path, names[j])].kind \notin {"gone", "link"}
          /\ Within(i.root, Append(i.path, names[j]))
      BY <1>6, <3>1
    <3>3. Found(R, [path |-> Append(i.path, names[j]), root |-> i.root, depth |-> i.depth + 1])
      BY <1>1, <1>2, <1>4, <1>5, <3>1, <3>2, ChildIsFound
    <3> QED
      BY <1>3, <3>3
  <2> QED
    BY <1>3, <2>1 DEF Range
<1>8. Range(t.queue) = Range(s.queue) \cup Range(c)
  BY <1>1, <1>3, QueueGrows, ScanFacts
<1>9. Met(t) = Met(s) \cup Range(c)
  BY <1>8 DEF Met
<1>10. Carries(s, t)
  BY <1>9, MetAreItems DEF Carries
<1>11. \A e \in Met(t) : Found(R, e)
  BY <1>7, <1>9 DEF Walk
<1>12. Levels(t)
  <2>1. \A k \in DOMAIN c : c[k].depth = i.depth + 1
    BY <1>3
  <2>2. \A j \in DOMAIN s.queue : s.queue[j].depth <= i.depth + 1
    BY <1>1 DEF Walk, Levels
  <2>3. s.item.depth <= i.depth + 1 /\ i.depth + 1 <= s.item.depth + 1 /\ Levels(s)
    BY <1>1, <1>2 DEF Walk
  <2>4. t.queue = s.queue \o c
    BY <1>1
  <2> QED
    BY <1>2, <1>3, <2>1, <2>2, <2>3, <2>4, LevelsGrow
<1>13. Opened(t, i)
  <2>1. ASSUME NEW n \in Nat, Append(i.path, n) \in Place, tree[Append(i.path, n)].kind \notin {"gone", "link"},
               Within(i.root, Append(i.path, n))
        PROVE  Covered(t, Append(i.path, n), i.depth + 1)
    <3>1. n \in Plain(i)
      BY <1>6, <2>1
    <3>2. PICK j \in DOMAIN names : names[j] = n
      BY <1>1, <3>1 DEF Range
    <3>3. c[j].path = Append(i.path, n) /\ c[j].depth = i.depth + 1 /\ c[j] \in Range(c)
      BY <1>3, <3>2 DEF Range
    <3>4. c[j] \in Met(t) /\ c[j].depth <= i.depth + 1
      BY <1>2, <1>9, <3>3
    <3> QED
      BY <3>3, <3>4 DEF Covered
  <2> QED
    BY <2>1 DEF Opened
<1>14. \A k \in DOMAIN s.records : Opened(s, s.records[k]) \/ Opened(t, s.records[k])
  BY <1>1, <1>13 DEF Walk
<1>15. \A p \in t.visited : \E k \in DOMAIN t.records : t.records[k].path = p
  BY DEF Walk
<1>16. s.pc \in Walking
  BY DEF Walking
<1> QED
  BY <1>10, <1>11, <1>12, <1>14, <1>15, <1>16, WalkGoesOn

LEMMA RootIsFound ==
  ASSUME TreeOK, NEW R, NEW p \in Seq(Nat), p \in R, R \subseteq Seq(Nat), Solid(p)
  PROVE  Found(R, [path |-> p, root |-> p, depth |-> 0])
<1>1. PICK f : f = [path |-> p, root |-> p, depth |-> 0]
  OBVIOUS
<1>2. f.path = p /\ f.root = p /\ f.depth = 0
  BY <1>1
<1>3. Len(p) \in Nat /\ Len(p) = Len(p) + 0 /\ 0 <= ScanDepth /\ Len(p)..(Len(p) - 1) = {}
  BY FileScanAssumption
<1>4. IsPrefix(p, p)
  BY IsPrefixIs
<1>5. ASSUME NEW q \in R, IsPrefix(p, q), IsPrefix(q, p) PROVE Within(q, p)
  <2>1. q \in Seq(Nat) /\ Len(q) \in Nat
    OBVIOUS
  <2>2. Len(p) <= Len(q)
    BY <1>5, <2>1, IsPrefixIs
  <2> QED
    BY <1>3, <1>5, <2>1, <2>2 DEF Within
<1>6. Found(R, f)
  BY <1>2, <1>3, <1>4, <1>5 DEF Found
<1> QED
  BY <1>1, <1>6

LEMMA SeedKeepsWalk ==
  ASSUME TreeOK, NEW R \in SUBSET Seq(Nat), NEW s \in ScanType, NEW t \in ScanType, Walk(R, s),
         s.pc = "seed", t.pc = "seed", s.item.depth = 0, \A j \in DOMAIN s.queue : s.queue[j].depth = 0,
         NEW p \in R, Solid(p), t.queue = Append(s.queue, [path |-> p, root |-> p, depth |-> 0]),
         t.item = s.item, t.visited = s.visited, t.records = s.records
  PROVE  Walk(R, t) /\ Carries(s, t) /\ Covered(t, p, 0) /\ \A j \in DOMAIN t.queue : t.queue[j].depth = 0
<1>1. PICK f : f = [path |-> p, root |-> p, depth |-> 0]
  OBVIOUS
<1>2. p \in Seq(Nat) /\ f \in Item /\ f.depth = 0 /\ f.path = p
  BY <1>1 DEF Item
<1>3. PICK c : c = <<f>>
  OBVIOUS
<1>4. c \in Seq(Item) /\ DOMAIN c = {1} /\ c[1] = f /\ Range(c) = {f}
  BY <1>2, <1>3 DEF Range
<1>5. t.queue = s.queue \o c
  <2>1. \A q \in Seq(Item) : Append(q, f) = q \o <<f>>
    BY <1>2
  <2> QED
    BY <1>1, <1>3, <2>1, ScanFacts
<1>6. Range(t.queue) = Range(s.queue) \cup {f}
  <2>1. PICK q, u : q = s.queue /\ u = t.queue
    OBVIOUS
  <2>2. q \in Seq(Item) /\ u = q \o c
    BY <1>5, <2>1, ScanFacts
  <2>3. Range(q \o c) = Range(q) \cup Range(c)
    BY <1>4, <2>2, QueueGrows
  <2> QED
    BY <1>4, <2>1, <2>2, <2>3
<1>7. Met(t) = Met(s) \cup {f}
  BY <1>6 DEF Met
<1>8. Carries(s, t)
  BY <1>7, MetAreItems DEF Carries
<1>9. \A e \in Met(t) : Found(R, e)
  BY <1>1, <1>2, <1>7, RootIsFound DEF Walk
<1>10. Levels(t)
  <2>1. \A k \in DOMAIN c : c[k].depth = 0
    BY <1>2, <1>4
  <2>2. s.item.depth <= 0 /\ 0 <= s.item.depth + 1 /\ Levels(s) /\ \A j \in DOMAIN s.queue : s.queue[j].depth <= 0
    BY DEF Walk
  <2> QED
    <3>1. PICK d \in Nat : d = 0
      OBVIOUS
    <3>2. /\ \A k \in DOMAIN c : c[k].depth = d
          /\ s.item.depth <= d /\ d <= s.item.depth + 1 /\ \A j \in DOMAIN s.queue : s.queue[j].depth <= d
      BY <2>1, <2>2, <3>1
    <3> QED
      BY <1>4, <1>5, <2>2, <3>2, LevelsGrow
<1>11. /\ \A k \in DOMAIN s.records : Opened(s, s.records[k])
       /\ \A q \in t.visited : \E k \in DOMAIN t.records : t.records[k].path = q
  BY DEF Walk
<1>12. s.pc \notin Walking /\ t.pc \notin Walking
  BY DEF Walking
<1>13. Walk(R, t)
  BY <1>8, <1>9, <1>10, <1>11, <1>12, WalkGoesOn
<1>14. Covered(t, p, 0)
  BY <1>2, <1>7 DEF Covered
<1>15. \A j \in DOMAIN t.queue : t.queue[j].depth = 0
  <2>1. ASSUME NEW j \in DOMAIN t.queue PROVE t.queue[j].depth = 0
    <3>1. t.queue[j] \in Range(s.queue) \cup {f}
      BY <1>6 DEF Range
    <3>2. \A e \in Range(s.queue) : e.depth = 0
      BY DEF Range
    <3> QED
      BY <1>2, <3>1, <3>2
  <2> QED
    BY <2>1
<1> QED
  BY <1>8, <1>13, <1>14, <1>15

-----------------------------------------------------------------------------
\* What was found is what the scan is about: the half of CompleteIsWhole that is easy.
LEMMA FoundIsScannable ==
  ASSUME TreeOK, NEW e \in Item, Found(RootPaths, e)
  PROVE  e.path \in Scannable
<1>1. PICK p, r : p = e.path /\ r = e.root
  OBVIOUS
<1>2. p \in Seq(Nat) /\ r \in Seq(Nat) /\ e.depth \in Nat /\ ScanDepth \in Nat
  BY <1>1, FileScanAssumption DEF Item
<1>3. Len(p) - Len(r) <= ScanDepth
  <2>1. Len(p) = Len(r) + e.depth /\ e.depth <= ScanDepth /\ Len(r) \in Nat
    BY <1>1, <1>2 DEF Found
  <2> QED
    BY <1>2, <2>1
<1>4. There(p) /\ tree[p].kind # "link" /\ p \in Place
  BY <1>1 DEF Found, Solid, There
<1>5. /\ r \in RootPaths /\ IsPrefix(r, p) /\ \A i \in Len(r)..(Len(p) - 1) : CanRead(Prefix(p, i))
      /\ \A q \in RootPaths : IsPrefix(r, q) /\ IsPrefix(q, p) => Within(q, p)
  BY <1>1 DEF Found
<1>6. p \in Scannable
  BY <1>3, <1>4, <1>5, Zenon DEF Scannable
<1> QED
  BY <1>1, <1>6

LEMMA PrefixBy ==
  ASSUME NEW a \in Seq(Nat), NEW p \in Seq(Nat), NEW n \in Nat, Len(a) = n, n <= Len(p), \A i \in 1..n : a[i] = p[i]
  PROVE  IsPrefix(a, p)
<1>1. Len(a) <= Len(p) /\ \A i \in 1..Len(a) : a[i] = p[i]
  OBVIOUS
<1> QED
  BY <1>1, IsPrefixIs

LEMMA PrefixGives ==
  ASSUME NEW a \in Seq(Nat), NEW p \in Seq(Nat), IsPrefix(a, p), NEW n \in Nat, Len(a) = n
  PROVE  n <= Len(p) /\ \A i \in 1..n : a[i] = p[i]
<1>1. Len(a) <= Len(p) /\ \A i \in 1..Len(a) : a[i] = p[i]
  BY IsPrefixIs
<1> QED
  BY <1>1

LEMMA NextPrefix ==
  ASSUME NEW p \in Seq(Nat), NEW j \in Nat, j < Len(p)
  PROVE  /\ Append(Prefix(p, j), p[j + 1]) = Prefix(p, j + 1) /\ p[j + 1] \in Nat
         /\ Prefix(p, j) \in Seq(Nat) /\ Len(Prefix(p, j)) = j /\ \A i \in 1..j : Prefix(p, j)[i] = p[i]
         /\ Prefix(p, j + 1) \in Seq(Nat) /\ Len(Prefix(p, j + 1)) = j + 1
         /\ \A i \in 1..(j + 1) : Prefix(p, j + 1)[i] = p[i]
         /\ IsPrefix(Prefix(p, j), p) /\ IsPrefix(Prefix(p, j), Prefix(p, j + 1))
<1>1. j \in 0..Len(p) /\ j + 1 \in 0..Len(p) /\ p[j + 1] \in Nat
  OBVIOUS
<1>2. PICK a, b : a = Prefix(p, j) /\ b = Prefix(p, j + 1)
  OBVIOUS
<1>3. /\ a \in Seq(Nat) /\ Len(a) = j /\ \A i \in 1..j : a[i] = p[i]
      /\ b \in Seq(Nat) /\ Len(b) = j + 1 /\ \A i \in 1..(j + 1) : b[i] = p[i]
  BY <1>1, <1>2, PrefixIs
<1>4. PICK c : c = Append(a, p[j + 1])
  OBVIOUS
<1>5. c \in Seq(Nat) /\ Len(c) = j + 1 /\ c[j + 1] = p[j + 1] /\ \A i \in 1..j : c[i] = a[i]
  BY <1>1, <1>3, <1>4, AppendIs
<1>6. ASSUME NEW i \in 1..(j + 1) PROVE c[i] = b[i]
  <2>1. i \in 1..j \/ i = j + 1
    OBVIOUS
  <2> QED
    BY <1>3, <1>5, <2>1
<1>7. c = b
  BY <1>3, <1>5, <1>6, SamePath
<1>8. IsPrefix(a, p)
  <2>1. j <= Len(p)
    OBVIOUS
  <2> QED
    BY <1>3, <2>1, PrefixBy
<1>9. IsPrefix(a, b)
  <2>1. j <= Len(b)
    BY <1>3
  <2>2. \A i \in 1..j : i \in 1..(j + 1)
    OBVIOUS
  <2>3. \A i \in 1..j : a[i] = b[i]
    BY <1>3, <2>2
  <2> QED
    BY <1>3, <2>1, <2>3, PrefixBy
<1> QED
  BY <1>1, <1>2, <1>3, <1>4, <1>7, <1>8, <1>9

LEMMA ShorterIsPrefix ==
  ASSUME NEW p \in Seq(Nat), NEW r \in Seq(Nat), NEW j \in Nat, j < Len(p), IsPrefix(r, p), Len(r) <= j
  PROVE  IsPrefix(r, Prefix(p, j))
<1>1. Prefix(p, j) \in Seq(Nat) /\ Len(Prefix(p, j)) = j /\ \A i \in 1..j : Prefix(p, j)[i] = p[i]
  BY NextPrefix
<1>2. PICK n \in Nat : n = Len(r)
  OBVIOUS
<1>3. n <= j /\ \A i \in 1..n : r[i] = p[i]
  BY <1>2, PrefixGives, SMTT(60)
<1>4. \A i \in 1..n : i \in 1..j
  BY <1>3
<1>5. \A i \in 1..n : r[i] = Prefix(p, j)[i]
  BY <1>1, <1>3, <1>4
<1>6. n <= Len(Prefix(p, j))
  BY <1>1, <1>3
<1> QED
  BY <1>1, <1>2, <1>5, <1>6, PrefixBy

\* Within is about the next name only.
LEMMA WithinNext ==
  ASSUME NEW p \in Seq(Nat), NEW j \in Nat, j < Len(p), NEW q \in Seq(Nat), IsPrefix(q, Prefix(p, j)),
         (Len(q) < j /\ Within(q, Prefix(p, j))) \/ (Len(q) = j /\ Within(q, p))
  PROVE  Within(q, Prefix(p, j + 1))
<1>1. PICK a, b : a = Prefix(p, j) /\ b = Prefix(p, j + 1)
  OBVIOUS
<1>2. /\ a \in Seq(Nat) /\ Len(a) = j /\ \A i \in 1..j : a[i] = p[i]
      /\ b \in Seq(Nat) /\ Len(b) = j + 1 /\ \A i \in 1..(j + 1) : b[i] = p[i]
  BY <1>1, NextPrefix
<1>3. Len(q) \in Nat /\ Len(q) <= j
  <2>1. PICK n \in Nat : n = Len(q)
    OBVIOUS
  <2>2. IsPrefix(q, a)
    BY <1>1
  <2>3. n <= Len(a)
    BY <1>2, <2>1, <2>2, PrefixGives
  <2> QED
    BY <1>2, <2>1, <2>3
<1>4. IsPrefix(q, b)
  <2>1. PICK n \in Nat : n = Len(q)
    OBVIOUS
  <2>2. IsPrefix(q, a)
    BY <1>1
  <2>3. \A i \in 1..n : q[i] = a[i]
    BY <1>2, <2>1, <2>2, PrefixGives
  <2>4. \A i \in 1..n : i \in 1..j /\ i \in 1..(j + 1)
    BY <1>3, <2>1
  <2>5. \A i \in 1..n : q[i] = b[i]
    BY <1>2, <2>3, <2>4
  <2>6. n <= Len(b)
    BY <1>2, <1>3, <2>1
  <2> QED
    BY <1>2, <2>1, <2>5, <2>6, PrefixBy
<1>5. p[Len(q) + 1] # DotDot
  <2>1. CASE Len(q) < j /\ Within(q, a)
    <3>1. Len(q) + 1 \in 1..j
      BY <1>3, <2>1
    <3> QED
      BY <1>2, <2>1, <3>1 DEF Within
  <2>2. CASE Len(q) = j /\ Within(q, p)
    BY <2>2 DEF Within
  <2> QED
    BY <1>1, <2>1, <2>2
<1>6. b[Len(q) + 1] # DotDot
  <2>1. Len(q) + 1 \in 1..(j + 1)
    BY <1>3
  <2> QED
    BY <1>2, <1>5, <2>1
<1> QED
  BY <1>1, <1>4, <1>6 DEF Within

\* What makes p part of what a scan of the roots R is about.
\* How a path can be reached from the root r.
LeadsTo(R, r, p) ==
  /\ There(p) /\ IsPrefix(r, p) /\ Len(p) - Len(r) <= ScanDepth
  /\ \A i \in Len(r)..(Len(p) - 1) : CanRead(Prefix(p, i))
  /\ tree[p].kind # "link"
  /\ \A q \in R : IsPrefix(r, q) /\ IsPrefix(q, p) => Within(q, p)

\* What lies on the way to it can be reached as well.
LEMMA OnTheWay ==
  ASSUME NEW R, NEW p \in Seq(Nat), NEW r \in Seq(Nat), LeadsTo(R, r, p), NEW j \in Nat, j < Len(p), 1 <= Len(r), Len(r) <= j
  PROVE  /\ Prefix(p, j + 1) \in Place /\ tree[Prefix(p, j + 1)].kind \notin {"gone", "link"}
         /\ tree[Prefix(p, j)].kind = "dir" /\ CanRead(Prefix(p, j)) /\ IsPrefix(r, p)
<1>1. PICK l, m : l = Len(r) /\ m = Len(p)
  OBVIOUS
<1>2. l \in Nat /\ m \in Nat /\ 1 <= l /\ l <= j /\ j < m
  BY <1>1
<1>3. /\ p \in Place /\ tree[p].kind \notin {"gone", "link"} /\ IsPrefix(r, p)
      /\ \A i \in l..(m - 1) : CanRead(Prefix(p, i))
      /\ \A i \in 1..(m - 1) : tree[Prefix(p, i)].kind = "dir"
  BY <1>1 DEF LeadsTo, There
<1>4. j \in l..(m - 1) /\ j \in 1..(m - 1)
  BY <1>2
<1>5. Prefix(p, j + 1) \in Place /\ tree[Prefix(p, j + 1)].kind \notin {"gone", "link"}
  <2>1. CASE j + 1 = m
    BY <1>1, <1>3, <2>1, WholePrefix
  <2>2. CASE j + 1 # m
    <3>1. j + 1 \in l..(m - 1) /\ j + 1 \in 1..(m - 1)
      BY <1>2, <2>2
    <3>2. CanRead(Prefix(p, j + 1)) /\ tree[Prefix(p, j + 1)].kind = "dir"
      BY <1>3, <3>1
    <3>3. Prefix(p, j + 1) \in Place
      BY <3>2, Zenon DEF CanRead, There
    <3> QED
      BY <3>2, <3>3
  <2> QED
    BY <2>1, <2>2
<1> QED
  BY <1>3, <1>4, <1>5

\* A shortest path that a complete scan has missed has a parent that was not missed.
\* One name further on the way: the record there may have been made from another root, r
\* lying in it or around it.  If it was made from an outer root q, then r is met at depth 0,
\* so the record is no deeper than from r; and no root in between begins with two dots.
LEMMA ParentIsOpened ==
  ASSUME NEW R \in SUBSET Seq(Nat), NEW s \in ScanType, Walk(R, s),
         NEW p \in Seq(Nat), NEW r \in R, LeadsTo(R, r, p),
         NEW j \in Nat, 1 <= Len(r), Len(r) <= j, j < Len(p),
         NEW e \in Item, e \in Met(s), e.path = Prefix(p, j), e.depth <= j - Len(r), Opened(s, e)
  PROVE  Covered(s, Prefix(p, j + 1), j + 1 - Len(r))
<1>1. PICK a, b, n : a = Prefix(p, j) /\ b = Prefix(p, j + 1) /\ n = p[j + 1]
  OBVIOUS
<1>2. a \in Seq(Nat) /\ Len(a) = j /\ b = Append(a, n) /\ n \in Nat /\ IsPrefix(a, p)
  BY <1>1, NextPrefix
<1>3. r \in Seq(Nat) /\ Len(r) \in Nat /\ e.root \in Seq(Nat) /\ Len(e.root) \in Nat /\ e.depth \in Nat
  BY SMTT(60) DEF Item
<1>4. b \in Place /\ tree[b].kind \notin {"gone", "link"} /\ tree[a].kind = "dir" /\ CanRead(a) /\ IsPrefix(r, p)
  BY <1>1, <1>3, OnTheWay
<1>5. e.depth < ScanDepth /\ e.depth + 1 <= j + 1 - Len(r)
  <2>1. Len(p) - Len(r) <= ScanDepth /\ Len(p) \in Nat /\ ScanDepth \in Nat
    BY FileScanAssumption DEF LeadsTo
  <2> QED
    BY <1>3, <2>1, SMTT(60)
<1>6. /\ e.root \in R /\ IsPrefix(e.root, a) /\ j = Len(e.root) + e.depth
      /\ \A q \in R : IsPrefix(e.root, q) /\ IsPrefix(q, a) => Within(q, a)
  <2>1. Found(R, e)
    BY DEF Walk
  <2> QED
    BY <1>1, <1>2, <2>1 DEF Found
<1>7. Within(e.root, b)
  <2>1. CASE Len(e.root) < j
    <3>1. IsPrefix(e.root, e.root)
      BY <1>3, IsPrefixIs, SMTT(60)
    <3>2. Within(e.root, a)
      BY <1>6, <3>1
    <3> QED
      BY <1>1, <1>3, <1>6, <2>1, <3>2, WithinNext
  <2>2. CASE Len(e.root) = j
    <3>1. \A i \in 1..j : e.root[i] = a[i]
      BY <1>2, <1>3, <1>6, <2>2, PrefixGives, ZenonT(60)
    <3>2. e.root = a
      BY <1>2, <1>3, <2>2, <3>1, SamePath
    <3>3. IsPrefix(r, a)
      BY <1>1, <1>3, <1>4, ShorterIsPrefix
    <3>4. Within(e.root, p)
      BY <1>2, <1>6, <3>2, <3>3 DEF LeadsTo
    <3> QED
      BY <1>1, <1>3, <1>6, <2>2, <3>4, WithinNext
  <2>3. Len(e.root) <= j
    <3>1. Len(e.root) <= Len(a)
      BY <1>2, <1>3, <1>6, PrefixGives
    <3> QED
      BY <1>2, <3>1
  <2> QED
    BY <1>3, <2>1, <2>2, <2>3
<1>8. Covered(s, b, e.depth + 1)
  BY <1>1, <1>2, <1>4, <1>5, <1>7 DEF Opened
<1>9. PICK f \in Met(s) : f.path = b /\ f.depth <= e.depth + 1
  BY <1>8 DEF Covered
<1>10. f.depth <= j + 1 - Len(r)
  <2>1. f.depth \in Nat
    BY MetAreItems
  <2> QED
    BY <1>3, <1>5, <1>9, <2>1, SMTT(60)
<1> QED
  BY <1>1, <1>9, <1>10 DEF Covered

\* The half that is hard: the shortest part of a path to something scannable that has no
\* record has one before it, whose directory was read, so it was met and, the queue being
\* empty, recorded.
LEMMA WholeIsFound ==
  ASSUME TreeOK, NEW s \in ScanType, RootPaths \in SUBSET Seq(Nat), Walk(RootPaths, s), s.pc = "complete",
         NEW p \in Scannable
  PROVE  \E k \in DOMAIN s.records : s.records[k].path = p
<1>1. PICK R : R = RootPaths
  OBVIOUS
<1>2. PICK r \in R : p \in Place /\ LeadsTo(R, r, p)
  BY <1>1, Zenon DEF Scannable, LeadsTo
<1>3. /\ R \in SUBSET Seq(Nat) /\ p \in Seq(Nat) /\ r \in Seq(Nat) /\ Walk(R, s)
      /\ Len(p) \in Nat /\ Len(r) \in Nat /\ IsPrefix(r, p)
  BY <1>1, <1>2, FileScanAssumption DEF LeadsTo
<1>4. Met(s) = Range(s.records)
  <2>1. s.queue = <<>>
    BY DEF Walk
  <2>2. Range(s.queue) = {}
    BY <2>1 DEF Range
  <2> QED
    BY <2>2 DEF Met
<1>5. \A q, d : Covered(s, q, d) => \E k \in DOMAIN s.records : s.records[k].path = q /\ s.records[k].depth <= d
  BY <1>4, Zenon DEF Covered, Range
<1>6. Covered(s, r, 0)
  BY <1>1, <1>2 DEF Walk, Walking
<1>7. Len(r) >= 1 /\ Len(r) <= Len(p)
  <2>1. PICK e \in Met(s) : e.path = r
    BY <1>6 DEF Covered
  <2>2. Solid(r)
    BY <2>1 DEF Walk, Found
  <2>3. r # <<>>
    BY <2>2, SolidIsReal
  <2>4. Len(r) <= Len(p)
    BY <1>3, IsPrefixIs
  <2> QED
    BY <1>3, <2>3, <2>4
<1> DEFINE Missed == {j \in Len(r)..Len(p) : ~ \E k \in DOMAIN s.records :
                                              s.records[k].path = Prefix(p, j) /\ s.records[k].depth <= j - Len(r)}
<1>8. CASE Missed = {}
  <2>1. Len(p) \in Len(r)..Len(p)
    BY <1>3, <1>7
  <2>2. \E k \in DOMAIN s.records : s.records[k].path = Prefix(p, Len(p))
    BY <1>8, <2>1
  <2> QED
    BY <1>3, <2>2, WholePrefix
<1>9. CASE Missed # {}
  <2>1. Missed \in SUBSET Nat
    BY <1>3
  <2>2. PICK m \in Missed : \A i \in Missed : m <= i
    BY <1>9, <2>1, LeastOf
  <2>3. m \in Len(r)..Len(p) /\ m \in Nat
    BY <1>3, <2>2
  <2>4. CASE m = Len(r)
    <3>1. Prefix(p, m) = r
      <4>1. /\ Prefix(p, m) \in Seq(Nat) /\ Len(Prefix(p, m)) = m /\ \A i \in 1..m : Prefix(p, m)[i] = p[i]
        <5>1. m \in 0..Len(p)
          BY <1>3, <2>3
        <5> QED
          BY <1>3, <5>1, PrefixIs
      <4>2. \A i \in 1..m : r[i] = p[i]
        BY <1>3, <2>4, IsPrefixIs
      <4> QED
        BY <1>3, <2>4, <4>1, <4>2, SamePath
    <3>2. \E k \in DOMAIN s.records : s.records[k].path = r /\ s.records[k].depth <= 0
      BY <1>5, <1>6
    <3>3. m - Len(r) = 0
      BY <1>3, <2>4
    <3> QED
      BY <2>2, <3>1, <3>2, <3>3
  <2>5. CASE m # Len(r)
    <3>1. PICK j : j = m - 1
      OBVIOUS
    <3>2. j \in Nat /\ Len(r) <= j /\ j < Len(p) /\ j \in Len(r)..Len(p) /\ j + 1 = m /\ j < m
      BY <1>3, <1>7, <2>3, <2>5, <3>1
    <3>3. j \notin Missed
      BY <2>2, <2>3, <3>2
    <3>4. PICK k \in DOMAIN s.records : s.records[k].path = Prefix(p, j) /\ s.records[k].depth <= j - Len(r)
      BY <3>2, <3>3
    <3>5. Opened(s, s.records[k]) /\ s.records[k] \in Item /\ s.records[k] \in Met(s)
      BY <1>4, ScanFacts DEF Walk, Range
    <3>6. Covered(s, Prefix(p, j + 1), j + 1 - Len(r))
      BY <1>2, <1>3, <1>7, <3>2, <3>4, <3>5, ParentIsOpened
    <3>7. \E i \in DOMAIN s.records : s.records[i].path = Prefix(p, m) /\ s.records[i].depth <= m - Len(r)
      BY <1>5, <3>2, <3>6
    <3> QED
      BY <2>2, <3>7
  <2> QED
    BY <2>4, <2>5
<1> QED
  BY <1>8, <1>9

-----------------------------------------------------------------------------
\* What each step does, of a scan s that becomes t.
SameFinds(s, t) == t.queue = s.queue /\ t.item = s.item /\ t.visited = s.visited /\ t.records = s.records
SameEntry(s, t) == t.asked = s.asked /\ t.allowed = s.allowed
SameTodo(s, t) == SameEntry(s, t) /\ t.todo = s.todo

LEMMA FieldsOf ==
  ASSUME NEW s \in ScanType
  PROVE  /\ s = [pc |-> s.pc, asked |-> s.asked, todo |-> s.todo, allowed |-> s.allowed, queue |-> s.queue,
                 item |-> s.item, visited |-> s.visited, records |-> s.records, skipped |-> s.skipped]
         /\ s.pc \in ScanPc /\ s.asked \in Asks /\ s.todo \in Seq(Place) /\ s.allowed \subseteq Seq(Nat)
         /\ s.queue \in Seq(Item) /\ s.item \in Item /\ s.visited \subseteq Seq(Nat) /\ s.records \in Seq(Item)
         /\ s.skipped \in Nat
  BY DEF ScanType

LEMMA GoesDoes ==
  ASSUME NEW s \in ScanType, NEW t, NEW pc \in ScanPc, t = [s EXCEPT !.pc = pc]
  PROVE  t \in ScanType /\ t.pc = pc /\ SameFinds(s, t) /\ SameTodo(s, t)
  BY DEF ScanType, SameFinds, SameTodo, SameEntry

LEMMA TodoDoes ==
  ASSUME NEW s \in ScanType, NEW t, NEW pc \in ScanPc, NEW todo \in Seq(Place), t = [s EXCEPT !.pc = pc, !.todo = todo]
  PROVE  t \in ScanType /\ t.pc = pc /\ SameFinds(s, t) /\ SameEntry(s, t) /\ t.todo = todo
  BY DEF ScanType, SameFinds, SameEntry

LEMMA ProbeDoes ==
  ASSUME NEW s \in ScanType, NEW t, s = scan, t = scan', Probe
  PROVE  /\ t \in ScanType /\ SameFinds(s, t) /\ SameEntry(s, t) /\ s.pc = "probe"
         /\ \/ t.pc = "not_ready"
            \/ /\ \A r \in Range(Configured) : Readable(r)
               /\ t.pc = (IF s.asked = <<>> THEN "seed" ELSE "authorize") /\ t.todo = RootsOf
<1>1. CASE \A r \in Range(Configured) : Readable(r)
  <2>1. PICK pc, todo : pc = (IF s.asked = <<>> THEN "seed" ELSE "authorize") /\ todo = RootsOf
    OBVIOUS
  <2>2. pc \in ScanPc /\ todo \in Seq(Place)
    BY <2>1, AskedRoots DEF ScanPc
  <2>3. t = [s EXCEPT !.pc = pc, !.todo = todo]
    BY <1>1, <2>1, Zenon DEF Probe
  <2>4. t \in ScanType /\ t.pc = pc /\ SameFinds(s, t) /\ SameEntry(s, t) /\ t.todo = todo
    BY <2>2, <2>3, TodoDoes, ZenonT(60)
  <2>5. s.pc = "probe"
    BY Zenon DEF Probe
  <2> QED
    BY <1>1, <2>1, <2>4, <2>5
<1>2. CASE ~ \A r \in Range(Configured) : Readable(r)
  <2>1. t = [s EXCEPT !.pc = "not_ready"] /\ "not_ready" \in ScanPc
    BY <1>2 DEF Probe, Goes, ScanPc, ScanEnd
  <2> QED
    BY <2>1, GoesDoes DEF Probe, SameTodo
<1> QED
  BY <1>1, <1>2

LEMMA AuthorizeDoes ==
  ASSUME TreeOK, NEW s \in ScanType, NEW t, s = scan, t = scan', Authorize
  PROVE  /\ t \in ScanType /\ SameFinds(s, t) /\ s.pc = "authorize" /\ t.pc = "check"
         /\ t.asked = s.asked /\ t.todo = s.todo /\ t.allowed \subseteq {Real(c) : c \in Range(Configured)}
<1>1. PICK allowed : allowed = {Real(r) : r \in {c \in Range(Configured) : KindAt(c) \notin {"link", "gone"}}}
  OBVIOUS
<1>2. allowed \subseteq {Real(c) : c \in Range(Configured)}
  BY <1>1
<1>3. allowed \subseteq Seq(Nat)
  <2>1. ASSUME NEW c \in Range(Configured) PROVE Real(c) \in Seq(Nat)
    <3>1. c \in Seq(Nat)
      BY FileScanAssumption DEF Range
    <3> QED
      BY <3>1, RealIsPath
  <2> QED
    BY <1>2, <2>1
<1>4. t = [s EXCEPT !.pc = "check", !.allowed = allowed] /\ s.pc = "authorize"
  BY <1>1, Zenon DEF Authorize
<1>5. "check" \in ScanPc
  BY DEF ScanPc
<1>6. t \in ScanType
  BY <1>3, <1>4, <1>5, ZenonT(60) DEF ScanType
<1>7. t.pc = "check" /\ t.allowed = allowed /\ t.asked = s.asked /\ t.todo = s.todo /\ SameFinds(s, t)
  BY <1>4 DEF ScanType, SameFinds
<1> QED
  BY <1>2, <1>4, <1>6, <1>7

LEMMA TodoHead ==
  ASSUME NEW q \in Seq(Place), q # <<>>
  PROVE  Head(q) \in Place /\ Tail(q) \in Seq(Place) /\ Range(q) = {Head(q)} \cup Range(Tail(q))
<1>1. Len(q) \in Nat \ {0} /\ Head(q) \in Place /\ Head(q) = q[1] /\ Tail(q) \in Seq(Place) /\ Len(Tail(q)) = Len(q) - 1
  OBVIOUS
<1>2. PICK u : u = Tail(q)
  OBVIOUS
<1>3. \A j \in 1..(Len(q) - 1) : u[j] = q[j + 1]
  BY <1>2
<1>4. DOMAIN u = 1..(Len(q) - 1) /\ DOMAIN q = 1..Len(q)
  BY <1>1, <1>2
<1>5. \A j \in DOMAIN u : j + 1 \in DOMAIN q /\ u[j] = q[j + 1]
  BY <1>1, <1>3, <1>4
<1>6. ASSUME NEW j \in DOMAIN q, j # 1 PROVE j - 1 \in DOMAIN u /\ u[j - 1] = q[j]
  <2>1. j - 1 \in 1..(Len(q) - 1) /\ (j - 1) + 1 = j
    BY <1>1, <1>4, <1>6
  <2> QED
    BY <1>3, <1>4, <2>1
<1>7. 1 \in DOMAIN q
  BY <1>1, <1>4
<1>8. Range(q) \subseteq {q[1]} \cup Range(u)
  BY <1>6 DEF Range
<1>9. {q[1]} \cup Range(u) \subseteq Range(q)
  BY <1>5, <1>7 DEF Range
<1> QED
  BY <1>1, <1>2, <1>8, <1>9

LEMMA CheckDoes ==
  ASSUME NEW s \in ScanType, NEW t, s = scan, t = scan', CheckRoot
  PROVE  /\ t \in ScanType /\ SameFinds(s, t) /\ SameEntry(s, t) /\ s.pc = "check"
         /\ \/ t.pc \in ScanEnd /\ t.pc \notin {"complete", "partial", "aborted"}
            \/ s.todo = <<>> /\ t.pc = "seed" /\ t.todo = RootsOf
            \/ /\ s.todo # <<>> /\ t.pc = "check" /\ t.todo = Tail(s.todo)
               /\ KindAt(Head(s.todo)) \notin {"link", "gone"}
               /\ \E a \in s.allowed : Within(a, Real(Head(s.todo)))
<1>1. s.pc = "check"
  BY DEF CheckRoot
<1>2. CASE s.todo = <<>>
  <2>1. PICK todo : todo = RootsOf
    OBVIOUS
  <2>2. t = [s EXCEPT !.pc = "seed", !.todo = todo] /\ todo \in Seq(Place) /\ "seed" \in ScanPc
    BY <1>2, <2>1, AskedRoots DEF CheckRoot, ScanPc
  <2>3. t \in ScanType /\ t.pc = "seed" /\ SameFinds(s, t) /\ SameEntry(s, t) /\ t.todo = todo
    BY <2>2, TodoDoes, ZenonT(60)
  <2> QED
    BY <1>1, <1>2, <2>1, <2>3
<1>3. CASE s.todo # <<>> /\ t \in {[s EXCEPT !.pc = "symlink_denied"], [s EXCEPT !.pc = "access_denied"], [s EXCEPT !.pc = "out_of_scope"]}
  <2>1. PICK pc \in {"symlink_denied", "access_denied", "out_of_scope"} : t = [s EXCEPT !.pc = pc]
    BY <1>3
  <2>2. pc \in ScanPc /\ pc \in ScanEnd /\ pc \notin {"complete", "partial", "aborted"}
    BY <2>1 DEF ScanPc, ScanEnd
  <2> QED
    BY <1>1, <2>1, <2>2, GoesDoes DEF SameTodo
<1>4. CASE /\ s.todo # <<>> /\ KindAt(Head(s.todo)) \notin {"link", "gone"}
           /\ \E a \in s.allowed : Within(a, Real(Head(s.todo)))
           /\ t = [s EXCEPT !.todo = Tail(@)]
  <2>1. Tail(s.todo) \in Seq(Place)
    BY <1>4, TodoHead, FieldsOf
  <2> QED
    BY <1>1, <1>4, <2>1 DEF ScanType, SameFinds, SameEntry
<1> QED
  BY <1>2, <1>3, <1>4 DEF CheckRoot, Goes

LEMMA SeedDoes ==
  ASSUME TreeOK, NEW s \in ScanType, NEW t, s = scan, t = scan', Seed
  PROVE  /\ t \in ScanType /\ SameEntry(s, t) /\ s.pc = "seed"
         /\ \/ s.todo = <<>> /\ t.pc = "take" /\ SameFinds(s, t)
            \/ /\ s.todo # <<>> /\ t.pc = "seed" /\ t.todo = Tail(s.todo)
               /\ t.item = s.item /\ t.visited = s.visited /\ t.records = s.records
               /\ \/ t.queue = s.queue /\ KindAt(Head(s.todo)) \in {"link", "gone"}
                  \/ /\ KindAt(Head(s.todo)) \notin {"link", "gone"}
                     /\ [path |-> Real(Head(s.todo)), root |-> Real(Head(s.todo)), depth |-> 0] \in Item
                     /\ t.queue = Append(s.queue, [path |-> Real(Head(s.todo)), root |-> Real(Head(s.todo)), depth |-> 0])
<1>1. s.pc = "seed"
  BY DEF Seed
<1>2. CASE s.todo = <<>>
  <2>1. t = [s EXCEPT !.pc = "take"] /\ "take" \in ScanPc
    BY <1>2 DEF Seed, Goes, ScanPc
  <2> QED
    BY <1>1, <1>2, <2>1, GoesDoes DEF SameTodo
<1>3. CASE s.todo # <<>>
  <2>1. PICK r : r = Head(s.todo)
    OBVIOUS
  <2>2. r \in Place /\ Tail(s.todo) \in Seq(Place) /\ r \in Seq(Nat)
    BY <1>3, <2>1, TodoHead, FieldsOf, FileScanAssumption
  <2>3. CASE KindAt(r) \in {"link", "gone"}
    <3>1. t = [s EXCEPT !.todo = Tail(@), !.skipped = @ + 1]
      BY <1>3, <2>1, <2>3, Zenon DEF Seed
    <3>2. PICK todo, n : todo = Tail(s.todo) /\ n = s.skipped + 1
      OBVIOUS
    <3>3. t = [s EXCEPT !.todo = todo, !.skipped = n] /\ todo \in Seq(Place) /\ n \in Nat
      BY <2>2, <3>1, <3>2, FieldsOf
    <3> QED
      BY <1>1, <1>3, <2>1, <2>3, <3>2, <3>3, ZenonT(60) DEF ScanType, SameEntry
  <2>4. CASE KindAt(r) \notin {"link", "gone"}
    <3>1. PICK todo, f, q : todo = Tail(s.todo) /\ f = [path |-> Real(r), root |-> Real(r), depth |-> 0] /\ q = Append(s.queue, f)
      OBVIOUS
    <3>2. t = [s EXCEPT !.todo = Tail(@), !.queue = Append(@, [path |-> Real(r), root |-> Real(r), depth |-> 0])]
      BY <1>3, <2>1, <2>4, Zenon DEF Seed
    <3>3. t = [s EXCEPT !.todo = todo, !.queue = q]
      BY <3>1, <3>2
    <3>4. Real(r) \in Seq(Nat)
      BY <2>2, RealIsPath
    <3>5. f \in Item
      BY <3>1, <3>4 DEF Item
    <3>6. q \in Seq(Item)
      BY <3>1, <3>5, FieldsOf
    <3>7. t \in ScanType /\ SameEntry(s, t) /\ t.pc = s.pc /\ t.todo = todo /\ t.item = s.item /\ t.visited = s.visited
          /\ t.records = s.records /\ t.queue = q
      BY <2>2, <3>1, <3>3, <3>6 DEF ScanType, SameEntry
    <3> QED
      BY <1>1, <1>3, <2>1, <2>4, <3>1, <3>5, <3>7
  <2> QED
    BY <2>3, <2>4
<1> QED
  BY <1>2, <1>3

LEMMA TakeDoes ==
  ASSUME NEW s \in ScanType, NEW t, s = scan, t = scan', Take
  PROVE  /\ t \in ScanType /\ SameTodo(s, t) /\ s.pc = "take" /\ t.visited = s.visited /\ t.records = s.records
         /\ \/ s.queue = <<>> /\ t.pc = "complete" /\ SameFinds(s, t)
            \/ t.pc = "partial" /\ SameFinds(s, t)
            \/ /\ s.queue # <<>> /\ KindAt(Head(s.queue).path) \in {"link", "gone"}
               /\ t.pc = "take" /\ t.queue = Tail(s.queue) /\ t.item = s.item
            \/ /\ s.queue # <<>> /\ Len(s.records) < ScanItems
               /\ t.pc = "resolve" /\ t.queue = Tail(s.queue) /\ t.item = Head(s.queue)
<1>1. s.pc = "take"
  BY DEF Take
<1>2. "complete" \in ScanPc /\ "partial" \in ScanPc /\ "take" \in ScanPc /\ "resolve" \in ScanPc
  BY DEF ScanPc, ScanEnd
<1>3. CASE s.queue = <<>>
  <2>1. t = [s EXCEPT !.pc = "complete"]
    BY <1>3, Zenon DEF Take, Goes
  <2> QED
    BY <1>1, <1>2, <1>3, <2>1, GoesDoes DEF SameFinds
<1>4. CASE s.queue # <<>> /\ Len(s.records) >= ScanItems
  <2>1. t = [s EXCEPT !.pc = "partial"]
    BY <1>4, Zenon DEF Take, Goes
  <2> QED
    BY <1>1, <1>2, <2>1, GoesDoes DEF SameFinds
<1>5. CASE s.queue # <<>> /\ ~ (Len(s.records) >= ScanItems)
  <2>1. PICK q, e, n : q = Tail(s.queue) /\ e = Head(s.queue) /\ n = s.skipped + 1
    OBVIOUS
  <2>2. q \in Seq(Item) /\ e \in Item /\ n \in Nat
    BY <1>5, <2>1, QueueHead, FieldsOf
  <2>3. CASE KindAt(e.path) \in {"link", "gone"}
    <3>1. t = [s EXCEPT !.queue = Tail(@), !.skipped = @ + 1]
      BY <1>5, <2>1, <2>3, Zenon DEF Take
    <3>2. t = [s EXCEPT !.queue = q, !.skipped = n]
      BY <2>1, <3>1
    <3>3. t \in ScanType
      BY <2>2, <3>2 DEF ScanType
    <3>4. /\ SameTodo(s, t) /\ t.visited = s.visited /\ t.records = s.records /\ t.pc = s.pc
          /\ t.queue = q /\ t.item = s.item
      BY <3>2 DEF ScanType, SameTodo, SameEntry
    <3> QED
      BY <1>1, <1>5, <2>1, <2>3, <3>3, <3>4
  <2>4. CASE KindAt(e.path) \notin {"link", "gone"}
    <3>1. t = [s EXCEPT !.queue = Tail(@), !.item = e, !.pc = "resolve"]
      BY <1>5, <2>1, <2>4, Zenon DEF Take
    <3>2. t = [s EXCEPT !.queue = q, !.item = e, !.pc = "resolve"]
      BY <2>1, <3>1
    <3>3. t \in ScanType
      BY <1>2, <2>2, <3>2 DEF ScanType
    <3>4. /\ SameTodo(s, t) /\ t.visited = s.visited /\ t.records = s.records /\ t.pc = "resolve"
          /\ t.queue = q /\ t.item = e
      BY <3>2 DEF ScanType, SameTodo, SameEntry
    <3>5. Len(s.records) < ScanItems
      BY <1>5, ScanFacts, FileScanAssumption
    <3> QED
      BY <1>1, <1>5, <2>1, <3>3, <3>4, <3>5
  <2> QED
    BY <2>3, <2>4
<1> QED
  BY <1>3, <1>4, <1>5

LEMMA AbortDoes ==
  ASSUME NEW s \in ScanType, NEW t, s = scan, t = scan', Abort
  PROVE  t \in ScanType /\ SameTodo(s, t) /\ SameFinds(s, t) /\ s.pc = "take" /\ t.pc = "aborted"
<1>1. s.pc = "take" /\ t = [s EXCEPT !.pc = "aborted"] /\ "aborted" \in ScanPc
  BY DEF Abort, Goes, ScanPc, ScanEnd
<1> QED
  BY <1>1, GoesDoes

LEMMA SkipsDoes ==
  ASSUME NEW s \in ScanType, NEW t, s = scan, t = scan', Skips
  PROVE  t \in ScanType /\ SameTodo(s, t) /\ SameFinds(s, t) /\ t.pc = "take"
<1>1. PICK n : n = s.skipped + 1
  OBVIOUS
<1>2. t = [s EXCEPT !.pc = "take", !.skipped = n] /\ n \in Nat /\ "take" \in ScanPc
  BY <1>1, FieldsOf DEF Skips, ScanPc
<1> QED
  BY <1>2, ZenonT(60) DEF ScanType, SameTodo, SameEntry, SameFinds

LEMMA ResolveDoes ==
  ASSUME TreeOK, NEW s \in ScanType, NEW t, s = scan, t = scan', ResolvePath
  PROVE  /\ t \in ScanType /\ SameTodo(s, t) /\ s.pc = "resolve" /\ t.queue = s.queue /\ t.records = s.records
         /\ \/ /\ ~ There(Real(s.item.path)) \/ ~ Within(s.item.root, Real(s.item.path)) \/ Real(s.item.path) \in s.visited
               /\ t.pc = "take" /\ SameFinds(s, t)
            \/ /\ Within(s.item.root, Real(s.item.path)) /\ Real(s.item.path) \notin s.visited
               /\ t.pc = "record" /\ t.visited = s.visited \cup {Real(s.item.path)}
               /\ t.item = [path |-> Real(s.item.path), root |-> s.item.root, depth |-> s.item.depth]
<1>1. s.pc = "resolve"
  BY DEF ResolvePath
<1>2. PICK c, i : c = Real(s.item.path) /\ i = s.item
  OBVIOUS
<1>3. i \in Item /\ i.path \in Seq(Nat) /\ i.root \in Seq(Nat) /\ i.depth \in Nat
  BY <1>2, ScanFacts
<1>4. c \in Seq(Nat)
  BY <1>2, <1>3, RealIsPath
<1>5. CASE ~ There(c) \/ ~ Within(i.root, c) \/ c \in s.visited
  <2>1. Skips
    BY <1>2, <1>5, Zenon DEF ResolvePath
  <2>2. t \in ScanType /\ SameTodo(s, t) /\ SameFinds(s, t) /\ t.pc = "take"
    BY <2>1, SkipsDoes
  <2> QED
    BY <1>1, <1>2, <1>5, <2>2 DEF SameFinds
<1>6. CASE ~ (~ There(c) \/ ~ Within(i.root, c) \/ c \in s.visited)
  <2>1. t = [s EXCEPT !.pc = "record", !.item.path = c, !.visited = @ \cup {c}]
    BY <1>2, <1>6, Zenon DEF ResolvePath
  <2>2. PICK f, v : f = [i EXCEPT !.path = c] /\ v = s.visited \cup {c}
    OBVIOUS
  <2>3. f = [path |-> c, root |-> i.root, depth |-> i.depth] /\ f \in Item
    BY <1>3, <1>4, <2>2 DEF Item
  <2>4. v \subseteq Seq(Nat)
    BY <1>4, <2>2, ScanFacts
  <2>5. t = [s EXCEPT !.pc = "record", !.item = f, !.visited = v]
    BY <1>2, <2>1, <2>2
  <2>6. "record" \in ScanPc
    BY DEF ScanPc
  <2>7. t \in ScanType
    BY <2>3, <2>4, <2>5, <2>6, ZenonT(60) DEF ScanType
  <2>8. t.pc = "record" /\ t.item = f /\ t.visited = v /\ SameTodo(s, t) /\ t.queue = s.queue /\ t.records = s.records
    BY <2>5 DEF ScanType, SameTodo, SameEntry
  <2> QED
    BY <1>1, <1>2, <1>6, <2>2, <2>3, <2>7, <2>8
<1> QED
  BY <1>5, <1>6

LEMMA RecordDoes ==
  ASSUME NEW s \in ScanType, NEW t, s = scan, t = scan', Record
  PROVE  /\ t \in ScanType /\ SameTodo(s, t) /\ s.pc = "record"
         /\ t.queue = s.queue /\ t.item = s.item /\ t.visited = s.visited
         /\ \/ KindAt(s.item.path) \in {"link", "gone"} /\ t.pc = "take" /\ SameFinds(s, t)
            \/ /\ t.records = Append(s.records, s.item)
               /\ t.pc = IF KindAt(s.item.path) = "dir" /\ s.item.depth < ScanDepth THEN "list" ELSE "take"
<1>1. s.pc = "record"
  BY DEF Record
<1>2. CASE KindAt(s.item.path) \in {"link", "gone"}
  <2>1. Skips
    BY <1>2, Zenon DEF Record
  <2>2. t \in ScanType /\ SameTodo(s, t) /\ SameFinds(s, t) /\ t.pc = "take"
    BY <2>1, SkipsDoes
  <2> QED
    BY <1>1, <1>2, <2>2 DEF SameFinds
<1>3. CASE KindAt(s.item.path) \notin {"link", "gone"}
  <2>1. PICK pc, r : /\ pc = (IF KindAt(s.item.path) = "dir" /\ s.item.depth < ScanDepth THEN "list" ELSE "take")
                     /\ r = Append(s.records, s.item)
    OBVIOUS
  <2>2. pc \in ScanPc
    BY <2>1 DEF ScanPc
  <2>3. r \in Seq(Item)
    BY <2>1, ScanFacts
  <2>4. t = [s EXCEPT !.records = Append(@, s.item),
                      !.pc = IF KindAt(s.item.path) = "dir" /\ s.item.depth < ScanDepth THEN "list" ELSE "take"]
    BY <1>3, Zenon DEF Record
  <2>5. t = [s EXCEPT !.records = r, !.pc = pc]
    BY <2>1, <2>4
  <2>6. t \in ScanType
    BY <2>2, <2>3, <2>5 DEF ScanType
  <2>7. t.pc = pc /\ t.records = r /\ SameTodo(s, t) /\ t.queue = s.queue /\ t.item = s.item /\ t.visited = s.visited
    BY <2>5 DEF ScanType, SameTodo, SameEntry
  <2> QED
    BY <1>1, <2>1, <2>6, <2>7
<1> QED
  BY <1>2, <1>3

LEMMA ListDoes ==
  ASSUME TreeOK, NEW s \in ScanType, NEW t, s = scan, t = scan', ReadDirectory
  PROVE  /\ t \in ScanType /\ SameTodo(s, t) /\ s.pc = "list" /\ t.pc = "take"
         /\ t.item = s.item /\ t.visited = s.visited /\ t.records = s.records
         /\ \/ ~ CanRead(Real(s.item.path)) /\ t.queue = s.queue
            \/ /\ CanRead(Real(s.item.path))
               /\ \E names \in Seq(Nat) : Range(names) = Plain(s.item) /\ t.queue = s.queue \o Children(s.item, names)
<1>1. s.pc = "list"
  BY DEF ReadDirectory
<1>2. CASE ~ CanRead(Real(s.item.path))
  <2>1. Skips
    BY <1>2, Zenon DEF ReadDirectory
  <2>2. t \in ScanType /\ SameTodo(s, t) /\ SameFinds(s, t) /\ t.pc = "take"
    BY <2>1, SkipsDoes
  <2> QED
    BY <1>1, <1>2, <2>2 DEF SameFinds
<1>3. CASE CanRead(Real(s.item.path))
  <2>1. PICK names \in [1..Cardinality(Plain(s.item)) -> Plain(s.item)] : ByName(names) /\ t = Queued(names)
    BY <1>3, Zenon DEF ReadDirectory
  <2>2. names \in Seq(Nat)
    <3>1. PICK m : m = Cardinality(Plain(s.item))
      OBVIOUS
    <3>2. m \in Nat /\ Plain(s.item) \subseteq Nat
      BY <3>1, PlainAre
    <3>3. names \in [1..m -> Nat]
      BY <2>1, <3>1, <3>2
    <3> QED
      BY <3>2, <3>3
  <2>3. Range(names) = Plain(s.item)
    BY <2>1, Zenon DEF ByName
  <2>4. PICK c, q, n : /\ c = Children(s.item, names) /\ q = s.queue \o c
                       /\ n = s.skipped + Cardinality(Names(Real(s.item.path)) \ Plain(s.item))
    OBVIOUS
  <2>5. c \in Seq(Item) /\ q \in Seq(Item)
    <3>1. c \in Seq(Item)
      BY <2>2, <2>4, ChildrenAre, ScanFacts
    <3> QED
      BY <2>4, <3>1, QueueGrows, ScanFacts
  <2>6. n \in Nat
    <3>1. Cardinality(Names(Real(s.item.path)) \ Plain(s.item)) \in Nat
      BY PlainAre
    <3> QED
      BY <2>4, <3>1, ScanFacts
  <2>7. t = [s EXCEPT !.pc = "take", !.skipped = @ + Cardinality(Names(Real(s.item.path)) \ Plain(s.item)),
                      !.queue = @ \o Children(s.item, names)]
    BY <2>1, Zenon DEF Queued
  <2>8. t = [s EXCEPT !.pc = "take", !.skipped = n, !.queue = q]
    BY <2>4, <2>7
  <2>9. "take" \in ScanPc
    BY DEF ScanPc
  <2>10. t \in ScanType
    BY <2>5, <2>6, <2>8, <2>9 DEF ScanType
  <2>11. t.pc = "take" /\ t.queue = q /\ SameTodo(s, t) /\ t.item = s.item /\ t.visited = s.visited /\ t.records = s.records
    BY <2>8 DEF ScanType, SameTodo, SameEntry
  <2> QED
    BY <1>1, <1>3, <2>2, <2>3, <2>4, <2>10, <2>11
<1> QED
  BY <1>2, <1>3

-----------------------------------------------------------------------------
\* Every step of the scan keeps it, whatever was moved, linked or locked before.
LEMMA ScopeNext ==
  ASSUME TreeOK, NEW s \in ScanType, NEW t, s = scan, t = scan', Scope(s), ScanStep \/ Abort
  PROVE  t \in ScanType /\ Scope(t) /\ t.asked = s.asked
<1> DEFINE Good == t \in ScanType /\ Scope(t) /\ t.asked = s.asked
<1>1. ASSUME Probe PROVE Good
  <2>1. t \in ScanType /\ SameFinds(s, t) /\ SameEntry(s, t) /\ t.pc \in {"not_ready", "seed", "authorize"}
    BY <1>1, ProbeDoes
  <2> QED
    BY <2>1, ScopeStays DEF SameFinds, SameEntry, Scope
<1>2. ASSUME Authorize PROVE Good
  <2>1. t \in ScanType /\ SameFinds(s, t) /\ t.asked = s.asked /\ t.pc = "check"
    BY <1>2, AuthorizeDoes
  <2> QED
    BY <2>1, ScopeStays DEF SameFinds, Scope
<1>3. ASSUME CheckRoot PROVE Good
  <2>1. t \in ScanType /\ SameFinds(s, t) /\ SameEntry(s, t) /\ t.pc \in ScanEnd \cup {"seed", "check"}
    BY <1>3, CheckDoes
  <2>2. t.pc \notin {"resolve", "record", "list"}
    BY <2>1 DEF ScanEnd
  <2> QED
    BY <2>1, <2>2, ScopeStays DEF SameFinds, SameEntry, Scope
<1>4. ASSUME Seed PROVE Good
  <2>1. /\ t \in ScanType /\ SameEntry(s, t) /\ t.pc \in {"seed", "take"}
        /\ t.item = s.item /\ t.visited = s.visited /\ t.records = s.records
    BY <1>4, SeedDoes DEF SameFinds
  <2>2. t.queue = s.queue \/ \E e \in Item : e.depth = 0 /\ t.queue = Append(s.queue, e)
    BY <1>4, SeedDoes, ZenonT(60) DEF SameFinds
  <2>3. \A j \in DOMAIN t.queue : t.queue[j].depth <= ScanDepth
    <3>1. CASE t.queue = s.queue
      BY <3>1 DEF Scope
    <3>2. ASSUME NEW e \in Item, e.depth = 0, t.queue = Append(s.queue, e)
          PROVE  \A j \in DOMAIN t.queue : t.queue[j].depth <= ScanDepth
      <4>1. PICK q, u : q = s.queue /\ u = t.queue
        OBVIOUS
      <4>2. q \in Seq(Item) /\ u = Append(q, e)
        BY <3>2, <4>1, ScanFacts
      <4>3. \A j \in DOMAIN u : (j \in DOMAIN q /\ u[j] = q[j]) \/ u[j] = e
        BY <3>2, <4>2
      <4>4. \A j \in DOMAIN q : q[j].depth <= ScanDepth
        BY <4>1 DEF Scope
      <4> QED
        BY <3>2, <4>1, <4>3, <4>4, FileScanAssumption
    <3> QED
      BY <2>2, <3>1, <3>2
  <2> QED
    BY <2>1, <2>3, ScopeStays DEF SameEntry
<1>5. ASSUME Take PROVE Good
  <2>1. t \in ScanType /\ SameTodo(s, t) /\ t.visited = s.visited /\ t.records = s.records
    BY <1>5, TakeDoes
  <2>2. CASE SameFinds(s, t) /\ t.pc \in {"complete", "partial"}
    BY <2>1, <2>2, ScopeStays DEF SameFinds, SameTodo, SameEntry, Scope
  <2>3. CASE /\ s.queue # <<>> /\ t.queue = Tail(s.queue)
             /\ \/ t.pc = "take" /\ t.item = s.item
                \/ t.pc = "resolve" /\ t.item = Head(s.queue) /\ Len(s.records) < ScanItems
    <3>1. \A j \in DOMAIN t.queue : t.queue[j].depth <= ScanDepth
      <4>1. PICK q, u : q = s.queue /\ u = t.queue
        OBVIOUS
      <4>2. \A j \in DOMAIN u : j + 1 \in DOMAIN q /\ u[j] = q[j + 1]
        BY <2>3, <4>1, QueueHead, ScanFacts
      <4> QED
        BY <4>1, <4>2 DEF Scope
    <3>2. Head(s.queue).depth <= ScanDepth
      <4>1. 1 \in DOMAIN s.queue /\ Head(s.queue) = s.queue[1]
        BY <2>3, ScanFacts
      <4> QED
        BY <4>1 DEF Scope
    <3>3. CASE t.pc = "take" /\ t.item = s.item
      BY <2>1, <3>1, <3>3, ScopeStays DEF SameTodo, SameEntry
    <3>4. CASE t.pc = "resolve" /\ t.item = Head(s.queue) /\ Len(s.records) < ScanItems
      BY <2>1, <3>1, <3>2, <3>4 DEF Scope, SameTodo, SameEntry
    <3> QED
      BY <2>3, <3>3, <3>4
  <2> QED
    BY <1>5, <2>2, <2>3, TakeDoes
<1>6. ASSUME Abort PROVE Good
  <2>1. t \in ScanType /\ SameTodo(s, t) /\ SameFinds(s, t) /\ t.pc = "aborted"
    BY <1>6, AbortDoes
  <2> QED
    BY <2>1, ScopeStays DEF SameFinds, SameTodo, SameEntry, Scope
<1>7. ASSUME ResolvePath PROVE Good
  <2>1. t \in ScanType /\ SameTodo(s, t) /\ s.pc = "resolve" /\ t.queue = s.queue /\ t.records = s.records
    BY <1>7, ResolveDoes
  <2>2. CASE t.pc = "take" /\ SameFinds(s, t)
    BY <2>1, <2>2, ScopeStays DEF SameFinds, SameTodo, SameEntry, Scope
  <2>3. ASSUME NEW c, Within(s.item.root, c), c \notin s.visited, t.pc = "record", t.visited = s.visited \cup {c},
               t.item = [path |-> c, root |-> s.item.root, depth |-> s.item.depth]
        PROVE  Good
    BY <2>1, <2>3 DEF Scope, SameTodo, SameEntry
  <2> QED
    BY <1>7, <2>2, <2>3, ResolveDoes, ZenonT(60)
<1>8. ASSUME Record PROVE Good
  <2>1. /\ t \in ScanType /\ SameTodo(s, t) /\ s.pc = "record"
        /\ t.queue = s.queue /\ t.item = s.item /\ t.visited = s.visited
    BY <1>8, RecordDoes
  <2>2. CASE t.pc = "take" /\ SameFinds(s, t)
    BY <2>1, <2>2, ScopeStays DEF SameFinds, SameTodo, SameEntry, Scope
  <2>3. CASE t.records = Append(s.records, s.item) /\ (t.pc = "take" \/ (t.pc = "list" /\ s.item.depth < ScanDepth))
    <3>1. PICK q, u, i, n : q = s.records /\ u = t.records /\ i = s.item /\ n = Len(q)
      OBVIOUS
    <3>2. q \in Seq(Item) /\ i \in Item /\ u = Append(q, i) /\ n \in Nat /\ DOMAIN q = 1..n
      BY <2>3, <3>1, ScanFacts
    <3>3. Len(u) = n + 1 /\ DOMAIN u = 1..(n + 1) /\ u[n + 1] = i /\ \A k \in DOMAIN q : u[k] = q[k]
      BY <3>1, <3>2
    <3>4. \A k \in DOMAIN u : k \in DOMAIN q \/ k = n + 1
      BY <3>2, <3>3
    <3>5. Len(u) <= ScanItems
      BY <2>1, <3>1, <3>2, <3>3, FileScanAssumption DEF Scope
    <3>6. ASSUME NEW k \in DOMAIN u PROVE Within(u[k].root, u[k].path) /\ u[k].depth <= ScanDepth /\ u[k].path \in t.visited
      BY <2>1, <3>1, <3>3, <3>4, SMTT(60) DEF Scope
    <3>7. ASSUME NEW k \in DOMAIN u, NEW l \in DOMAIN u, k # l PROVE u[k].path # u[l].path
      BY <2>1, <3>1, <3>3, <3>4, <3>7, SMTT(60) DEF Scope
    <3> QED
      BY <2>1, <2>3, <3>1, <3>5, <3>6, <3>7 DEF Scope, SameTodo, SameEntry
  <2>4. \/ t.pc = "take" /\ SameFinds(s, t)
        \/ t.records = Append(s.records, s.item) /\ (t.pc = "take" \/ (t.pc = "list" /\ s.item.depth < ScanDepth))
    BY <1>8, RecordDoes
  <2> QED
    BY <2>2, <2>3, <2>4
<1>9. ASSUME ReadDirectory PROVE Good
  <2>1. /\ t \in ScanType /\ SameTodo(s, t) /\ s.pc = "list" /\ t.pc = "take"
        /\ t.item = s.item /\ t.visited = s.visited /\ t.records = s.records
    BY <1>9, ListDoes
  <2>2. s.item.depth + 1 <= ScanDepth
    BY <2>1, ScanFacts, FileScanAssumption DEF Scope
  <2>3. \A j \in DOMAIN t.queue : t.queue[j].depth <= ScanDepth
    <3>1. CASE t.queue = s.queue
      BY <3>1 DEF Scope
    <3>2. ASSUME NEW names \in Seq(Nat), t.queue = s.queue \o Children(s.item, names)
          PROVE  \A j \in DOMAIN t.queue : t.queue[j].depth <= ScanDepth
      <4>1. PICK q, c, d : q = s.queue /\ c = Children(s.item, names) /\ d = s.item.depth + 1
        OBVIOUS
      <4>2. q \in Seq(Item) /\ c \in Seq(Item) /\ \A j \in DOMAIN c : c[j].depth = d
        <5>1. q \in Seq(Item) /\ s.item \in Item
          BY <4>1, ScanFacts
        <5>2. c \in Seq(Item) /\ \A j \in DOMAIN c : c[j].depth = d
          BY <4>1, <5>1, ChildrenDepth
        <5> QED
          BY <5>1, <5>2
      <4>3. \A j \in DOMAIN q : q[j].depth <= ScanDepth
        BY <4>1 DEF Scope
      <4>4. \A j \in DOMAIN (q \o c) :
              j \in DOMAIN q \/ (Len(q) < j /\ j - Len(q) \in DOMAIN c /\ (q \o c)[j] = c[j - Len(q)])
        BY <4>2, QueueGrows
      <4>5. \A j \in DOMAIN q : (q \o c)[j] = q[j]
        BY <4>2, QueueGrows
      <4>6. \A j \in DOMAIN (q \o c) : (q \o c)[j].depth <= ScanDepth
        <5>1. \A j \in DOMAIN (q \o c) : j \in DOMAIN q \/ (q \o c)[j].depth = d
          BY <4>2, <4>4, Zenon
        <5>2. d <= ScanDepth
          BY <2>2, <4>1
        <5> QED
          BY <4>3, <4>5, <5>1, <5>2
      <4> QED
        BY <3>2, <4>1, <4>6
    <3> QED
      BY <1>9, <3>1, <3>2, ListDoes
  <2> QED
    BY <2>1, <2>3, ScopeStays DEF SameTodo, SameEntry
<1> QED
  BY <1>1, <1>2, <1>3, <1>4, <1>5, <1>6, <1>7, <1>8, <1>9 DEF ScanStep

-----------------------------------------------------------------------------
\* A root the scan may look into, and what is known of the roots o on the way to the walk.
Cleared(a) == KindAt(a) \notin {"link", "gone"} /\ \E c \in Range(Configured) : IsPrefix(Real(c), Real(a))
RootsAt(o) == {Real(a) : a \in Range(o)}

Clear(o, s) ==
  /\ s.allowed \subseteq {Real(c) : c \in Range(Configured)}
  /\ s.pc = "authorize" => s.todo = o
  /\ s.pc = "check" => \A a \in Range(o) : a \in Range(s.todo) \/ Cleared(a)
  /\ s.pc \in {"seed"} \cup Walking => \A a \in Range(o) : Cleared(a)
  /\ s.pc = "seed" => /\ Range(s.todo) \subseteq Range(o)
                      /\ \A a \in Range(o) : a \in Range(s.todo) \/ Covered(s, Real(a), 0)
  /\ s.pc \notin Walking => s.records = <<>> /\ s.item.depth = 0 /\ \A j \in DOMAIN s.queue : s.queue[j].depth = 0

Whole(o, s) == Clear(o, s) /\ \A R \in {RootsAt(o)} : Walk(R, s)

LEMMA RootsArePaths == ASSUME TreeOK, NEW o \in Seq(Place) PROVE RootsAt(o) \in SUBSET Seq(Nat)
<1>1. ASSUME NEW a \in Range(o) PROVE Real(a) \in Seq(Nat)
  <2>1. a \in Seq(Nat)
    BY FileScanAssumption DEF Range
  <2> QED
    BY <2>1, RealIsPath
<1> QED
  BY <1>1 DEF RootsAt

\* Before the walk nothing moves but the roots that are left.
LEMMA SettleKeepsWalk ==
  ASSUME NEW R, NEW s \in ScanType, NEW t \in ScanType, Walk(R, s), SameFinds(s, t),
         s.pc \notin {"resolve", "record", "list"}, t.pc \notin {"resolve", "record", "list", "complete"},
         t.pc \in Walking => \A r \in R : Covered(s, r, 0)
  PROVE  Walk(R, t) /\ \A r, d : Covered(s, r, d) <=> Covered(t, r, d)
<1>1. Met(t) = Met(s)
  BY DEF Met, SameFinds
<1>2. \A r, d : Covered(s, r, d) <=> Covered(t, r, d)
  BY <1>1 DEF Covered
<1>3. \A e : Opened(s, e) <=> Opened(t, e)
  BY <1>2 DEF Opened
<1>4. Levels(t)
  BY LevelsStay DEF SameFinds
<1>5. t.records = s.records /\ t.visited = s.visited
  BY DEF SameFinds
<1>6. /\ \A e \in Met(t) : Found(R, e)
      /\ \A k \in DOMAIN t.records : t.records[k].path \in R => t.records[k].depth = 0
      /\ \A p \in t.visited : \E k \in DOMAIN t.records : t.records[k].path = p
      /\ \A k \in DOMAIN t.records : Opened(t, t.records[k])
  BY <1>1, <1>3, <1>5 DEF Walk
<1> QED
  BY <1>2, <1>4, <1>6 DEF Walk

LEMMA ProbeWhole ==
  ASSUME TreeOK, NEW s \in ScanType, NEW t, s = scan, t = scan', NEW o \in Seq(Place), o = RootsOf,
         NEW R, Clear(o, s), Walk(R, s), Probe
  PROVE  Clear(o, t) /\ Walk(R, t)
<1>1. /\ t \in ScanType /\ SameFinds(s, t) /\ SameEntry(s, t) /\ s.pc = "probe"
      /\ \/ t.pc = "not_ready"
         \/ /\ \A r \in Range(Configured) : Readable(r)
            /\ t.pc = (IF s.asked = <<>> THEN "seed" ELSE "authorize") /\ t.todo = o
  BY ProbeDoes
<1>2. t.pc \in {"not_ready", "seed", "authorize"} /\ t.pc \notin Walking /\ s.pc \notin Walking
  BY <1>1 DEF Walking
<1>3. Walk(R, t)
  BY <1>1, <1>2, SettleKeepsWalk
<1>4. t.allowed \subseteq {Real(c) : c \in Range(Configured)}
  BY <1>1 DEF Clear, SameEntry
<1>5. t.records = <<>> /\ t.item.depth = 0 /\ \A j \in DOMAIN t.queue : t.queue[j].depth = 0
  BY <1>1, <1>2 DEF Clear, SameFinds
<1>6. ASSUME t.pc = "seed", NEW a \in Range(o) PROVE Cleared(a)
  <2>1. o = Configured /\ Readable(a)
    BY <1>1, <1>6 DEF RootsOf
  <2>2. a \in Seq(Nat)
    BY FileScanAssumption DEF Range
  <2>3. IsPrefix(Real(a), Real(a))
    BY <2>2, RealIsPath, IsPrefixIs
  <2> QED
    BY <2>1, <2>3 DEF Cleared, Readable
<1>7. t.pc # "not_ready" => t.todo = o
  BY <1>1
<1> QED
  BY <1>2, <1>3, <1>4, <1>5, <1>6, <1>7 DEF Clear

LEMMA AuthorizeWhole ==
  ASSUME TreeOK, NEW s \in ScanType, NEW t, s = scan, t = scan', NEW o \in Seq(Place),
         NEW R, Clear(o, s), Walk(R, s), Authorize
  PROVE  Clear(o, t) /\ Walk(R, t)
<1>1. /\ t \in ScanType /\ SameFinds(s, t) /\ s.pc = "authorize" /\ t.pc = "check"
      /\ t.todo = s.todo /\ t.allowed \subseteq {Real(c) : c \in Range(Configured)}
  BY AuthorizeDoes
<1>2. t.pc \notin Walking /\ s.pc \notin Walking
  BY <1>1 DEF Walking
<1>3. Walk(R, t)
  BY <1>1, <1>2, SettleKeepsWalk
<1>4. t.records = <<>> /\ t.item.depth = 0 /\ \A j \in DOMAIN t.queue : t.queue[j].depth = 0
  BY <1>1, <1>2 DEF Clear, SameFinds
<1>5. t.todo = o
  BY <1>1 DEF Clear
<1> QED
  BY <1>1, <1>2, <1>3, <1>4, <1>5 DEF Clear

LEMMA CheckWhole ==
  ASSUME TreeOK, NEW s \in ScanType, NEW t, s = scan, t = scan', NEW o \in Seq(Place), o = RootsOf,
         NEW R, Clear(o, s), Walk(R, s), CheckRoot
  PROVE  Clear(o, t) /\ Walk(R, t)
<1>1. /\ t \in ScanType /\ SameFinds(s, t) /\ SameEntry(s, t) /\ s.pc = "check"
      /\ \/ t.pc \in ScanEnd /\ t.pc \notin {"complete", "partial", "aborted"}
         \/ s.todo = <<>> /\ t.pc = "seed" /\ t.todo = o
         \/ /\ s.todo # <<>> /\ t.pc = "check" /\ t.todo = Tail(s.todo)
            /\ KindAt(Head(s.todo)) \notin {"link", "gone"}
            /\ \E a \in s.allowed : Within(a, Real(Head(s.todo)))
  BY CheckDoes
<1>2. t.pc \notin Walking /\ s.pc \notin Walking
  BY <1>1 DEF Walking, ScanEnd
<1>3. Walk(R, t)
  BY <1>1, <1>2, SettleKeepsWalk DEF Walking
<1>4. t.records = <<>> /\ t.item.depth = 0 /\ \A j \in DOMAIN t.queue : t.queue[j].depth = 0
  BY <1>1, <1>2 DEF Clear, SameFinds
<1>5. t.allowed \subseteq {Real(c) : c \in Range(Configured)}
  BY <1>1 DEF Clear, SameEntry
<1>6. \A a \in Range(o) : a \in Range(s.todo) \/ Cleared(a)
  BY <1>1 DEF Clear
<1>7. CASE t.pc \in ScanEnd
  <2>1. t.pc \notin {"authorize", "check", "seed"}
    BY <1>7 DEF ScanEnd
  <2> QED
    BY <1>2, <1>3, <1>4, <1>5, <2>1 DEF Clear
<1>8. CASE s.todo = <<>> /\ t.pc = "seed" /\ t.todo = o
  <2>1. Range(s.todo) = {}
    BY <1>8 DEF Range
  <2> QED
    BY <1>2, <1>3, <1>4, <1>5, <1>6, <1>8, <2>1 DEF Clear
<1>9. CASE /\ s.todo # <<>> /\ t.pc = "check" /\ t.todo = Tail(s.todo)
           /\ KindAt(Head(s.todo)) \notin {"link", "gone"}
           /\ \E a \in s.allowed : Within(a, Real(Head(s.todo)))
  <2>1. Range(s.todo) = {Head(s.todo)} \cup Range(t.todo)
    BY <1>9, TodoHead, FieldsOf
  <2>2. Cleared(Head(s.todo))
    <3>1. PICK a \in s.allowed : Within(a, Real(Head(s.todo)))
      BY <1>9
    <3>2. PICK c \in Range(Configured) : a = Real(c)
      BY DEF Clear
    <3>3. IsPrefix(Real(c), Real(Head(s.todo)))
      BY <3>1, <3>2 DEF Within
    <3> QED
      BY <1>9, <3>3 DEF Cleared
  <2>3. \A a \in Range(o) : a \in Range(t.todo) \/ Cleared(a)
    BY <1>6, <2>1, <2>2
  <2> QED
    BY <1>2, <1>3, <1>4, <1>5, <1>9, <2>3 DEF Clear
<1> QED
  BY <1>1, <1>7, <1>8, <1>9

LEMMA SeedWhole ==
  ASSUME TreeOK, NEW s \in ScanType, NEW t, s = scan, t = scan', NEW o \in Seq(Place),
         NEW R, R = RootsAt(o), Clear(o, s), Walk(R, s), Seed
  PROVE  Clear(o, t) /\ Walk(R, t)
<1>1. /\ t \in ScanType /\ SameEntry(s, t) /\ s.pc = "seed"
      /\ \/ s.todo = <<>> /\ t.pc = "take" /\ SameFinds(s, t)
         \/ /\ s.todo # <<>> /\ t.pc = "seed" /\ t.todo = Tail(s.todo)
            /\ t.item = s.item /\ t.visited = s.visited /\ t.records = s.records
            /\ \/ t.queue = s.queue /\ KindAt(Head(s.todo)) \in {"link", "gone"}
               \/ /\ KindAt(Head(s.todo)) \notin {"link", "gone"}
                  /\ t.queue = Append(s.queue, [path |-> Real(Head(s.todo)), root |-> Real(Head(s.todo)), depth |-> 0])
  BY SeedDoes
<1>2. /\ \A a \in Range(o) : Cleared(a)
      /\ Range(s.todo) \subseteq Range(o)
      /\ \A a \in Range(o) : a \in Range(s.todo) \/ Covered(s, Real(a), 0)
      /\ s.records = <<>> /\ s.item.depth = 0 /\ \A j \in DOMAIN s.queue : s.queue[j].depth = 0
  BY <1>1 DEF Clear, Walking
<1>3. t.allowed \subseteq {Real(c) : c \in Range(Configured)}
  BY <1>1 DEF Clear, SameEntry
<1>4. CASE s.todo = <<>> /\ t.pc = "take" /\ SameFinds(s, t)
  <2>1. Range(s.todo) = {}
    BY <1>4 DEF Range
  <2>2. \A r \in R : Covered(s, r, 0)
    BY <1>2, <2>1 DEF RootsAt
  <2>3. Walk(R, t)
    BY <1>1, <1>4, <2>2, SettleKeepsWalk
  <2>4. t.pc \in Walking
    BY <1>4 DEF Walking
  <2> QED
    BY <1>2, <1>3, <1>4, <2>3, <2>4 DEF Clear
<1>5. CASE /\ s.todo # <<>> /\ t.pc = "seed" /\ t.todo = Tail(s.todo)
           /\ t.item = s.item /\ t.visited = s.visited /\ t.records = s.records
           /\ \/ t.queue = s.queue /\ KindAt(Head(s.todo)) \in {"link", "gone"}
              \/ /\ KindAt(Head(s.todo)) \notin {"link", "gone"}
                 /\ t.queue = Append(s.queue, [path |-> Real(Head(s.todo)), root |-> Real(Head(s.todo)), depth |-> 0])
  <2>1. PICK a, p : a = Head(s.todo) /\ p = Real(a)
    OBVIOUS
  <2>2. a \in Place /\ Range(s.todo) = {a} \cup Range(t.todo)
    BY <1>5, <2>1, TodoHead, FieldsOf
  <2>3. a \in Range(o) /\ KindAt(a) \notin {"link", "gone"}
    BY <1>2, <2>2 DEF Cleared
  <2>4. p \in R /\ Solid(p)
    BY <2>1, <2>2, <2>3, RootIsSolid DEF RootsAt
  <2>5. R \in SUBSET Seq(Nat)
    BY RootsArePaths
  <2>6. t.queue = Append(s.queue, [path |-> p, root |-> p, depth |-> 0])
    BY <1>5, <2>1, <2>3
  <2>7. Walk(R, t) /\ Carries(s, t) /\ Covered(t, p, 0) /\ \A j \in DOMAIN t.queue : t.queue[j].depth = 0
    <3>1. /\ t \in ScanType /\ s.pc = "seed" /\ t.pc = "seed"
          /\ s.item.depth = 0 /\ (\A j \in DOMAIN s.queue : s.queue[j].depth = 0)
          /\ t.item = s.item /\ t.visited = s.visited /\ t.records = s.records
      BY <1>1, <1>2, <1>5
    <3> QED
      BY <2>4, <2>5, <2>6, <3>1, SeedKeepsWalk, ZenonT(60)
  <2>8. ASSUME NEW b \in Range(o) PROVE b \in Range(t.todo) \/ Covered(t, Real(b), 0)
    <3>1. CASE b = a
      BY <2>1, <2>7, <3>1
    <3>2. CASE Covered(s, Real(b), 0)
      BY <1>1, <2>7, <3>2, CoveredStays
    <3> QED
      BY <1>2, <2>2, <3>1, <3>2
  <2>9. Range(t.todo) \subseteq Range(o)
    BY <1>2, <2>2
  <2>10. t.pc \notin Walking
    BY <1>5 DEF Walking
  <2> QED
    BY <1>2, <1>3, <1>5, <2>7, <2>8, <2>9, <2>10 DEF Clear
<1> QED
  BY <1>1, <1>4, <1>5

\* The walk itself leaves the roots as they are.
LEMMA WalkIsClear ==
  ASSUME NEW o, NEW s, NEW t, Clear(o, s), t.allowed = s.allowed, s.pc \in Walking, t.pc \in Walking
  PROVE  Clear(o, t)
<1>1. t.pc \notin {"authorize", "check", "seed"}
  BY DEF Walking
<1> QED
  BY <1>1 DEF Clear

LEMMA TakeWhole ==
  ASSUME TreeOK, NEW s \in ScanType, NEW t, s = scan, t = scan', NEW o, NEW R, Clear(o, s), Walk(R, s), Take \/ Abort
  PROVE  Clear(o, t) /\ Walk(R, t)
<1>1. t \in ScanType /\ SameTodo(s, t) /\ s.pc = "take" /\ t.visited = s.visited /\ t.records = s.records
  BY TakeDoes, AbortDoes DEF SameFinds
<1>2. \/ t.pc \in {"complete", "partial", "aborted"} /\ (t.pc = "complete" => s.queue = <<>>) /\ SameFinds(s, t)
      \/ s.queue # <<>> /\ KindAt(Head(s.queue).path) \in {"link", "gone"} /\ t.pc = "take"
      \/ s.queue # <<>> /\ t.pc = "resolve" /\ t.queue = Tail(s.queue) /\ t.item = Head(s.queue)
  BY TakeDoes, AbortDoes
<1>3. ASSUME s.queue # <<>> PROVE KindAt(Head(s.queue).path) \notin {"link", "gone"}
  <2>1. 1 \in DOMAIN s.queue /\ Head(s.queue) = s.queue[1]
    BY <1>3, ScanFacts
  <2>2. Head(s.queue) \in Met(s)
    BY <2>1 DEF Met, Range
  <2> QED
    BY <2>2, FoundIsSolid
<1>4. t.pc \in Walking /\ s.pc \in Walking
  BY <1>1, <1>2 DEF Walking
<1>5. Clear(o, t)
  BY <1>1, <1>4, WalkIsClear DEF SameTodo, SameEntry
<1>6. CASE t.pc \in {"complete", "partial", "aborted"} /\ (t.pc = "complete" => s.queue = <<>>) /\ SameFinds(s, t)
  BY <1>1, <1>5, <1>6, EndKeepsWalk DEF SameFinds
<1>7. CASE s.queue # <<>> /\ t.pc = "resolve" /\ t.queue = Tail(s.queue) /\ t.item = Head(s.queue)
  BY <1>1, <1>5, <1>7, TakeKeepsWalk
<1> QED
  BY <1>2, <1>3, <1>6, <1>7

LEMMA ResolveWhole ==
  ASSUME TreeOK, NEW s \in ScanType, NEW t, s = scan, t = scan', NEW o, NEW R, Clear(o, s), Walk(R, s), ResolvePath
  PROVE  Clear(o, t) /\ Walk(R, t)
<1>1. /\ t \in ScanType /\ SameTodo(s, t) /\ s.pc = "resolve" /\ t.queue = s.queue /\ t.records = s.records
      /\ \/ /\ ~ There(Real(s.item.path)) \/ ~ Within(s.item.root, Real(s.item.path)) \/ Real(s.item.path) \in s.visited
            /\ t.pc = "take" /\ SameFinds(s, t)
         \/ /\ t.pc = "record" /\ t.visited = s.visited \cup {Real(s.item.path)}
            /\ t.item = [path |-> Real(s.item.path), root |-> s.item.root, depth |-> s.item.depth]
  BY ResolveDoes
<1>2. s.item \in Met(s)
  BY <1>1 DEF Met
<1>3. Real(s.item.path) = s.item.path /\ There(s.item.path) /\ Within(s.item.root, s.item.path)
  BY <1>2, FoundIsSolid
<1>4. t.pc \in Walking /\ s.pc \in Walking
  BY <1>1 DEF Walking
<1>5. Clear(o, t)
  BY <1>1, <1>4, WalkIsClear DEF SameTodo, SameEntry
<1>6. CASE t.pc = "take" /\ SameFinds(s, t) /\ s.item.path \in s.visited
  BY <1>1, <1>5, <1>6, SeenKeepsWalk DEF SameFinds
<1>7. CASE /\ t.pc = "record" /\ t.visited = s.visited \cup {s.item.path}
           /\ t.item = [path |-> s.item.path, root |-> s.item.root, depth |-> s.item.depth]
  <2>1. t.item = s.item
    <3>1. s.item \in Item
      BY ScanFacts
    <3> QED
      BY <1>7, <3>1 DEF Item
  <2> QED
    BY <1>1, <1>5, <1>7, <2>1, ResolveKeepsWalk
<1> QED
  BY <1>1, <1>3, <1>6, <1>7

LEMMA RecordWhole ==
  ASSUME TreeOK, NEW s \in ScanType, NEW t, s = scan, t = scan', Scope(s), NEW o, NEW R, Clear(o, s), Walk(R, s), Record
  PROVE  Clear(o, t) /\ Walk(R, t)
<1>1. /\ t \in ScanType /\ SameTodo(s, t) /\ s.pc = "record"
      /\ t.queue = s.queue /\ t.item = s.item /\ t.visited = s.visited
      /\ \/ KindAt(s.item.path) \in {"link", "gone"}
         \/ /\ t.records = Append(s.records, s.item)
            /\ t.pc = IF KindAt(s.item.path) = "dir" /\ s.item.depth < ScanDepth THEN "list" ELSE "take"
  BY RecordDoes
<1>2. s.item \in Met(s)
  BY <1>1 DEF Met
<1>3. KindAt(s.item.path) = tree[s.item.path].kind /\ tree[s.item.path].kind \notin {"gone", "link"}
  BY <1>2, FoundIsSolid
<1>4. /\ t.records = Append(s.records, s.item)
      /\ t.pc = IF tree[s.item.path].kind = "dir" /\ s.item.depth < ScanDepth THEN "list" ELSE "take"
  BY <1>1, <1>3
<1>5. t.pc \in Walking /\ s.pc \in Walking
  BY <1>1, <1>4 DEF Walking
<1>6. Clear(o, t)
  BY <1>1, <1>5, WalkIsClear DEF SameTodo, SameEntry
<1> QED
  BY <1>1, <1>4, <1>6, RecordKeepsWalk

LEMMA ListWhole ==
  ASSUME TreeOK, NEW s \in ScanType, NEW t, s = scan, t = scan', Scope(s), NEW o, NEW R \in SUBSET Seq(Nat),
         Clear(o, s), Walk(R, s), ReadDirectory
  PROVE  Clear(o, t) /\ Walk(R, t)
<1>1. /\ t \in ScanType /\ SameTodo(s, t) /\ s.pc = "list" /\ t.pc = "take"
      /\ t.item = s.item /\ t.visited = s.visited /\ t.records = s.records
      /\ \/ ~ CanRead(Real(s.item.path)) /\ t.queue = s.queue
         \/ /\ CanRead(Real(s.item.path))
            /\ \E names \in Seq(Nat) : Range(names) = Plain(s.item) /\ t.queue = s.queue \o Children(s.item, names)
  BY ListDoes
<1>2. s.item \in Met(s)
  <2>1. s.records # <<>> /\ s.item = s.records[Len(s.records)]
    BY <1>1 DEF Walk
  <2>2. Len(s.records) \in DOMAIN s.records
    BY <2>1, ScanFacts
  <2> QED
    BY <2>1, <2>2 DEF Met, Range
<1>3. Real(s.item.path) = s.item.path
  BY <1>2, FoundIsSolid
<1>4. t.pc \in Walking /\ s.pc \in Walking
  BY <1>1 DEF Walking
<1>5. Clear(o, t)
  BY <1>1, <1>4, WalkIsClear DEF SameTodo, SameEntry
<1>6. CASE ~ CanRead(s.item.path) /\ t.queue = s.queue
  BY <1>1, <1>5, <1>6, UnreadKeepsWalk
<1>7. ASSUME NEW names \in Seq(Nat), Range(names) = Plain(s.item), t.queue = s.queue \o Children(s.item, names),
             CanRead(s.item.path)
      PROVE  Clear(o, t) /\ Walk(R, t)
  BY <1>1, <1>3, <1>5, <1>7, ListKeepsWalk
<1> QED
  BY <1>1, <1>3, <1>6, <1>7

-----------------------------------------------------------------------------
\* The invariant of the scan.
ScanInv == ScopeInv /\ (swaps = 0 => \A o \in {RootsOf}, s \in {scan} : Whole(o, s))

\* Nothing of this is about more than what is there.
LEMMA StillWhole ==
  ASSUME tree' = tree, NEW o, NEW s, Whole(o, s)
  PROVE  Whole(o, s)'
<1>1. \A p : Links(p)' = Links(p)
  BY DEF Links
<1>2. \A p : Real(p)' = Real(p)
  BY <1>1 DEF Real
<1>3. \A p : There(p)' = There(p)
  BY DEF There
<1>4. \A p : Located(p)' = Located(p)
  BY <1>2 DEF Located
<1>5. \A p : KindAt(p)' = KindAt(p)
  BY <1>3, <1>4 DEF KindAt
<1>6. \A a : Cleared(a)' = Cleared(a)
  BY <1>2, <1>5 DEF Cleared
<1>7. RootsAt(o)' = RootsAt(o)
  BY <1>2 DEF RootsAt
<1>8. Clear(o, s)' = Clear(o, s)
  BY <1>2, <1>6 DEF Clear
<1>9. \A R, e : Found(R, e)' = Found(R, e)
  BY <1>3 DEF Found, Solid, CanRead
<1>10. \A e : Opened(s, e)' = Opened(s, e)
  BY <1>3 DEF Opened, CanRead
<1>11. \A R : Walk(R, s)' = Walk(R, s)
  BY <1>9, <1>10 DEF Walk
<1> QED
  BY <1>7, <1>8, <1>11 DEF Whole

LEMMA ScanInitInv == FileScanInit => ScanInv
<1> SUFFICES ASSUME FileScanInit PROVE ScanInv
  OBVIOUS
<1>1. ScopeInv
  BY ScopeInitInv
<1>2. PICK o, s : o = RootsOf /\ s = scan
  OBVIOUS
<1>3. PICK asked \in Asks :
        s = [pc |-> "probe", asked |-> asked, todo |-> <<>>, allowed |-> {}, queue |-> <<>>, item |-> NoItem,
             visited |-> {}, records |-> <<>>, skipped |-> 0]
  BY <1>2 DEF FileScanInit
<1>4. /\ s.pc = "probe" /\ s.allowed = {} /\ s.queue = <<>> /\ s.records = <<>> /\ s.visited = {} /\ s.item.depth = 0
      /\ s.pc \notin Walking
  BY <1>3 DEF NoItem, Walking
<1>5. Clear(o, s)
  BY <1>4 DEF Clear
<1>6. Met(s) = {}
  BY <1>4 DEF Met, Range
<1>7. \A R : Walk(R, s)
  BY <1>4, <1>6 DEF Walk, Levels
<1>8. Whole(o, s)
  BY <1>5, <1>7 DEF Whole
<1> QED
  BY <1>1, <1>2, <1>8 DEF ScanInv

LEMMA StepIsWhole ==
  ASSUME TreeOK, NEW s \in ScanType, NEW t, s = scan, t = scan', Scope(s), NEW o \in Seq(Place), o = RootsOf,
         Whole(o, s), ScanStep \/ Abort
  PROVE  Whole(o, t)
<1>1. PICK R : R = RootsAt(o)
  OBVIOUS
<1>2. R \in SUBSET Seq(Nat)
  BY <1>1, RootsArePaths
<1>3. Clear(o, s) /\ Walk(R, s)
  BY <1>1 DEF Whole
<1>4. Clear(o, t) /\ Walk(R, t)
  <2>1. CASE Probe
    BY <1>3, <2>1, ProbeWhole
  <2>2. CASE Authorize
    BY <1>3, <2>2, AuthorizeWhole
  <2>3. CASE CheckRoot
    BY <1>3, <2>3, CheckWhole
  <2>4. CASE Seed
    BY <1>1, <1>3, <2>4, SeedWhole
  <2>5. CASE Take \/ Abort
    BY <1>3, <2>5, TakeWhole
  <2>6. CASE ResolvePath
    BY <1>3, <2>6, ResolveWhole
  <2>7. CASE Record
    BY <1>3, <2>7, RecordWhole
  <2>8. CASE ReadDirectory
    BY <1>2, <1>3, <2>8, ListWhole
  <2> QED
    BY <2>1, <2>2, <2>3, <2>4, <2>5, <2>6, <2>7, <2>8, Zenon DEF ScanStep
<1> QED
  BY <1>1, <1>4 DEF Whole

LEMMA ScanStepInv == ScanInv /\ [FileScanNext]_scanVars => ScanInv'
<1> SUFFICES ASSUME ScanInv, [FileScanNext]_scanVars PROVE ScanInv'
  OBVIOUS
<1>1. PICK o, s, t : o = RootsOf /\ s = scan /\ t = scan'
  OBVIOUS
<1>2. TreeOK /\ swaps \in 0..MaxSwaps /\ s \in ScanType /\ Scope(s) /\ o \in Seq(Place) /\ (swaps = 0 => Whole(o, s))
  BY <1>1, AskedRoots DEF ScanInv, ScopeInv
<1>3. CASE ScanStep \/ Abort
  <2>1. t \in ScanType /\ Scope(t) /\ t.asked = s.asked
    BY <1>1, <1>2, <1>3, ScopeNext
  <2>2. tree' = tree /\ swaps' = swaps
    BY <1>3, Zenon DEF ScanStep, Probe, Authorize, CheckRoot, Seed, Take, Abort, ResolvePath, Record, ReadDirectory
  <2>3. ScopeInv'
    BY <1>1, <1>2, <2>1, <2>2 DEF ScopeInv, TreeOK
  <2>4. RootsOf' = o
    BY <1>1, <2>1 DEF RootsOf
  <2>5. ASSUME swaps = 0 PROVE Whole(o, t)'
    <3>1. Whole(o, t)
      BY <1>1, <1>2, <1>3, <2>5, StepIsWhole
    <3> QED
      BY <2>2, <3>1, StillWhole
  <2> QED
    BY <1>1, <2>2, <2>3, <2>4, <2>5 DEF ScanInv
<1>4. CASE SwapEntry
  <2>1. t = s /\ swaps' = swaps + 1 /\ swaps < MaxSwaps
    BY <1>1, <1>4 DEF SwapEntry
  <2>2. TreeOK'
    <3>1. PICK w \in Swap : tree' = [tree EXCEPT ![w[1]] = w[2]]
      BY <1>4 DEF SwapEntry
    <3>2. w[1] \in Place /\ w[2] \in Entry
      BY FileScanAssumption
    <3> QED
      BY <1>2, <3>1, <3>2 DEF TreeOK
  <2>3. swaps' \in 0..MaxSwaps /\ swaps' # 0
    BY <1>2, <2>1, FileScanAssumption
  <2> QED
    BY <1>1, <1>2, <2>1, <2>2, <2>3 DEF ScanInv, ScopeInv
<1>5. CASE UNCHANGED scanVars
  <2>1. tree' = tree /\ scan' = scan /\ swaps' = swaps
    BY <1>5 DEF scanVars
  <2>2. ScopeInv'
    BY <1>1, <1>2, <2>1 DEF ScopeInv, TreeOK
  <2>3. ASSUME swaps = 0 PROVE Whole(o, s)'
    BY <1>2, <2>1, <2>3, StillWhole
  <2>4. RootsOf' = o
    BY <1>1, <2>1 DEF RootsOf
  <2> QED
    BY <1>1, <2>1, <2>2, <2>3, <2>4 DEF ScanInv
<1> QED
  BY <1>3, <1>4, <1>5 DEF FileScanNext

\* A root that lies in one of the configured ones leads to nothing outside of them.
LEMMA PrefixesChain ==
  ASSUME NEW a \in Seq(Nat), NEW b \in Seq(Nat), NEW c \in Seq(Nat), IsPrefix(a, b), IsPrefix(b, c)
  PROVE  IsPrefix(a, c)
<1>1. Len(a) \in Nat /\ Len(b) \in Nat /\ Len(c) \in Nat
  OBVIOUS
<1>2. Len(a) <= Len(b) /\ \A i \in 1..Len(a) : a[i] = b[i]
  BY IsPrefixIs
<1>3. Len(b) <= Len(c) /\ \A i \in 1..Len(b) : b[i] = c[i]
  BY IsPrefixIs
<1>4. \A i \in 1..Len(a) : i \in 1..Len(b)
  BY <1>1, <1>2
<1>5. Len(a) <= Len(c) /\ \A i \in 1..Len(a) : a[i] = c[i]
  BY <1>1, <1>2, <1>3, <1>4
<1> QED
  BY <1>5, IsPrefixIs

LEMMA ScanHolds == ScanInv => FileScanInvariant
<1> SUFFICES ASSUME ScanInv PROVE FileScanInvariant
  OBVIOUS
<1>1. PICK s : s = scan
  OBVIOUS
<1>2. PICK o : o = RootsOf
  OBVIOUS
<1>3. TreeOK /\ swaps \in 0..MaxSwaps /\ s \in ScanType /\ Scope(s) /\ o \in Seq(Place)
  BY <1>1, <1>2, AskedRoots DEF ScanInv, ScopeInv
<1>4. PICK R : R = RootsAt(o)
  OBVIOUS
<1>5. R \in SUBSET Seq(Nat) /\ R = RootPaths
  BY <1>2, <1>3, <1>4, RootsArePaths DEF RootsAt, RootPaths
<1>6. ASSUME swaps = 0 PROVE Clear(o, s) /\ Walk(R, s)
  BY <1>1, <1>2, <1>4, <1>6 DEF ScanInv, Whole
<1>7. FileScanTypeOK
  <2>1. Seq(Place) \subseteq Seq(Seq(Nat))
    BY FileScanAssumption
  <2>2. /\ s.pc \in ScanPc /\ s.asked \in Asks /\ s.todo \in Seq(Place) /\ s.allowed \subseteq Seq(Nat)
        /\ s.queue \in Seq(Item) /\ s.item \in Item /\ s.visited \subseteq Seq(Nat) /\ s.records \in Seq(Item)
        /\ s.skipped \in Nat
    BY <1>3, FieldsOf
  <2> QED
    BY <1>1, <1>3, <2>1, <2>2 DEF FileScanTypeOK, TreeOK, ScanPc
<1>8. \A k \in DOMAIN s.records : s.records[k] \in Met(s)
  BY DEF Met, Range
<1>9. RecordsAreInScope
  <2>1. \A i \in DOMAIN s.records : swaps = 0 => Len(s.records[i].path) = Len(s.records[i].root) + s.records[i].depth
    BY <1>6, <1>8 DEF Walk, Found
  <2> QED
    BY <1>1, <1>3, <2>1 DEF RecordsAreInScope, Scope
<1>10. CompleteIsWhole
  <2>1. SUFFICES ASSUME s.pc = "complete", swaps = 0 PROVE Recorded = Scannable
    BY <1>1 DEF CompleteIsWhole
  <2>2. Walk(R, s)
    BY <1>6, <2>1
  <2>3. Recorded \subseteq Scannable
    <3>1. ASSUME NEW k \in DOMAIN s.records PROVE s.records[k].path \in Scannable
      <4>1. s.records[k] \in Item
        BY <1>3, ScanFacts
      <4>2. Found(RootPaths, s.records[k])
        BY <1>5, <1>8, <2>2 DEF Walk
      <4> QED
        BY <1>3, <4>1, <4>2, FoundIsScannable
    <3> QED
      BY <1>1, <3>1 DEF Recorded
  <2>4. ASSUME NEW p \in Scannable PROVE p \in Recorded
    <3>1. \E k \in DOMAIN s.records : s.records[k].path = p
      BY <1>3, <1>5, <2>1, <2>2, WholeIsFound
    <3> QED
      BY <1>1, <3>1 DEF Recorded
  <2> QED
    BY <2>3, <2>4
<1>11. ScopeIsKept
  <2>1. SUFFICES ASSUME swaps = 0, NEW k \in DOMAIN s.records
                 PROVE  \E c \in Range(Configured) : IsPrefix(Real(c), s.records[k].path)
    BY <1>1 DEF ScopeIsKept, Recorded
  <2>2. PICK e : e = s.records[k]
    OBVIOUS
  <2>3. e \in Item /\ e \in Met(s) /\ e.path \in Seq(Nat)
    BY <1>3, <1>8, <2>2, ScanFacts DEF Item
  <2>4. e.root \in R /\ IsPrefix(e.root, e.path)
    BY <1>6, <2>1, <2>3 DEF Walk, Found
  <2>5. s.pc \in Walking
    <3>1. s.records # <<>>
      OBVIOUS
    <3> QED
      BY <1>6, <2>1, <3>1 DEF Clear
  <2>6. PICK a \in Range(o) : e.root = Real(a)
    BY <1>4, <2>4 DEF RootsAt
  <2>7. PICK c \in Range(Configured) : IsPrefix(Real(c), Real(a))
    BY <1>6, <2>1, <2>5 DEF Clear, Cleared
  <2>8. Real(c) \in Seq(Nat) /\ e.root \in Seq(Nat)
    <3>1. c \in Seq(Nat)
      BY FileScanAssumption DEF Range
    <3> QED
      BY <1>3, <1>5, <2>4, <3>1, RealIsPath
  <2>9. IsPrefix(Real(c), e.path)
    BY <2>3, <2>4, <2>6, <2>7, <2>8, PrefixesChain
  <2> QED
    BY <2>2, <2>9
<1> QED
  BY <1>7, <1>9, <1>10, <1>11 DEF FileScanInvariant

-----------------------------------------------------------------------------
(* What every step of a conversation keeps.  Each part keeps its own: a    *)
(* step of one part leaves the variables of the others alone.              *)
WindowInv == DeliveryInv /\ WorkbenchInv /\ VoiceInv

LEMMA WindowStep == WindowInv /\ [ConversationNext]_conversationVars => WindowInv'
<1> SUFFICES ASSUME WindowInv, [ConversationNext]_conversationVars
             PROVE  WindowInv'
  OBVIOUS
<1>1. [DeliveryNext]_deliveryVars
  BY Zenon DEF ConversationNext, conversationVars
<1>2. [WorkbenchNext]_workbenchVars
  BY Zenon DEF ConversationNext, conversationVars
<1>3. [VoiceNext]_voiceVars
  BY Zenon DEF ConversationNext, conversationVars
<1> QED
  BY <1>1, <1>2, <1>3, DeliveryStep, WorkbenchStep, VoiceStep DEF WindowInv

\* The window shows a Turn as it is: every connection of the event stream has delivered a
\* prefix of the log, without a gap and without a repetition, and one whose tail ended because the
\* attempt is settled has delivered the ending (getStreamEvents and the route's loop); and
\* the microphone is held by who shows it, its speech cut in order and lost only as a
\* single frame before a stop (the voice recorder's frames and flushes).
THEOREM WindowIsTrue == ConversationSpec => []WindowInvariant
<1>1. ConversationInit => WindowInv
  BY DeliveryInitInv, WorkbenchInitInv, VoiceInitInv DEF ConversationInit, WindowInv
<1>2. WindowInv => WindowInvariant
  BY DeliveryHolds, VoiceHolds DEF WindowInv, WindowInvariant, WorkbenchInv
<1> QED
  BY <1>1, <1>2, WindowStep, PTL DEF ConversationSpec

\* The event stream alone, whatever else the window does: what a reader was sent is the
\* log up to where it stands, and a tail that ended on a settled Turn brought its ending.
THEOREM StreamIsDelivered == DeliverySpec => [](DeliveryTypeOK /\ DeliveredInOrder /\ TailDeliversTheEnding)
<1> QED
  BY DeliveryInitInv, DeliveryStep, DeliveryHolds, PTL DEF DeliverySpec

\* The microphone alone: no click leaves one on that the window does not show, unless two
\* starts waited for the user's leave at once, and speech is sent in order and once.
THEOREM SpeechIsHeard == VoiceSpec => []VoiceInvariant
<1> QED
  BY VoiceInitInv, VoiceStep, VoiceHolds, PTL DEF VoiceSpec

\* A scan that ran to its end over directories nobody touched has recorded everything the
\* selected roots hold that a reader may reach, and nothing else, each path once and with
\* the depth it has; and whatever is moved, linked or locked while it runs, a record lies
\* beneath the root it was found from and no deeper than asked (capture of the file adapter).
THEOREM ScanIsWhole == ConversationSpec => []FileScanInvariant
<1>1. ConversationInit => ScanInv
  BY ScanInitInv DEF ConversationInit
<1>2. ScanInv /\ [ConversationNext]_conversationVars => ScanInv'
  <2>1. [ConversationNext]_conversationVars => [FileScanNext]_scanVars
    BY Zenon DEF ConversationNext, conversationVars
  <2> QED
    BY <2>1, ScanStepInv
<1> QED
  BY <1>1, <1>2, ScanHolds, PTL DEF ConversationSpec

\* The scan alone, however its steps and those of other programs interleave.
THEOREM ScanAloneIsWhole == FileScanSpec => []FileScanInvariant
<1> QED
  BY ScanInitInv, ScanStepInv, ScanHolds, PTL DEF FileScanSpec
=============================================================================
