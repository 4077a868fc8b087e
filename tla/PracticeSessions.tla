--------------------------- MODULE PracticeSessions ---------------------------
(***************************************************************************)
(* Practice sessions and the book of mistakes derived from their answers   *)
(* (apps/api/src/modules/learning/routes.ts, practice-review/src/          *)
(* session.ts, learning-repository.ts).  A session fixes its questions     *)
(* when it is created; answers are only ever added; a mistake's state is   *)
(* computed from answers, the user's disposition and the mastery of its    *)
(* knowledge item.  Every await of a request is a step of its own; the     *)
(* reason a user notes for a mistake decides nothing and is left out.      *)
(***************************************************************************)
EXTENDS Naturals, Sequences, FiniteSets, SequencesExt

CONSTANTS
  QuestionList,      \* the active questions, oldest first
  Linked,            \* those with a knowledge item
  Count,             \* questions of a session (3 to 5 in the code)
  PracticeCall,      \* requests under way at once
  MaxSessions,       \* bound: sessions
  MaxTries,          \* bound: answers
  MaxPracticeCalls   \* bound: requests

ASSUME PracticeAssumption ==
  /\ QuestionList # <<>> /\ QuestionList \in Seq(ToSet(QuestionList))
  /\ IsInjective(QuestionList) /\ Linked \subseteq ToSet(QuestionList)
  /\ Count \in Nat \ {0} /\ MaxSessions \in Nat /\ MaxTries \in Nat /\ MaxPracticeCalls \in Nat

VARIABLES
  sessions,      \* practice_sessions in order of start
  tries,         \* question_attempts in order
  mark,          \* per question: disposition, and mastery of its knowledge item
  sentTo,        \* per session: the furthest question a client was sent to
  practiceCall,  \* the requests under way
  calls          \* requests begun, and whether two ever met

practiceVars == <<sessions, tries, mark, sentTo, practiceCall, calls>>

Question == ToSet(QuestionList)
Session == 1..MaxSessions
SessionRow == [asked : Seq(Question), open : BOOLEAN, again : BOOLEAN]
AttemptRow == [session : 0..MaxSessions, question : Question, right : BOOLEAN]
MarkRow == [dismissed : BOOLEAN, mastered : BOOLEAN]
MistakeStatus == {"active", "mastered", "dismissed"}
NoPractice == [op |-> "idle", pc |-> "end", session |-> 0, question |-> QuestionList[1], right |-> FALSE,
               status |-> "none", seen |-> "none", chosen |-> <<>>, alone |-> TRUE]

PracticeTypeOK ==
  /\ sessions \in Seq(SessionRow)
  /\ tries \in Seq(AttemptRow)
  /\ mark \in [Question -> MarkRow]
  /\ sentTo \in [Session -> 0..Len(QuestionList)]
  /\ practiceCall \in [PracticeCall ->
       [op : {"idle", "start", "again", "answer", "patch"},
        pc : {"end", "look", "resume", "questions", "mistakes", "create", "check", "insert", "mastery",
              "dispose", "master", "told"},
        session : 0..MaxSessions, question : Question, right : BOOLEAN,
        status : MistakeStatus \cup {"none"}, seen : MistakeStatus \cup {"none"},
        chosen : Seq(Question), alone : BOOLEAN]]
  /\ calls \in [begun : 0..MaxPracticeCalls, met : BOOLEAN]

PracticeInit ==
  /\ sessions = <<>> /\ tries = <<>>
  /\ mark = [q \in Question |-> [dismissed |-> FALSE, mastered |-> FALSE]]
  /\ sentTo = [s \in Session |-> 0]
  /\ practiceCall = [c \in PracticeCall |-> NoPractice]
  /\ calls = [begun |-> 0, met |-> FALSE]

-----------------------------------------------------------------------------
Open == {s \in DOMAIN sessions : sessions[s].open}
LatestOpen == CHOOSE s \in Open : \A t \in Open : t <= s
TriedIn(s) == {tries[i].question : i \in {i \in DOMAIN tries : tries[i].session = s}}
Mistakes == {q \in Question : \E i \in DOMAIN tries : tries[i].question = q /\ ~tries[i].right}

\* listMistakes: dismissed wins over mastered.
StatusOf(q) == IF mark[q].dismissed THEN "dismissed" ELSE IF mark[q].mastered THEN "mastered" ELSE "active"

\* A progress that counts answers instead of answered questions.
AnswersGiven(s) == Min({Len(sessions[s].asked), Len(SelectSeq(tries, LAMBDA t : t.session = s))})

\* getPracticeSessionProgress: how many questions come before the first unanswered one.
NextQuestionIndex(s) ==
  Len(sessions[s].asked) - Max({0} \cup {Len(sessions[s].asked) - i + 1 :
                                         i \in {i \in DOMAIN sessions[s].asked : sessions[s].asked[i] \notin TriedIn(s)}})

PracticeOf(c) == practiceCall[c]
Turns(c, pc) == practiceCall' = [practiceCall EXCEPT ![c].pc = pc]
Ends(c) == practiceCall' = [practiceCall EXCEPT ![c] = NoPractice]
Now(c, op, pc) == practiceCall[c].op \in op /\ practiceCall[c].pc = pc

BeginPractice(c, req) ==
  LET others == {d \in PracticeCall \ {c} : practiceCall[d] # NoPractice} IN
  /\ practiceCall[c] = NoPractice /\ calls.begun < MaxPracticeCalls
  /\ practiceCall' = [d \in PracticeCall |->
       IF d = c THEN [req EXCEPT !.alone = (others = {})]
                ELSE [practiceCall[d] EXCEPT !.alone = (@ /\ d \notin others)]]
  /\ calls' = [begun |-> calls.begun + 1, met |-> calls.met \/ others # {}]
  /\ UNCHANGED <<sessions, tries, mark, sentTo>>

AskPractice(c) ==
  \/ BeginPractice(c, [NoPractice EXCEPT !.op = "start", !.pc = "look"])
  \/ BeginPractice(c, [NoPractice EXCEPT !.op = "again", !.pc = "look"])
  \/ \E q \in Question, right \in BOOLEAN, s \in 0..Len(sessions) :
       BeginPractice(c, [NoPractice EXCEPT !.op = "answer", !.pc = "check", !.session = s, !.question = q, !.right = right])
  \/ \E q \in Question, status \in MistakeStatus :
       BeginPractice(c, [NoPractice EXCEPT !.op = "patch", !.pc = "look", !.question = q, !.status = status])

-----------------------------------------------------------------------------
\* POST /v1/practice/sessions and /v1/mistakes/repractice: the latest active session
\* is resumed; without one the request chooses the questions of a new session.
LookForOpen(c) ==
  /\ Now(c, {"start", "again"}, "look")
  /\ practiceCall' = [practiceCall EXCEPT
       ![c].session = IF Open = {} THEN 0 ELSE LatestOpen,
       ![c].pc = IF Open # {} THEN "resume" ELSE IF PracticeOf(c).op = "start" THEN "questions" ELSE "mistakes"]
  /\ UNCHANGED <<sessions, tries, mark, sentTo, calls>>

\* practiceSessionResumePayload
Resume(c) ==
  /\ Now(c, {"start", "again"}, "resume")
  /\ sentTo' = [sentTo EXCEPT ![PracticeOf(c).session] = NextQuestionIndex(PracticeOf(c).session)]
  /\ Ends(c)
  /\ UNCHANGED <<sessions, tries, mark, calls>>

\* listActiveQuestions; too few are a 409.
ChooseQuestions(c) ==
  /\ Now(c, {"start"}, "questions")
  /\ IF Len(QuestionList) < Count THEN Ends(c)
     ELSE practiceCall' = [practiceCall EXCEPT ![c].pc = "create", ![c].chosen = SubSeq(QuestionList, 1, Count)]
  /\ UNCHANGED <<sessions, tries, mark, sentTo, calls>>

\* One to five of the active mistakes, in the order they are asked for; none, more, or
\* what is not an active mistake is a 400.
ChooseMistakes(c) ==
  LET active == {q \in Mistakes : StatusOf(q) = "active"} IN
  /\ Now(c, {"again"}, "mistakes")
  /\ \/ Ends(c)
     \/ \E n \in 1..5 : \E chosen \in [1..n -> active] :
          IsInjective(chosen) /\ practiceCall' = [practiceCall EXCEPT ![c].pc = "create", ![c].chosen = chosen]
  /\ UNCHANGED <<sessions, tries, mark, sentTo, calls>>

\* createPracticeSession inserts: nothing keeps a second active session out.
CreateSession(c) ==
  /\ Now(c, {"start", "again"}, "create")
  /\ Len(sessions) < MaxSessions
  /\ sessions' = Append(sessions, [asked |-> PracticeOf(c).chosen, open |-> TRUE, again |-> PracticeOf(c).op = "again"])
  /\ Ends(c)
  /\ UNCHANGED <<tries, mark, sentTo, calls>>

\* completePracticeSession, one statement: an active session is closed, a closed one found.
CompleteSession(s) ==
  /\ s \in Open
  /\ sessions' = [sessions EXCEPT ![s].open = FALSE]
  /\ UNCHANGED <<tries, mark, sentTo, practiceCall, calls>>

-----------------------------------------------------------------------------
\* POST /v1/questions/:id/attempts, with a practice session or without one.
CheckSession(c) ==
  LET s == PracticeOf(c).session IN
  /\ Now(c, {"answer"}, "check")
  /\ IF s # 0 /\ (~sessions[s].open \/ PracticeOf(c).question \notin ToSet(sessions[s].asked))
       THEN Ends(c) ELSE Turns(c, "insert")
  /\ UNCHANGED <<sessions, tries, mark, sentTo, calls>>

RecordAttempt(c) ==
  /\ Now(c, {"answer"}, "insert")
  /\ Len(tries) < MaxTries
  /\ tries' = Append(tries, [session |-> PracticeOf(c).session, question |-> PracticeOf(c).question, right |-> PracticeOf(c).right])
  /\ IF PracticeOf(c).question \in Linked THEN Turns(c, "mastery") ELSE Ends(c)
  /\ UNCHANGED <<sessions, mark, sentTo, calls>>

\* updatePracticeState: the counts decide the mastery (module Learning).
PracticeState(c) ==
  /\ Now(c, {"answer"}, "mastery")
  /\ \E mastered \in BOOLEAN : mark' = [mark EXCEPT ![PracticeOf(c).question].mastered = mastered]
  /\ Ends(c)
  /\ UNCHANGED <<sessions, tries, sentTo, calls>>

-----------------------------------------------------------------------------
\* PATCH /v1/mistakes/:questionId: what to write is decided by the status read here.
FindMistake(c) ==
  LET q == PracticeOf(c).question
      asked == PracticeOf(c).status
  IN
  /\ Now(c, {"patch"}, "look")
  /\ practiceCall' = [practiceCall EXCEPT ![c] =
       IF q \notin Mistakes THEN NoPractice
       ELSE IF asked = "dismissed" \/ (asked = "active" /\ StatusOf(q) = "dismissed")
         THEN [@ EXCEPT !.seen = StatusOf(q), !.pc = "dispose"]
       ELSE IF q \in Linked THEN [@ EXCEPT !.seen = StatusOf(q), !.pc = "master"]
       ELSE NoPractice]
  /\ UNCHANGED <<sessions, tries, mark, sentTo, calls>>

SetDisposition(c) ==
  /\ Now(c, {"patch"}, "dispose")
  /\ mark' = [mark EXCEPT ![PracticeOf(c).question].dismissed = (PracticeOf(c).status = "dismissed")]
  /\ Turns(c, "told")
  /\ UNCHANGED <<sessions, tries, sentTo, calls>>

UpdateMastery(c) ==
  /\ Now(c, {"patch"}, "master")
  /\ mark' = [mark EXCEPT ![PracticeOf(c).question].mastered = (PracticeOf(c).status = "mastered")]
  /\ Turns(c, "told")
  /\ UNCHANGED <<sessions, tries, sentTo, calls>>

PatchAnswered(c) ==
  /\ Now(c, {"patch"}, "told")
  /\ Ends(c)
  /\ UNCHANGED <<sessions, tries, mark, sentTo, calls>>

PracticeNext ==
  \/ \E c \in PracticeCall :
       \/ AskPractice(c)
       \/ LookForOpen(c) \/ Resume(c) \/ ChooseQuestions(c) \/ ChooseMistakes(c) \/ CreateSession(c)
       \/ CheckSession(c) \/ RecordAttempt(c) \/ PracticeState(c)
       \/ FindMistake(c) \/ SetDisposition(c) \/ UpdateMastery(c) \/ PatchAnswered(c)
  \/ \E s \in Session : CompleteSession(s)

PracticeSpec == PracticeInit /\ [][PracticeNext]_practiceVars

-----------------------------------------------------------------------------
\* A client sent on with a session is never sent past an unanswered question, however
\* often a question was answered again and whatever is answered meanwhile.
NothingIsPassedOver ==
  \A s \in DOMAIN sessions : \A i \in 1..sentTo[s] : sessions[s].asked[i] \in TriedIn(s)

\* An answer counted for a session is an answer to one of its questions, and a session
\* of mistakes asks only what was answered wrong before: what the reports divide.
AnswersBelong ==
  /\ \A i \in DOMAIN tries : tries[i].session # 0 => tries[i].question \in ToSet(sessions[tries[i].session].asked)
  /\ \A s \in DOMAIN sessions : sessions[s].again => ToSet(sessions[s].asked) \subseteq Mistakes

\* As long as no two requests met, one session at most is active.  (Two that meet can
\* both find none and both create one.)
OneSessionOpen == ~calls.met => Cardinality(Open) <= 1

\* A PATCH no other request met is told what the list shows then, except when it asks
\* to master a dismissed mistake, or to take back the dismissal of a mastered one.
PatchIsShown ==
  \A c \in PracticeCall :
    LET call == PracticeOf(c) IN
    call.pc = "told" /\ call.alone =>
      \/ StatusOf(call.question) = call.status
      \/ call.status = "mastered" /\ call.seen = "dismissed" /\ StatusOf(call.question) = "dismissed"
      \/ call.status = "active" /\ call.seen = "dismissed" /\ StatusOf(call.question) = "mastered"

\* In every state of practice.
PracticeInvariant == PracticeTypeOK /\ NothingIsPassedOver /\ AnswersBelong /\ OneSessionOpen /\ PatchIsShown
=============================================================================
