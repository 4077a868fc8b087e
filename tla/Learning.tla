------------------------------ MODULE Learning ------------------------------
(***************************************************************************)
(* Answers and reviews of one knowledge point                              *)
(* (apps/api/src/modules/learning/routes.ts over                           *)
(* packages/database/src/repositories/sqlite/learning-repository.ts and    *)
(* packages/practice-review/src/answer.ts).  A request answers a question  *)
(* under an idempotency key or completes a review item.  Both read the     *)
(* knowledge point, compute the next practice state and write it back in   *)
(* later statements; the API process may die between any two of them.      *)
(***************************************************************************)
EXTENDS Integers, FiniteSets, FiniteSetsExt

CONSTANTS Request,    \* requests of the client, retries included
          Key,        \* idempotency keys of its answers
          MaxReviews, \* bound: review items ever inserted
          MaxAnswers  \* bound: right and wrong answers counted

ASSUME LearningAssumption == {MaxReviews, MaxAnswers} \subseteq Nat

VARIABLES answers,  \* question_attempts: judgement by key, or "none"
          known,    \* the practice state of the knowledge point
          reviews,  \* review_items in order of insertion
          request,  \* each request: where it is, what it asked, what it read
          reply     \* what each request was told

learningVars == <<answers, known, reviews, request, reply>>

Judgement == {"correct", "incorrect"}
Review == 1..MaxReviews
Practice == [right : 0..MaxAnswers, wrong : 0..MaxAnswers, streak : 0..MaxAnswers]
Blank == [right |-> 0, wrong |-> 0, streak |-> 0]
NoReview == [status |-> "none", days |-> 0, correct |-> "none", next |-> 0]
Idle == [at |-> "idle", key |-> "none", review |-> 0, judgement |-> "none", seen |-> Blank]
NoReply == [code |-> 0, next |-> 0]

LearningTypeOK ==
  /\ answers \in [Key -> Judgement \cup {"none"}]
  /\ known \in Practice
  /\ reviews \in [Review -> [status : {"none", "active", "completed"}, days : {0, 1, 2, 4, 8, 15},
                             correct : Judgement \cup {"none"}, next : 0..MaxReviews]]
  /\ request \in [Request -> [at : {"idle", "known", "write", "schedule", "insert", "complete", "replay", "done"},
                              key : Key \cup {"none"}, review : 0..MaxReviews,
                              judgement : Judgement \cup {"none"}, seen : Practice]]
  /\ reply \in [Request -> [code : {0, 200, 201, 404, 409, 500}, next : 0..MaxReviews]]

LearningInit ==
  /\ answers = [k \in Key |-> "none"]
  /\ known = Blank
  /\ reviews = [v \in Review |-> NoReview]
  /\ request = [r \in Request |-> Idle]
  /\ reply = [r \in Request |-> NoReply]

\* updateAfterAnswer: the counts and the streak of right answers.
After(practice, judgement) ==
  IF judgement = "correct"
    THEN [practice EXCEPT !.right = @ + 1, !.streak = @ + 1]
    ELSE [practice EXCEPT !.wrong = @ + 1, !.streak = 0]

\* getReviewIntervalDays, called with the streak after the answer.
Days(judgement, streak) ==
  IF judgement = "incorrect" \/ streak = 0 THEN 1
  ELSE IF streak <= 3 THEN <<2, 4, 8>>[streak] ELSE 15

Active == {v \in Review : reviews[v].status = "active"}
Unused == {v \in Review : reviews[v].status = "none"}
Fresh == Min(Unused)
Inserted(days) == [NoReview EXCEPT !.status = "active", !.days = days]
CanCount(practice) == practice.right < MaxAnswers /\ practice.wrong < MaxAnswers

Answered(r, code, next) ==
  /\ reply' = [reply EXCEPT ![r] = [code |-> code, next |-> next]]
  /\ request' = [request EXCEPT ![r] = [Idle EXCEPT !.at = "done", !.review = request[r].review,
                                                    !.judgement = request[r].judgement]]

AnswerGoes(r, at) == request' = [request EXCEPT ![r].at = at]

\* POST /v1/questions/:id/attempts: recordAttemptIdempotent finds the row of the
\* key or inserts it; a key that was there is answered without touching the rest.
Attempt(r, k, j) ==
  /\ request[r].at = "idle"
  /\ IF answers[k] # "none"
       THEN /\ reply' = [reply EXCEPT ![r] = [code |-> 200, next |-> 0]]
            /\ request' = [request EXCEPT ![r] = [Idle EXCEPT !.at = "done", !.key = k]]
            /\ UNCHANGED answers
       ELSE /\ answers' = [answers EXCEPT ![k] = j]
            /\ request' = [request EXCEPT ![r] = [Idle EXCEPT !.at = "known", !.key = k, !.judgement = j]]
            /\ UNCHANGED reply
  /\ UNCHANGED <<known, reviews>>

\* getKnowledgeItem, of an answer and of a completion.
ReadKnown(r) ==
  /\ request[r].at = "known"
  /\ CanCount(known)
  /\ request' = [request EXCEPT ![r].seen = known,
                                ![r].at = IF request[r].review = 0 THEN "write" ELSE "complete"]
  /\ UNCHANGED <<answers, known, reviews, reply>>

\* updatePracticeState writes absolute values computed from what was read.
WriteKnown(r) ==
  /\ request[r].at = "write"
  /\ known' = After(request[r].seen, request[r].judgement)
  /\ AnswerGoes(r, "schedule")
  /\ UNCHANGED <<answers, reviews, reply>>

DaysOf(r) == Days(request[r].judgement, After(request[r].seen, request[r].judgement).streak)

\* scheduleReviewItem moves the active item; without one it goes on to insert.
Schedule(r) ==
  /\ request[r].at = "schedule"
  /\ IF Active # {}
       THEN /\ reviews' = [v \in Review |-> IF v \in Active THEN [reviews[v] EXCEPT !.days = DaysOf(r)]
                                                            ELSE reviews[v]]
            /\ Answered(r, 201, 0)
       ELSE AnswerGoes(r, "insert") /\ UNCHANGED <<reviews, reply>>
  /\ UNCHANGED <<answers, known>>

\* createReviewItem: a second active item breaks the unique index and the request.
InsertReview(r) ==
  /\ request[r].at = "insert"
  /\ IF Active = {}
       THEN /\ Unused # {}
            /\ reviews' = [reviews EXCEPT ![Fresh] = Inserted(DaysOf(r))]
            /\ Answered(r, 201, 0)
       ELSE Answered(r, 500, 0) /\ UNCHANGED reviews
  /\ UNCHANGED <<answers, known>>

\* replayCompletion on a completed row: another judgement is refused, the same one
\* is told the review that was scheduled then.
Replay(r, v, j) ==
  IF reviews[v].correct # j THEN Answered(r, 409, 0) ELSE Answered(r, 200, reviews[v].next)

\* POST /v1/review-items/:id/complete: getReviewItem and the replay test.
AskComplete(r, v, j) ==
  /\ request[r].at = "idle"
  /\ reviews[v].status # "none"
  /\ request' = [request EXCEPT ![r] = [Idle EXCEPT !.review = v, !.judgement = j,
                   !.at = IF reviews[v].status = "completed" THEN "replay" ELSE "known"]]
  /\ UNCHANGED <<answers, known, reviews, reply>>

\* completeReviewAndSchedule, one transaction: completes the item if it is still
\* active, writes the practice state computed before, inserts the next item.
Complete(r) ==
  LET v == request[r].review IN
  /\ request[r].at = "complete"
  /\ IF reviews[v].status = "active"
       THEN /\ Unused # {}
            /\ reviews' = [reviews EXCEPT
                 ![v] = [@ EXCEPT !.status = "completed", !.correct = request[r].judgement, !.next = Fresh],
                 ![Fresh] = Inserted(DaysOf(r))]
            /\ known' = After(request[r].seen, request[r].judgement)
            /\ Answered(r, 200, Fresh)
       ELSE AnswerGoes(r, "replay") /\ UNCHANGED <<known, reviews, reply>>
  /\ UNCHANGED answers

ReplayCompleted(r) ==
  /\ request[r].at = "replay"
  /\ Replay(r, request[r].review, request[r].judgement)
  /\ UNCHANGED <<answers, known, reviews>>

\* The API process dies: requests under way end unanswered, rows stay.
ApiCrash ==
  /\ \E r \in Request : request[r].at \notin {"idle", "done"}
  /\ request' = [r \in Request |-> IF request[r].at \in {"idle", "done"} THEN request[r]
                                                          ELSE [Idle EXCEPT !.at = "done"]]
  /\ UNCHANGED <<answers, known, reviews, reply>>

LearningNext ==
  \/ \E r \in Request :
       \/ \E j \in Judgement : \/ \E k \in Key : Attempt(r, k, j)
                               \/ \E v \in Review : AskComplete(r, v, j)
       \/ ReadKnown(r) \/ WriteKnown(r) \/ Schedule(r) \/ InsertReview(r)
       \/ Complete(r) \/ ReplayCompleted(r)
  \/ ApiCrash

LearningSpec == LearningInit /\ [][LearningNext]_learningVars

-----------------------------------------------------------------------------
\* Whoever completes a review, first or again, at once with others or after a
\* restart, is told the one completion on record: the same judgement and the same
\* next item.  Two next items for one review are never told.
CompletedOnce ==
  \A r \in Request :
    reply[r].next # 0 =>
      /\ reviews[request[r].review].status = "completed"
      /\ reviews[request[r].review].correct = request[r].judgement
      /\ reviews[request[r].review].next = reply[r].next

\* At most one item of the knowledge point is active, and once an item was completed
\* exactly one is: a completion never leaves the point without its next review, and
\* answers that arrive meanwhile never add one of their own.
ReviewsGoOn ==
  /\ Cardinality(Active) <= 1
  /\ (\E v \in Review : reviews[v].status = "completed") => Active # {}

\* SRS.md:225: the next review follows the updated streak, 1 day without one.
IntervalFollowsStreak ==
  (\A r \in Request : request[r].at \in {"idle", "done"}) =>
    \A v \in Active : reviews[v].days = Days("correct", known.streak)

\* In every state: one answer per completion, and one next review.
LearningInvariant == LearningTypeOK /\ CompletedOnce /\ ReviewsGoOn

-----------------------------------------------------------------------------
\* Task checkboxes of a learning plan and the milestone chain they drive
\* (setPlanTaskStatus, createLearningPlan and archiveLearningPlan of the repository).
CONSTANTS Milestones, \* number of milestones of the plan
          Task,       \* tasks of the plan
          HomeOf      \* the milestone of a task

ASSUME PlanAssumption ==
  /\ Milestones \in Nat
  /\ HomeOf \in [Task -> 1..Milestones]

VARIABLES ticked,    \* plan_tasks with status done
          milestone, \* plan_milestones.status in order
          plan       \* learning_plans.status

planVars == <<ticked, milestone, plan>>

Place == 1..Milestones

PlanTypeOK ==
  /\ ticked \subseteq Task
  /\ milestone \in [Place -> {"active", "locked", "completed"}]
  /\ plan \in {"active", "archived"}

\* createLearningPlan: the first milestone is open, the others wait.
PlanInit ==
  /\ ticked = {}
  /\ milestone = [i \in Place |-> IF i = 1 THEN "active" ELSE "locked"]
  /\ plan = "active"

TasksOf(i) == {t \in Task : HomeOf[t] = i}

\* A milestone without tasks is never done.
AllDone(done, i) == TasksOf(i) # {} /\ TasksOf(i) \subseteq done

\* The pass over the chain after a change, in the transaction of the change.
Chain(done) ==
  [i \in Place |->
     IF \E j \in 1..(i-1) : ~AllDone(done, j) THEN "locked"
     ELSE IF AllDone(done, i) THEN "completed" ELSE "active"]

\* The plan's own status is not looked at: tasks of an archived plan still change.
SetTaskStatus(t, done) ==
  /\ ticked' = IF done THEN ticked \cup {t} ELSE ticked \ {t}
  /\ milestone' = Chain(ticked')
  /\ UNCHANGED plan

Archive ==
  /\ plan = "active"
  /\ plan' = "archived"
  /\ UNCHANGED <<ticked, milestone>>

PlanNext ==
  \/ \E t \in Task, done \in BOOLEAN : SetTaskStatus(t, done)
  \/ Archive

PlanSpec == PlanInit /\ [][PlanNext]_planVars

\* Whatever order tasks are ticked and unticked in, the stored statuses read
\* completed, then at most one active, then locked, and completed never outlives a
\* task that was taken back: the chain is rewritten as a whole on every change.
ChainHolds ==
  /\ \A i \in Place : milestone[i] = "completed" => AllDone(ticked, i)
  /\ \A i \in Place : milestone[i] # "locked" => \A j \in 1..(i-1) : milestone[j] = "completed"
  /\ \A i \in Place : milestone[i] = "locked" => \E j \in 1..(i-1) : milestone[j] = "active"

\* In every state of a plan.
PlanInvariant == PlanTypeOK /\ ChainHolds
=============================================================================
