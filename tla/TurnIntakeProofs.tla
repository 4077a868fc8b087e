-------------------------- MODULE TurnIntakeProofs --------------------------
(***************************************************************************)
(* The safety of the intake, for any set of commands, posts and executors, *)
(* any keys and targets and any number of crashes.  That a command is used *)
(* once rests on what a consumer holds before it has used it: such items   *)
(* were taken from "pending" by this consumer alone, and no row returns to *)
(* "pending".                                                              *)
(***************************************************************************)
EXTENDS TurnIntake, TLAPS

Status == {"absent", "pending", "claimed", "acknowledged", "expired"}
Taken  == {"claimed", "acknowledged", "expired"}
Job    == [pc : Place, batch : SUBSET Item, held : SUBSET Item]

(* What consumer c holds in job j and has not used yet: a post uses its    *)
(* items when it creates the Turn, an executor before it acknowledges.     *)
ToUseOf(c, j) ==
  {i \in j.held : j.pc \in {"claim", "use"} \/ (c \in Post /\ j.pc \in {"ack", "create"})}

ToUse(c) == ToUseOf(c, job[c])

(* What a job may go through: a post only items that address no attempt,   *)
(* an executor acknowledges only what it has used.                         *)
Proper(c, j, used) ==
  /\ c \in Post => \A i \in j.batch \cup j.held : Target(i) = "none"
  /\ c \in Executor /\ j.pc = "ack" => \A i \in j.batch : used[i] > 0

KeysUnique ==
  \A i, j \in Item : row[i] # "absent" /\ row[j] # "absent" /\ Key(i) = Key(j) => i = j

UsedIsTaken == \A i \in Item : uses[i] \in {0, 1} /\ (uses[i] > 0 => row[i] \in Taken)

HeldIsTaken == \A c \in Consumer : \A i \in ToUse(c) : uses[i] = 0 /\ row[i] \in Taken

HeldByOne == \A c, d \in Consumer : \A i \in ToUse(c) \cap ToUse(d) : c = d

JobsProper == \A c \in Consumer : Proper(c, job[c], uses)

IntakeInv ==
  /\ IntakeTypeOK /\ KeysUnique /\ UsedIsTaken /\ HeldIsTaken /\ HeldByOne
  /\ JobsProper /\ OneTurnPerKey /\ AcknowledgedWasUsed

-----------------------------------------------------------------------------
LEMMA InitInv == IntakeInit => IntakeInv
<1> SUFFICES ASSUME IntakeInit PROVE IntakeInv
  OBVIOUS
<1>1. IntakeTypeOK
  BY IntakeAssumption DEF IntakeInit, IntakeTypeOK, At, Place
<1>2. \A c \in Consumer : ToUse(c) = {}
  BY DEF IntakeInit, At, ToUse, ToUseOf
<1>3. JobsProper
  BY DEF IntakeInit, At, JobsProper, Proper
<1> QED
  BY <1>1, <1>2, <1>3 DEF IntakeInit, IntakeInv, KeysUnique, UsedIsTaken,
       HeldIsTaken, HeldByOne, OneTurnPerKey, AcknowledgedWasUsed

(* How rows may move: taken rows stay taken, no row appears or goes, and   *)
(* only what was used or addresses no attempt becomes acknowledged.        *)
RowsMove ==
  /\ row' \in [Item -> Status]
  /\ \A i \in Item : row[i] \in Taken => row'[i] \in Taken
  /\ \A i \in Item : row'[i] = "absent" <=> row[i] = "absent"
  /\ \A i \in Item : row'[i] = "acknowledged" /\ Target(i) # "none" =>
                       row[i] = "acknowledged" \/ uses[i] > 0

(* One consumer moves on without using anything; what it holds to use it   *)
(* held before or has just taken from "pending".                           *)
LEMMA ConsumerMoves ==
  ASSUME IntakeInv, NEW c \in Consumer, NEW j \in Job, Become(c, j), RowsMove,
         UNCHANGED <<arrived, overdue, command, turns, uses, sweep, crashes>>,
         \A i \in ToUseOf(c, j) : i \in ToUse(c) \/ (row[i] = "pending" /\ row'[i] = "claimed"),
         Proper(c, j, uses)
  PROVE  IntakeInv'
<1>1. IntakeTypeOK'
  BY DEF IntakeInv, IntakeTypeOK, Become, RowsMove, Status, Job
<1>2. job'[c] = j /\ \A d \in Consumer : d # c => job'[d] = job[d]
  BY DEF IntakeInv, IntakeTypeOK, Become
<1>3. /\ \A d \in Consumer : d # c => ToUse(d)' = ToUse(d)
      /\ ToUse(c)' = ToUseOf(c, j)
  BY <1>2 DEF ToUse
<1>4. \A d \in Consumer : ToUse(d) \subseteq Item
  BY DEF IntakeInv, IntakeTypeOK, ToUse, ToUseOf
<1>5. ToUseOf(c, j) \subseteq Item
  BY DEF Job, ToUseOf
<1>6. \A d \in Consumer : \A i \in ToUse(d) : row[i] # "pending"
  BY DEF IntakeInv, HeldIsTaken, Taken
<1>7. \A i \in Item : row[i] = "pending" => uses[i] = 0
  BY DEF IntakeInv, UsedIsTaken, Taken
<1>8. HeldIsTaken'
  <2> SUFFICES ASSUME NEW d \in Consumer, NEW i \in ToUse(d)'
               PROVE  uses'[i] = 0 /\ row'[i] \in Taken
    BY DEF HeldIsTaken
  <2>1. CASE i \in ToUse(d)
    BY <2>1, <1>4 DEF IntakeInv, HeldIsTaken, RowsMove
  <2>2. CASE i \notin ToUse(d)
    BY <2>2, <1>3, <1>5, <1>7 DEF Taken
  <2> QED
    BY <2>1, <2>2
<1>9. HeldByOne'
  <2> SUFFICES ASSUME NEW d \in Consumer, NEW e \in Consumer, d # e,
                      NEW i, i \in ToUse(d)', i \in ToUse(e)'
               PROVE  FALSE
    BY DEF HeldByOne
  <2>1. CASE i \in ToUse(d) /\ i \in ToUse(e)
    BY <2>1 DEF IntakeInv, HeldByOne
  <2>2. CASE i \notin ToUse(d)
    BY <2>2, <1>3, <1>6
  <2>3. CASE i \notin ToUse(e)
    BY <2>3, <1>3, <1>6
  <2> QED
    BY <2>1, <2>2, <2>3
<1>10. JobsProper'
  BY <1>2 DEF IntakeInv, JobsProper, Proper
<1>11. KeysUnique' /\ UsedIsTaken' /\ OneTurnPerKey' /\ AcknowledgedWasUsed'
  BY DEF IntakeInv, KeysUnique, UsedIsTaken, OneTurnPerKey, AcknowledgedWasUsed, RowsMove
<1> QED
  BY <1>1, <1>8, <1>9, <1>10, <1>11 DEF IntakeInv

(* No consumer moves. *)
LEMMA RowsMoveOnly ==
  ASSUME IntakeInv, RowsMove, IntakeTypeOK', UNCHANGED <<job, turns, uses>>
  PROVE  IntakeInv'
<1>1. \A d \in Consumer : ToUse(d)' = ToUse(d) /\ ToUse(d) \subseteq Item
  BY DEF IntakeInv, IntakeTypeOK, ToUse, ToUseOf
<1>2. HeldIsTaken' /\ HeldByOne'
  BY <1>1 DEF IntakeInv, HeldIsTaken, HeldByOne, RowsMove
<1>3. JobsProper'
  BY DEF IntakeInv, JobsProper
<1>4. KeysUnique' /\ UsedIsTaken' /\ OneTurnPerKey' /\ AcknowledgedWasUsed'
  BY DEF IntakeInv, KeysUnique, UsedIsTaken, OneTurnPerKey, AcknowledgedWasUsed, RowsMove
<1> QED
  BY <1>2, <1>3, <1>4 DEF IntakeInv

(* One consumer uses all it holds and holds nothing to use any more. *)
LEMMA ConsumerUses ==
  ASSUME IntakeInv, NEW c \in Consumer, NEW j \in Job, Become(c, j),
         ToUse(c) = job[c].held, ToUseOf(c, j) = {},
         uses' = UsedBy(c), Proper(c, j, uses'),
         turns' \in SUBSET Post, OneTurnPerKey',
         UNCHANGED <<arrived, row, overdue, command, sweep, crashes>>
  PROVE  IntakeInv'
<1>1. job'[c] = j /\ \A d \in Consumer : d # c => job'[d] = job[d]
  BY DEF IntakeInv, IntakeTypeOK, Become
<1>2. /\ \A d \in Consumer : d # c => ToUse(d)' = ToUse(d)
      /\ ToUse(c)' = {}
  BY <1>1 DEF ToUse
<1>3. \A i \in Item : /\ i \in ToUse(c) => uses'[i] = uses[i] + 1
                      /\ i \notin ToUse(c) => uses'[i] = uses[i]
  BY DEF UsedBy
<1>4. \A d \in Consumer : ToUse(d) \subseteq Item
  BY DEF IntakeInv, IntakeTypeOK, ToUse, ToUseOf
<1>5. UsedIsTaken'
  <2> SUFFICES ASSUME NEW i \in Item
               PROVE  uses'[i] \in {0, 1} /\ (uses'[i] > 0 => row'[i] \in Taken)
    BY DEF UsedIsTaken
  <2>1. CASE i \in ToUse(c)
    <3>1. uses[i] = 0 /\ row[i] \in Taken
      BY <2>1 DEF IntakeInv, HeldIsTaken
    <3> QED
      BY <3>1, <2>1, <1>3
  <2>2. CASE i \notin ToUse(c)
    BY <2>2, <1>3 DEF IntakeInv, UsedIsTaken
  <2> QED
    BY <2>1, <2>2
<1>6. IntakeTypeOK'
  <2>1. uses' \in [Item -> Nat]
    BY DEF IntakeInv, IntakeTypeOK, UsedBy
  <2>2. job' \in [Consumer -> Job]
    BY DEF IntakeInv, IntakeTypeOK, Become, Job
  <2> QED
    BY <2>1, <2>2 DEF IntakeInv, IntakeTypeOK, Job
<1>7. \A i \in Item : uses[i] > 0 => uses'[i] > 0
  BY <1>3 DEF IntakeInv, IntakeTypeOK
<1>8. HeldIsTaken'
  <2> SUFFICES ASSUME NEW d \in Consumer, NEW i \in ToUse(d)'
               PROVE  uses'[i] = 0 /\ row'[i] \in Taken
    BY DEF HeldIsTaken
  <2>1. d # c /\ i \in ToUse(d) /\ i \in Item
    BY <1>2, <1>4
  <2>2. i \notin ToUse(c)
    BY <2>1 DEF IntakeInv, HeldByOne
  <2> QED
    BY <2>1, <2>2, <1>3 DEF IntakeInv, HeldIsTaken
<1>9. HeldByOne'
  BY <1>2 DEF IntakeInv, HeldByOne
<1>10. JobsProper'
  <2> SUFFICES ASSUME NEW d \in Consumer PROVE Proper(d, job'[d], uses')
    BY DEF JobsProper
  <2>1. CASE d = c
    BY <2>1, <1>1
  <2>2. CASE d # c
    BY <2>2, <1>1, <1>7 DEF IntakeInv, JobsProper, Proper, IntakeTypeOK
  <2> QED
    BY <2>1, <2>2
<1>11. KeysUnique'
  BY DEF IntakeInv, KeysUnique
<1>12. AcknowledgedWasUsed'
  BY <1>7 DEF IntakeInv, AcknowledgedWasUsed
<1> QED
  BY <1>5, <1>6, <1>8, <1>9, <1>10, <1>11, <1>12 DEF IntakeInv

-----------------------------------------------------------------------------
(* The job that Claiming leads to. *)
Reached(c, j, batch, held) ==
  /\ j \in Job /\ j.batch \subseteq batch \cup held
  /\ j.held \subseteq held
  /\ c \in Executor => j.pc # "ack"

LEMMA ClaimingJob ==
  ASSUME NEW c \in Consumer, NEW batch \in SUBSET Item, NEW held \in SUBSET Item
  PROVE  Reached(c, Claiming(c, batch, held), batch, held)
BY IntakeAssumption DEF Claiming, AfterClaim, At, Job, Place, Reached

LEMMA RowsUnchanged == ASSUME IntakeInv, UNCHANGED row PROVE RowsMove
BY DEF IntakeInv, IntakeTypeOK, RowsMove, Status

LEMMA AtJob ==
  ASSUME NEW place \in Place, NEW c
  PROVE  At(place) \in Job /\ ToUseOf(c, At(place)) = {} /\ Proper(c, At(place), uses)
BY DEF At, Job, ToUseOf, Proper

LEMMA SelectInv == ASSUME IntakeInv, NEW c \in Consumer, Select(c) PROVE IntakeInv'
<1> DEFINE j == Claiming(c, Batch(c), {})
<1>1. Batch(c) \subseteq Item /\ \A i \in Batch(c) : c \in Post => Target(i) = "none"
  BY DEF Batch, Window, Eligible, Boundary, Consumes
<1>2. /\ j \in Job /\ j.batch \subseteq Batch(c) /\ j.held = {}
      /\ c \in Executor => j.pc # "ack"
  <2>1. Reached(c, j, Batch(c), {})
    BY <1>1, ClaimingJob
  <2> HIDE DEF j
  <2> QED
    BY <2>1 DEF Reached
<1>3. Proper(c, j, uses)
  BY <1>1, <1>2 DEF Proper
<1>4. ToUseOf(c, j) = {}
  BY <1>2 DEF ToUseOf
<1> HIDE DEF j
<1>5. Become(c, j)
  BY DEF Select, j
<1> QED
  BY <1>2, <1>3, <1>4, <1>5, ConsumerMoves, RowsUnchanged DEF Select, rowVars

LEMMA ClaimInv == ASSUME IntakeInv, NEW c \in Consumer, Claim(c) PROVE IntakeInv'
<1>1. PICK i \in Item :
        /\ Doing(c, "claim") /\ NextOf(c, i)
        /\ \/ /\ row[i] = "pending"
              /\ row' = [row EXCEPT ![i] = "claimed"]
              /\ Become(c, Claiming(c, job[c].batch \ {i}, job[c].held \cup {i}))
           \/ /\ row[i] # "pending"
              /\ Become(c, Claiming(c, job[c].batch \ {i}, job[c].held))
              /\ UNCHANGED row
        /\ UNCHANGED <<arrived, overdue, command, turns, uses, sweep, crashes>>
  BY DEF Claim
<1>2. job[c].batch \in SUBSET Item /\ job[c].held \in SUBSET Item
  BY DEF IntakeInv, IntakeTypeOK
<1>3. i \in job[c].batch
  BY <1>1 DEF NextOf
<1>4. ToUse(c) = job[c].held
  BY <1>1 DEF Doing, ToUse, ToUseOf
<1>5. c \in Post => \A k \in job[c].batch \cup job[c].held : Target(k) = "none"
  BY DEF IntakeInv, JobsProper, Proper
<1>6. CASE row[i] = "pending"
  <2> DEFINE j == Claiming(c, job[c].batch \ {i}, job[c].held \cup {i})
  <2>1. /\ j \in Job /\ j.batch \subseteq job[c].batch \cup job[c].held
        /\ j.held \subseteq job[c].held \cup {i}
        /\ c \in Executor => j.pc # "ack"
    <3>1. Reached(c, j, job[c].batch \ {i}, job[c].held \cup {i})
      <4>1. job[c].batch \ {i} \in SUBSET Item /\ job[c].held \cup {i} \in SUBSET Item
        BY <1>2
      <4> QED
        BY <4>1, ClaimingJob
    <3> HIDE DEF j
    <3> QED
      BY <3>1, <1>3 DEF Reached
  <2>2. Become(c, j) /\ row' = [row EXCEPT ![i] = "claimed"]
    BY <1>1, <1>6
  <2> HIDE DEF j
  <2>3. Proper(c, j, uses)
    BY <2>1, <1>3, <1>5 DEF Proper
  <2>4. row'[i] = "claimed" /\ \A k \in Item : k # i => row'[k] = row[k]
    BY <2>2 DEF IntakeInv, IntakeTypeOK
  <2>5. RowsMove
    BY <1>6, <2>2, <2>4 DEF IntakeInv, IntakeTypeOK, RowsMove, Status, Taken
  <2>6. \A k \in ToUseOf(c, j) : k \in ToUse(c) \/ (row[k] = "pending" /\ row'[k] = "claimed")
    BY <1>4, <1>6, <2>1, <2>4 DEF ToUseOf
  <2> QED
    BY <1>1, <2>1, <2>2, <2>3, <2>5, <2>6, ConsumerMoves
<1>7. CASE row[i] # "pending"
  <2> DEFINE j == Claiming(c, job[c].batch \ {i}, job[c].held)
  <2>1. /\ j \in Job /\ j.batch \subseteq job[c].batch \cup job[c].held
        /\ j.held \subseteq job[c].held
        /\ c \in Executor => j.pc # "ack"
    <3>1. Reached(c, j, job[c].batch \ {i}, job[c].held)
      <4>1. job[c].batch \ {i} \in SUBSET Item
        BY <1>2
      <4> QED
        BY <4>1, <1>2, ClaimingJob
    <3> HIDE DEF j
    <3> QED
      BY <3>1 DEF Reached
  <2>2. Become(c, j) /\ UNCHANGED row
    BY <1>1, <1>7
  <2> HIDE DEF j
  <2>3. Proper(c, j, uses)
    BY <2>1, <1>5 DEF Proper
  <2>4. ToUseOf(c, j) \subseteq ToUse(c)
    BY <1>4, <2>1 DEF ToUseOf
  <2> QED
    BY <1>1, <2>1, <2>2, <2>3, <2>4, ConsumerMoves, RowsUnchanged
<1> QED
  BY <1>6, <1>7

LEMMA BuildInv == ASSUME IntakeInv, NEW x \in Executor, Build(x) PROVE IntakeInv'
<1> DEFINE j == [pc |-> "ack", batch |-> job[x].held, held |-> job[x].held]
<1>0. x \in Consumer /\ x \notin Post /\ job[x].pc = "use"
  BY IntakeAssumption DEF Consumer, Build, Doing
<1>1. j \in Job /\ j.batch = job[x].held
  BY <1>0 DEF IntakeInv, IntakeTypeOK, Job, Place
<1>2. ToUseOf(x, j) = {} /\ ToUse(x) = job[x].held
  BY <1>0 DEF ToUse, ToUseOf
<1>3. Become(x, j)
  BY DEF Build
<1> HIDE DEF j
<1>4. Proper(x, j, uses')
  BY <1>0, <1>1 DEF Build, UsedBy, Proper, IntakeInv, IntakeTypeOK
<1>5. turns' \in SUBSET Post /\ OneTurnPerKey'
  BY DEF Build, IntakeInv, IntakeTypeOK, OneTurnPerKey
<1> QED
  BY <1>0, <1>1, <1>2, <1>3, <1>4, <1>5, ConsumerUses DEF Build, rowVars

LEMMA AcknowledgeInv == ASSUME IntakeInv, NEW c \in Consumer, Acknowledge(c) PROVE IntakeInv'
<1>1. PICK i \in Item :
        /\ Doing(c, "ack") /\ NextOf(c, i)
        /\ row' = [row EXCEPT ![i] = IF @ = "claimed" THEN "acknowledged" ELSE @]
        /\ Become(c, AfterAck(c, job[c].batch \ {i}))
        /\ UNCHANGED <<arrived, overdue, command, turns, uses, sweep, crashes>>
  BY DEF Acknowledge
<1> DEFINE j == AfterAck(c, job[c].batch \ {i})
<1>2. job[c].batch \in SUBSET Item /\ job[c].held \in SUBSET Item /\ job[c].pc = "ack"
  BY <1>1 DEF IntakeInv, IntakeTypeOK, Doing
<1>3. /\ j \in Job /\ j.batch \subseteq job[c].batch /\ j.held \subseteq job[c].held
      /\ j.pc \in {"ack", "idle", "create"} /\ (c \in Executor => j.pc # "create")
  BY <1>2 DEF AfterAck, At, Job, Place
<1>4. Become(c, j)
  BY <1>1
<1> HIDE DEF j
<1>5. Proper(c, job[c], uses)
  BY DEF IntakeInv, JobsProper
<1>6. Proper(c, j, uses)
  BY <1>2, <1>3, <1>5 DEF Proper
<1>7. ToUseOf(c, j) \subseteq ToUse(c)
  BY <1>2, <1>3 DEF ToUse, ToUseOf, Consumer
<1>8. i \in job[c].batch
  BY <1>1 DEF NextOf
<1>9. Target(i) # "none" => uses[i] > 0
  BY <1>2, <1>5, <1>8 DEF Proper, Consumer
<1>10. RowsMove
  BY <1>1, <1>9 DEF IntakeInv, IntakeTypeOK, RowsMove, Status, Taken
<1> QED
  BY <1>1, <1>3, <1>4, <1>6, <1>7, <1>10, ConsumerMoves

(* A post that stops holding anything: it looks up, fails, or ends. *)
LEMMA PostMoves ==
  ASSUME IntakeInv, NEW p \in Post, NEW place \in Place, Become(p, At(place)),
         UNCHANGED <<rowVars, overdue, command, turns, uses, sweep, crashes>>
  PROVE  IntakeInv'
<1>1. p \in Consumer
  BY DEF Consumer
<1> QED
  BY <1>1, AtJob, RowsUnchanged, ConsumerMoves DEF rowVars

LEMMA LookUpTurnInv == ASSUME IntakeInv, NEW p \in Post, LookUpTurn(p) PROVE IntakeInv'
<1>1. "over" \in Place /\ "select" \in Place
  BY DEF Place
<1> QED
  BY <1>1, PostMoves DEF LookUpTurn

LEMMA CreateAttemptInv == ASSUME IntakeInv, NEW p \in Post, CreateAttempt(p) PROVE IntakeInv'
<1>1. "over" \in Place
  BY DEF Place
<1> QED
  BY <1>1, PostMoves DEF CreateAttempt

LEMMA CreateInv == ASSUME IntakeInv, NEW p \in Post, Create(p) PROVE IntakeInv'
<1>0. p \in Consumer /\ "over" \in Place /\ "created" \in Place
  BY DEF Consumer, Place
<1>1. CASE TurnExists(p)
  BY <1>0, <1>1, PostMoves DEF Create, rowVars
<1>2. CASE ~TurnExists(p)
  <2>1. ToUse(p) = job[p].held
    BY DEF Create, Doing, ToUse, ToUseOf
  <2>2. At("created") \in Job /\ ToUseOf(p, At("created")) = {}
    BY <1>0, AtJob
  <2>3. Proper(p, At("created"), uses')
    BY DEF At, Proper
  <2>4. turns' = turns \cup {p}
    BY <1>2 DEF Create
  <2>5. turns' \in SUBSET Post /\ OneTurnPerKey'
    BY <1>2, <2>4 DEF IntakeInv, IntakeTypeOK, OneTurnPerKey, TurnExists
  <2> QED
    BY <1>0, <1>2, <2>1, <2>2, <2>3, <2>5, ConsumerUses DEF Create, rowVars
<1> QED
  BY <1>1, <1>2

-----------------------------------------------------------------------------
LEMMA LookUpCommandInv == ASSUME IntakeInv, NEW i \in Item, LookUpCommand(i) PROVE IntakeInv'
<1>1. IntakeTypeOK'
  BY DEF IntakeInv, IntakeTypeOK, LookUpCommand, rowVars
<1> QED
  BY <1>1, RowsUnchanged, RowsMoveOnly DEF LookUpCommand, rowVars

(* The new row has a key that no other row has, and nobody holds it. *)
LEMMA EnqueueInv == ASSUME IntakeInv, NEW i \in Item, Enqueue(i) PROVE IntakeInv'
<1>1. command' \in [Item -> {"new", "checked", "done"}]
  BY DEF IntakeInv, IntakeTypeOK, Enqueue
<1>2. CASE Known(i)
  <2>1. UNCHANGED <<arrived, row, overdue, job, turns, uses, sweep, crashes>>
    BY <1>2 DEF Enqueue, rowVars
  <2>2. IntakeTypeOK'
    BY <1>1, <2>1 DEF IntakeInv, IntakeTypeOK
  <2> QED
    BY <2>1, <2>2, RowsUnchanged, RowsMoveOnly
<1>3. CASE ~Known(i)
  <2>1. /\ arrived' = Append(arrived, i) /\ row' = [row EXCEPT ![i] = "pending"]
        /\ UNCHANGED <<overdue, job, turns, uses, sweep, crashes>>
    BY <1>3 DEF Enqueue
  <2>2. \A j \in Item : row[j] # "absent" => Key(j) # Key(i)
    BY <1>3 DEF Known
  <2>3. row'[i] = "pending" /\ \A j \in Item : j # i => row'[j] = row[j]
    BY <2>1 DEF IntakeInv, IntakeTypeOK
  <2>4. row[i] = "absent"
    BY <2>2
  <2>5. IntakeTypeOK'
    <3>1. arrived' \in Seq(Item)
      BY <2>1 DEF IntakeInv, IntakeTypeOK
    <3>2. row' \in [Item -> {"absent", "pending", "claimed", "acknowledged", "expired"}]
      BY <2>1 DEF IntakeInv, IntakeTypeOK
    <3> QED
      BY <1>1, <2>1, <3>1, <3>2 DEF IntakeInv, IntakeTypeOK
  <2>6. KeysUnique'
    BY <2>2, <2>3, <2>4 DEF IntakeInv, KeysUnique
  <2>7. UsedIsTaken'
    BY <2>1, <2>3, <2>4 DEF IntakeInv, UsedIsTaken, Taken
  <2>8. \A c \in Consumer : ToUse(c)' = ToUse(c) /\ ToUse(c) \subseteq Item
    BY <2>1 DEF IntakeInv, IntakeTypeOK, ToUse, ToUseOf
  <2>9. HeldIsTaken' /\ HeldByOne'
    BY <2>1, <2>3, <2>4, <2>8 DEF IntakeInv, HeldIsTaken, HeldByOne, Taken
  <2>10. JobsProper' /\ OneTurnPerKey'
    BY <2>1 DEF IntakeInv, JobsProper, OneTurnPerKey
  <2>11. AcknowledgedWasUsed'
    BY <2>1, <2>3 DEF IntakeInv, AcknowledgedWasUsed
  <2> QED
    BY <2>5, <2>6, <2>7, <2>9, <2>10, <2>11 DEF IntakeInv
<1> QED
  BY <1>2, <1>3

LEMMA TimePassesInv == ASSUME IntakeInv, NEW i \in Item, TimePasses(i) PROVE IntakeInv'
<1>1. IntakeTypeOK'
  BY DEF IntakeInv, IntakeTypeOK, TimePasses, rowVars
<1> QED
  BY <1>1, RowsUnchanged, RowsMoveOnly DEF TimePasses, rowVars

LEMMA SweepInv == ASSUME IntakeInv, Sweep PROVE IntakeInv'
<1>1. CASE SweepSelect
  <2>1. IntakeTypeOK'
    BY <1>1 DEF IntakeInv, IntakeTypeOK, SweepSelect, SweepSelectOf, OverdueRows, rowVars
  <2> QED
    BY <1>1, <2>1, RowsUnchanged, RowsMoveOnly DEF SweepSelect, SweepSelectOf, rowVars
<1>2. CASE SweepUpdate
  <2>1. \A i \in Item :
          row'[i] = IF i \in sweep /\ row[i] \in Open THEN "expired" ELSE row[i]
    BY <1>2 DEF SweepUpdate
  <2>2. row' \in [Item -> Status]
    BY <1>2 DEF SweepUpdate, IntakeInv, IntakeTypeOK, Status
  <2>3. RowsMove
    BY <2>1, <2>2 DEF RowsMove, Open, Taken
  <2>4. IntakeTypeOK'
    BY <1>2, <2>2 DEF SweepUpdate, IntakeInv, IntakeTypeOK, Status
  <2> QED
    BY <1>2, <2>3, <2>4, RowsMoveOnly DEF SweepUpdate
<1> QED
  BY <1>1, <1>2 DEF Sweep

LEMMA AbandonInv == ASSUME IntakeInv, NEW gone \in SUBSET Consumer, Abandon(gone) PROVE IntakeInv'
<1>1. \A c \in Consumer : job'[c] = job[c] \/ \E place \in {"over", "idle"} : job'[c] = At(place)
  BY DEF Abandon
<1>2. \A c \in Consumer : ToUse(c)' \subseteq ToUse(c)
  BY <1>1 DEF ToUse, ToUseOf, At
<1>3. IntakeTypeOK'
  <2>1. job' \in [Consumer -> Job]
    BY DEF Abandon, IntakeInv, IntakeTypeOK, Job, At, Place
  <2>2. crashes' \in 0..MaxCrash
    BY IntakeAssumption DEF Abandon, IntakeInv, IntakeTypeOK
  <2> QED
    BY <2>1, <2>2 DEF Abandon, IntakeInv, IntakeTypeOK, Job, rowVars
<1>4. HeldIsTaken' /\ HeldByOne'
  BY <1>2 DEF Abandon, IntakeInv, HeldIsTaken, HeldByOne, rowVars
<1>5. JobsProper'
  <2> SUFFICES ASSUME NEW c \in Consumer PROVE Proper(c, job'[c], uses)
    BY DEF JobsProper, Abandon
  <2>1. CASE job'[c] = job[c]
    BY <2>1 DEF IntakeInv, JobsProper
  <2>2. CASE \E place \in {"over", "idle"} : job'[c] = At(place)
    BY <2>2 DEF Proper, At
  <2> QED
    BY <1>1, <2>1, <2>2
<1>6. KeysUnique' /\ UsedIsTaken' /\ OneTurnPerKey' /\ AcknowledgedWasUsed'
  BY DEF Abandon, IntakeInv, KeysUnique, UsedIsTaken, OneTurnPerKey, AcknowledgedWasUsed, rowVars
<1> QED
  BY <1>3, <1>4, <1>5, <1>6 DEF IntakeInv

LEMMA NextInv == IntakeInv /\ [IntakeNext]_intakeVars => IntakeInv'
<1> SUFFICES ASSUME IntakeInv, [IntakeNext]_intakeVars PROVE IntakeInv'
  OBVIOUS
<1>1. CASE \E i \in Item : LookUpCommand(i) \/ Enqueue(i) \/ TimePasses(i)
  BY <1>1, LookUpCommandInv, EnqueueInv, TimePassesInv
<1>2. CASE \E c \in Consumer : Select(c) \/ Claim(c) \/ Acknowledge(c)
  BY <1>2, SelectInv, ClaimInv, AcknowledgeInv
<1>3. CASE \E x \in Executor : Build(x)
  BY <1>3, BuildInv
<1>4. CASE \E p \in Post : LookUpTurn(p) \/ Create(p) \/ CreateAttempt(p)
  BY <1>4, LookUpTurnInv, CreateInv, CreateAttemptInv
<1>5. CASE \E gone \in SUBSET Consumer : Abandon(gone)
  BY <1>5, AbandonInv
<1>6. CASE Sweep
  BY <1>6, SweepInv
<1>7. CASE UNCHANGED intakeVars
  <2>1. IntakeTypeOK'
    BY <1>7 DEF IntakeInv, IntakeTypeOK, intakeVars
  <2> QED
    BY <1>7, <2>1, RowsUnchanged, RowsMoveOnly DEF intakeVars
<1> QED
  BY <1>1, <1>2, <1>3, <1>4, <1>5, <1>6, <1>7 DEF IntakeNext

THEOREM IntakeInvariant == IntakeSpec => []IntakeInv
BY InitInv, NextInv, PTL DEF IntakeSpec

-----------------------------------------------------------------------------
(* The variables of the intake keep their types. *)
THEOREM IntakeTyped == IntakeSpec => []IntakeTypeOK
<1>1. IntakeInv => IntakeTypeOK
  BY DEF IntakeInv
<1> QED
  BY <1>1, IntakeInvariant, PTL

(* A command is used once, whoever else was sent under its key: rows have  *)
(* different keys, and what was used has a row.                            *)
THEOREM UsedOnce == IntakeSpec => []CommandUsedOnce
<1>1. ASSUME IntakeInv PROVE CommandUsedOnce
  <2> SUFFICES ASSUME NEW i \in Item, NEW j \in Item, uses[i] > 0, Key(i) = Key(j)
               PROVE  uses[i] = 1 /\ (i = j \/ uses[j] = 0)
    BY DEF CommandUsedOnce
  <2>1. uses[i] = 1 /\ row[i] # "absent"
    BY <1>1 DEF IntakeInv, UsedIsTaken, Taken
  <2>2. uses[j] = 0 \/ row[j] # "absent"
    BY <1>1 DEF IntakeInv, UsedIsTaken, Taken
  <2> QED
    BY <1>1, <2>1, <2>2 DEF IntakeInv, KeysUnique
<1>2. IntakeInv => CommandUsedOnce
  BY <1>1
<1> QED
  BY <1>2, IntakeInvariant, PTL

(* One key makes one Turn. *)
THEOREM OneTurn == IntakeSpec => []OneTurnPerKey
<1>1. IntakeInv => OneTurnPerKey
  BY DEF IntakeInv
<1> QED
  BY <1>1, IntakeInvariant, PTL

(* A steering item is acknowledged only after it was used. *)
THEOREM AcknowledgedAfterUse == IntakeSpec => []AcknowledgedWasUsed
<1>1. IntakeInv => AcknowledgedWasUsed
  BY DEF IntakeInv
<1> QED
  BY <1>1, IntakeInvariant, PTL

(* A settled row stays as it is: claims and the sweep ask for an open row, *)
(* and an insert is of a key, hence of a row, that is not there.           *)
THEOREM SettledStays == IntakeSpec => SettledOnce
<1> DEFINE Kept == \A i \in Item : row[i] \in {"acknowledged", "expired"} => row'[i] = row[i]
<1>1. ASSUME IntakeInv, [IntakeNext]_intakeVars PROVE Kept
  <2>1. CASE UNCHANGED row
    BY <2>1
  <2>2. ASSUME NEW i \in Item, Enqueue(i) PROVE Kept
    <3>1. ~Known(i) => row[i] = "absent"
      BY DEF Known
    <3> QED
      BY <1>1, <2>2, <3>1 DEF Enqueue, rowVars, IntakeInv, IntakeTypeOK
  <2>3. ASSUME NEW c \in Consumer, Claim(c) PROVE Kept
    BY <1>1, <2>3 DEF Claim, IntakeInv, IntakeTypeOK
  <2>4. ASSUME NEW c \in Consumer, Acknowledge(c) PROVE Kept
    BY <1>1, <2>4 DEF Acknowledge, IntakeInv, IntakeTypeOK
  <2>5. CASE SweepUpdate
    BY <2>5 DEF SweepUpdate, Open
  <2> HIDE DEF Kept
  <2>6. ASSUME NEW i \in Item, LookUpCommand(i) \/ TimePasses(i) PROVE Kept
    BY <2>1, <2>6 DEF LookUpCommand, TimePasses, rowVars
  <2>7. ASSUME NEW c \in Consumer, Select(c) PROVE Kept
    BY <2>1, <2>7 DEF Select, rowVars
  <2>8. ASSUME NEW x \in Executor, Build(x) PROVE Kept
    BY <2>1, <2>8 DEF Build, rowVars
  <2>9. ASSUME NEW p \in Post, LookUpTurn(p) \/ Create(p) \/ CreateAttempt(p) PROVE Kept
    BY <2>1, <2>9 DEF LookUpTurn, Create, CreateAttempt, rowVars
  <2>10. ASSUME NEW gone \in SUBSET Consumer, Abandon(gone) PROVE Kept
    BY <2>1, <2>10 DEF Abandon, rowVars
  <2>11. CASE SweepSelect
    BY <2>1, <2>11 DEF SweepSelect, SweepSelectOf, rowVars
  <2>12. CASE UNCHANGED intakeVars
    BY <2>1, <2>12 DEF intakeVars
  <2> QED
    BY <1>1, <2>2, <2>3, <2>4, <2>5, <2>6, <2>7, <2>8, <2>9, <2>10, <2>11, <2>12
       DEF IntakeNext, Sweep
<1>2. IntakeInv /\ [IntakeNext]_intakeVars => [Kept]_intakeVars
  BY <1>1
<1> QED
  BY <1>2, IntakeInvariant, PTL DEF IntakeSpec, SettledOnce
=============================================================================
