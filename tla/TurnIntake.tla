----------------------------- MODULE TurnIntake -----------------------------
(***************************************************************************)
(* How input reaches a Turn: commands put into the agent's inbox (POST     *)
(* /v1/sessions/{id}/inbox), turns posted by the client (POST              *)
(* /v1/sessions/{id}/turns), which take the followups waiting for a new    *)
(* Turn, executors, which take the steering items of their attempt at      *)
(* every step, and the worker's sweep of overdue items.  They share the    *)
(* rows of agent_inbox_items and interleave at every statement.            *)
(***************************************************************************)
EXTENDS Naturals, Sequences, FiniteSets

CONSTANTS
  Item,        \* commands posted to the inbox, each with a row id of its own
  Post,        \* turns posted; they and the executors consume items
  Executor,    \* executors; one that lost its lease may not know it yet
  Runs(_),     \* the attempt an executor runs
  Key(_),      \* the Idempotency-Key of a command or of a post
  Target(_),   \* the attempt of a next-step item, "none" for a next-turn item
  Expiring,    \* the items that have an expires_at
  Limit,       \* rows of one claim (20)
  SweepLimit,  \* rows of one sweep (200)
  MaxCrash     \* bound: abandoned requests and executions

ASSUME IntakeAssumption ==
  /\ Post \cap Executor = {}
  /\ Expiring \subseteq Item
  /\ Limit \in Nat \ {0} /\ SweepLimit \in Nat \ {0} /\ MaxCrash \in Nat

VARIABLES
  arrived,  \* the rows of agent_inbox_items, in order of created_at
  row,      \* their status, "absent" before the insert
  overdue,  \* whether expires_at is in the past
  command,  \* the handler of each inbox command
  job,      \* the handler of each post, the step of each executor
  turns,    \* posts that created a Turn
  uses,     \* how often an item became part of a Turn's or a step's input
  sweep,    \* ids the sweep has selected
  crashes

rowVars    == <<arrived, row>>
intakeVars == <<arrived, row, overdue, command, job, turns, uses, sweep, crashes>>

Consumer == Post \cup Executor

Place == {"idle", "claim", "use", "ack", "select", "create", "created", "over"}

IntakeTypeOK ==
  /\ arrived \in Seq(Item)
  /\ row \in [Item -> {"absent", "pending", "claimed", "acknowledged", "expired"}]
  /\ overdue \in [Item -> BOOLEAN]
  /\ command \in [Item -> {"new", "checked", "done"}]
  /\ job \in [Consumer -> [pc : Place, batch : SUBSET Item, held : SUBSET Item]]
  /\ turns \in SUBSET Post
  /\ uses \in [Item -> Nat]
  /\ sweep \in SUBSET Item
  /\ crashes \in 0..MaxCrash

At(place) == [pc |-> place, batch |-> {}, held |-> {}]

IntakeInit ==
  /\ arrived = <<>>
  /\ row = [i \in Item |-> "absent"]
  /\ overdue = [i \in Item |-> FALSE]
  /\ command = [i \in Item |-> "new"]
  /\ job = [c \in Consumer |-> At("idle")]
  /\ turns = {}
  /\ uses = [i \in Item |-> 0]
  /\ sweep = {}
  /\ crashes = 0

-----------------------------------------------------------------------------
(* Commands *)

Open == {"pending", "claimed"}

Known(i) == \E j \in Item : row[j] # "absent" /\ Key(j) = Key(i)

(* The route and the repository look for the key; a known one ends it.     *)
LookUpCommand(i) ==
  /\ command[i] = "new"
  /\ command' = [command EXCEPT ![i] = IF Known(i) THEN "done" ELSE "checked"]
  /\ UNCHANGED <<rowVars, overdue, job, turns, uses, sweep, crashes>>

(* The insert, which throws on a key that came in meanwhile.               *)
Enqueue(i) ==
  /\ command[i] = "checked"
  /\ command' = [command EXCEPT ![i] = "done"]
  /\ IF Known(i) THEN UNCHANGED rowVars
     ELSE arrived' = Append(arrived, i) /\ row' = [row EXCEPT ![i] = "pending"]
  /\ UNCHANGED <<overdue, job, turns, uses, sweep, crashes>>

-----------------------------------------------------------------------------
(* Consumers *)

Doing(c, place) == job[c].pc = place
Become(c, j)    == job' = [job EXCEPT ![c] = j]

Boundary(i) == IF Target(i) = "none" THEN "next-turn" ELSE "next-step"
Consumes(c) == IF c \in Post THEN "next-turn" ELSE "next-step"

Before(i, j) ==
  \E m, n \in DOMAIN arrived : m < n /\ arrived[m] = i /\ arrived[n] = j

Eligible(c) ==
  {i \in Item : row[i] = "pending" /\ ~overdue[i] /\ Boundary(i) = Consumes(c)}

(* The select of claimForConsumption: the oldest of them; items of other   *)
(* attempts take a place in the window and are passed over afterwards.     *)
Window(c) ==
  {i \in Eligible(c) : Cardinality({j \in Eligible(c) : Before(j, i)}) < Limit}

Batch(c) == {i \in Window(c) : c \in Executor => Target(i) = Runs(c)}

AcknowledgeFirst(c, held) ==
  IF held = {} THEN At(IF c \in Executor THEN "idle" ELSE "create")
  ELSE [pc |-> "ack", batch |-> held, held |-> held]

(* What follows the last claim: an executor builds the context, a post     *)
(* acknowledges first and creates the Turn then.                           *)
AfterClaim(c, held) ==
  IF c \in Executor
  THEN IF held = {} THEN At("idle") ELSE [pc |-> "use", batch |-> {}, held |-> held]
  ELSE IF held = {} THEN At("create") ELSE [pc |-> "ack", batch |-> held, held |-> held]

Claiming(c, batch, held) ==
  IF batch = {} THEN AfterClaim(c, held)
  ELSE [pc |-> "claim", batch |-> batch, held |-> held]

Select(c) ==
  /\ Doing(c, IF c \in Post THEN "select" ELSE "idle")
  /\ c \in Executor => Batch(c) # {}
  /\ Become(c, Claiming(c, Batch(c), {}))
  /\ UNCHANGED <<rowVars, overdue, command, turns, uses, sweep, crashes>>

(* Batches are gone through in order of arrival. *)
NextOf(c, i) == i \in job[c].batch /\ \A j \in job[c].batch \ {i} : Before(i, j)

ClaimBlindly(c) ==
  \E i \in Item :
    /\ Doing(c, "claim") /\ NextOf(c, i)
    /\ row' = [row EXCEPT ![i] = "claimed"]
    /\ Become(c, Claiming(c, job[c].batch \ {i}, job[c].held \cup {i}))
    /\ UNCHANGED <<arrived, overdue, command, turns, uses, sweep, crashes>>

(* The compare-and-set of one row: whoever comes second passes it over.    *)
Claim(c) ==
  \E i \in Item :
    /\ Doing(c, "claim") /\ NextOf(c, i)
    /\ \/ /\ row[i] = "pending"
          /\ row' = [row EXCEPT ![i] = "claimed"]
          /\ Become(c, Claiming(c, job[c].batch \ {i}, job[c].held \cup {i}))
       \/ /\ row[i] # "pending"
          /\ Become(c, Claiming(c, job[c].batch \ {i}, job[c].held))
          /\ UNCHANGED row
    /\ UNCHANGED <<arrived, overdue, command, turns, uses, sweep, crashes>>

UsedBy(c) == [i \in Item |-> IF i \in job[c].held THEN uses[i] + 1 ELSE uses[i]]

(* An executor builds the step's context from what it claimed.             *)
Build(x) ==
  /\ Doing(x, "use")
  /\ uses' = UsedBy(x)
  /\ Become(x, [pc |-> "ack", batch |-> job[x].held, held |-> job[x].held])
  /\ UNCHANGED <<rowVars, overdue, command, turns, sweep, crashes>>

AfterAck(c, batch) ==
  IF batch # {} THEN [pc |-> "ack", batch |-> batch, held |-> job[c].held]
  ELSE IF c \in Executor THEN At("idle")
  ELSE [pc |-> "create", batch |-> {}, held |-> job[c].held]

(* One row of acknowledge; it is no longer "claimed" if it was swept.      *)
Acknowledge(c) ==
  \E i \in Item :
    /\ Doing(c, "ack") /\ NextOf(c, i)
    /\ row' = [row EXCEPT ![i] = IF @ = "claimed" THEN "acknowledged" ELSE @]
    /\ Become(c, AfterAck(c, job[c].batch \ {i}))
    /\ UNCHANGED <<arrived, overdue, command, turns, uses, sweep, crashes>>

TurnExists(p) == \E q \in turns : Key(q) = Key(p)

(* getTurnByIdempotencyKey: a post whose key has a Turn is answered with   *)
(* that one and takes nothing from the inbox.                              *)
LookUpTurn(p) ==
  /\ Doing(p, "idle")
  /\ Become(p, At(IF TurnExists(p) THEN "over" ELSE "select"))
  /\ UNCHANGED <<rowVars, overdue, command, turns, uses, sweep, crashes>>

CreateUnchecked(p) ==
  /\ Doing(p, "create")
  /\ turns' = turns \cup {p} /\ uses' = UsedBy(p) /\ Become(p, At("created"))
  /\ UNCHANGED <<rowVars, overdue, command, sweep, crashes>>

(* createTurnWithOutbox: one transaction; the unique index on the key      *)
(* makes the second of two racing posts fail, followups in hand.           *)
Create(p) ==
  /\ Doing(p, "create")
  /\ IF TurnExists(p) THEN Become(p, At("over")) /\ UNCHANGED <<turns, uses>>
     ELSE turns' = turns \cup {p} /\ uses' = UsedBy(p) /\ Become(p, At("created"))
  /\ UNCHANGED <<rowVars, overdue, command, sweep, crashes>>

(* createTurnAttempt *)
CreateAttempt(p) ==
  /\ Doing(p, "created")
  /\ Become(p, At("over"))
  /\ UNCHANGED <<rowVars, overdue, command, turns, uses, sweep, crashes>>

(* A statement of the handler or of the executor throws, or their process  *)
(* dies: what they had claimed stays claimed.                              *)
Abandon(gone) ==
  /\ crashes < MaxCrash
  /\ crashes' = crashes + 1
  /\ job' = [c \in Consumer |->
       IF c \notin gone \/ job[c].pc \in {"idle", "over"} THEN job[c]
       ELSE At(IF c \in Post THEN "over" ELSE "idle")]
  /\ UNCHANGED <<rowVars, overdue, command, turns, uses, sweep>>

-----------------------------------------------------------------------------
(* Expiry *)

TimePasses(i) ==
  /\ i \in Expiring /\ row[i] # "absent" /\ ~overdue[i]
  /\ overdue' = [overdue EXCEPT ![i] = TRUE]
  /\ UNCHANGED <<rowVars, command, job, turns, uses, sweep, crashes>>

OverdueRows(open) == {i \in Item : overdue[i] /\ row[i] \in open}

SweepSelectOf(open) ==
  /\ sweep = {}
  /\ \E ids \in SUBSET OverdueRows(open) :
       /\ Cardinality(ids) = SweepLimit \/ ids = OverdueRows(open)
       /\ ids # {} /\ Cardinality(ids) <= SweepLimit
       /\ sweep' = ids
  /\ UNCHANGED <<rowVars, overdue, command, job, turns, uses, crashes>>

SweepSelectPending == SweepSelectOf({"pending"})

(* expireOverdue selects the ids of the overdue rows still open ...        *)
SweepSelect == SweepSelectOf(Open)

SweepUpdateUnnamed ==
  /\ sweep # {} /\ sweep' = {}
  /\ row' = [i \in Item |-> IF i \in sweep /\ row[i] \in Open THEN "overdue" ELSE row[i]]
  /\ UNCHANGED <<arrived, overdue, command, job, turns, uses, crashes>>

(* ... and then expires those of them that are open even now.              *)
SweepUpdate ==
  /\ sweep # {} /\ sweep' = {}
  /\ row' = [i \in Item |-> IF i \in sweep /\ row[i] \in Open THEN "expired" ELSE row[i]]
  /\ UNCHANGED <<arrived, overdue, command, job, turns, uses, crashes>>

Sweep == SweepSelect \/ SweepUpdate

IntakeNext ==
  \/ \E i \in Item : LookUpCommand(i) \/ Enqueue(i) \/ TimePasses(i)
  \/ \E c \in Consumer : Select(c) \/ Claim(c) \/ Acknowledge(c)
  \/ \E x \in Executor : Build(x)
  \/ \E p \in Post : LookUpTurn(p) \/ Create(p) \/ CreateAttempt(p)
  \/ \E gone \in SUBSET Consumer : Abandon(gone)
  \/ Sweep

IntakeSpec == IntakeInit /\ [][IntakeNext]_intakeVars

(* The worker's timer beats; nothing else has to happen.                   *)
FairIntake == IntakeSpec /\ WF_intakeVars(Sweep)

-----------------------------------------------------------------------------
(* One command enters the input of one Turn or of one step, however often  *)
(* it is submitted, whichever consumers race for it and wherever they die. *)
CommandUsedOnce ==
  \A i, j \in Item : uses[i] > 0 /\ Key(i) = Key(j) => uses[i] = 1 /\ (i = j \/ uses[j] = 0)

(* One key makes one Turn, however the retries of a post race.             *)
OneTurnPerKey == \A p, q \in turns : Key(p) = Key(q) => p = q

(* A steering item is acknowledged only when it is part of a context.      *)
AcknowledgedWasUsed ==
  \A i \in Item : row[i] = "acknowledged" /\ Target(i) # "none" => uses[i] > 0

(* What was acknowledged does not expire and what expired is not           *)
(* acknowledged, although a sweep and a consumer may hold the same row.    *)
SettledOnce ==
  [][\A i \in Item : row[i] \in {"acknowledged", "expired"} => row'[i] = row[i]]_intakeVars

(* An overdue item does not stay open, not even one whose consumer died    *)
(* with it.                                                                *)
OverdueEnds == \A i \in Item : overdue[i] ~> row[i] \in {"acknowledged", "expired"}

InHand(i) == \E c \in Consumer : i \in job[c].held

(* executor.ts and the header of agent-inbox-repository.ts: an item that   *)
(* was claimed and not acknowledged is claimed again after a crash.        *)
UnackedIsReplayed ==
  \A i \in Item : row[i] = "claimed" /\ ~InHand(i) /\ ~overdue[i] =>
    \E c \in Consumer : i \in Window(c)
=============================================================================
