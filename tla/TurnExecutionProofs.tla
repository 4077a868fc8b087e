------------------------ MODULE TurnExecutionProofs ------------------------
(***************************************************************************)
(* The agent loop at work is an implementation of the attempt store's most *)
(* general client (ImplementsStore), so that all that is proved of         *)
(* AtomicSpec holds of it; and its events are numbered 1, 2, 3, ... in     *)
(* commit order (NumberedInOrder).                                         *)
(*                                                                         *)
(* Both need one inductive invariant, TurnInv: the types; what the pc of a *)
(* run says about its other fields (RunOK); and the reason for the numbers *)
(* to be right: no run is ever further than one past the end of the        *)
(* stream, so that the only free number it can use is the next one.        *)
(***************************************************************************)
EXTENDS TurnExecution, AttemptStoreProofs, WellFoundedInduction

Calling == {"request", "duplicate", "reserve", "execute", "running", "asking",
            "answered", "record", "hold"}
Working == {"message", "open", "renew", "model", "segment", "last", "batch"} \cup Calling

RunOK(c) ==
  /\ c.pc \in Working => c.step \in 1..MaxSteps
  /\ c.pc \in Calling \cup {"batch"} => c.calls # <<>>
  /\ c.pc \in Calling \ {"request"} => c.count \in 1..MaxCount
  /\ c.pc = "finalize" => c.goal \in Terminal
  /\ c.pc = "report" => c.goal \in {"Completed", "Failed"}
  /\ c.pc = "record" => c.goal \in {"executed", "rejected"}

Good(c, n) == c \in RunType /\ RunOK(c) /\ c.seq <= n + 1

RunsGood == /\ run \in [Executor -> RunType]
            /\ \A e \in Executor : Good(run[e], Len(log))

DataOK ==
  /\ ledger \in [ExecId -> LedgerStatus]
  /\ tool \in [ExecId -> Call \cup {NoCall}]
  /\ started \in [ExecId -> Nat]
  /\ turnStatus \in {"Created", "Completed", "Failed", "Cancelled"}
  /\ cancelling \in {"no", "half", "done"}
  /\ crashes \in 0..MaxCrash

TurnInv == StoreInv /\ RunsGood /\ DataOK /\ CommittedInSequence

-----------------------------------------------------------------------------
(* A bounded nonempty set of numbers has a largest element. *)
LEMMA LargestExists ==
  ASSUME NEW N \in Nat, NEW T, T \subseteq 0..N, T # {}
  PROVE  \E x \in T : \A y \in T : y <= x
<1> DEFINE U == {N - x : x \in T}
<1>1. U \subseteq Nat /\ U # {}
  <2>1. \A x \in T : N - x \in Nat
    OBVIOUS
  <2>2. PICK x \in T : TRUE
    OBVIOUS
  <2>3. N - x \in U
    OBVIOUS
  <2> QED
    BY <2>1, <2>3
<1>2. \E u \in U : \A v \in U : ~(<<v, u>> \in OpToRel(<, Nat))
  BY <1>1, WFMin, NatLessThanWellFounded
<1>3. PICK u \in U : \A v \in U : ~(<<v, u>> \in OpToRel(<, Nat))
  BY <1>2
<1>4. \A v \in U : ~(v < u)
  BY <1>1, <1>3 DEF OpToRel
<1>5. PICK x \in T : u = N - x
  OBVIOUS
<1>6. \A y \in T : y <= x
  <2> SUFFICES ASSUME NEW y \in T PROVE y <= x
    OBVIOUS
  <2>1. ~(N - y < N - x)
    BY <1>4, <1>5
  <2> QED
    BY <2>1
<1> QED
  BY <1>6

(* The stream is never longer than its largest number. *)
LEMMA LogBounded ==
  ASSUME StoreTypeOK, CommittedInSequence
  PROVE  /\ Len(log) \in Nat /\ DOMAIN log = 1..Len(log)
         /\ Len(log) <= MaxSeq
         /\ \A i \in DOMAIN log : log[i] \in EventType
<1>1. log \in Seq(EventType) /\ MaxSeq \in Nat
  BY StoreAssumption DEF StoreTypeOK
<1>2. /\ Len(log) \in Nat /\ DOMAIN log = 1..Len(log)
      /\ \A i \in DOMAIN log : log[i] \in EventType
  BY <1>1
<1>3. CASE Len(log) = 0
  BY <1>1, <1>2, <1>3
<1>4. CASE Len(log) # 0
  <2>1. Len(log) \in DOMAIN log
    BY <1>2, <1>4
  <2>2. log[Len(log)].seq = Len(log) /\ log[Len(log)].seq \in 1..MaxSeq
    BY <2>1, <1>2 DEF CommittedInSequence, EventType
  <2> QED
    BY <2>2, <1>1, <1>2
<1> QED
  BY <1>3, <1>4

(* A free number that is at most one past the end is the next number, and  *)
(* committing it keeps the stream in sequence.                             *)
LEMMA NextNumber ==
  ASSUME StoreTypeOK, CommittedInSequence, NEW s \in 1..(Len(log) + 1), Free(s),
         NEW ev \in EventType, ev.seq = s, log' = Append(log, ev)
  PROVE  /\ s = Len(log) + 1
         /\ CommittedInSequence'
         /\ Len(log') = Len(log) + 1
<1>1. /\ Len(log) \in Nat /\ DOMAIN log = 1..Len(log)
      /\ log \in Seq(EventType)
  BY LogBounded DEF StoreTypeOK
<1>2. s = Len(log) + 1
  BY <1>1 DEF Free, CommittedInSequence
<1>3. Len(log') = Len(log) + 1
  BY <1>1
<1>4. CommittedInSequence'
  BY <1>1, <1>2, AppendFacts DEF CommittedInSequence
<1> QED
  BY <1>2, <1>3, <1>4

-----------------------------------------------------------------------------
(* How the runs move *)

LEMMA SeqIsNat == ASSUME NEW c \in RunType PROVE c.seq \in Nat
  BY StoreAssumption DEF RunType

(* One run moves to a good record, the stream does not shrink: all stay    *)
(* good.                                                                   *)
LEMMA MoveKeeps ==
  ASSUME RunsGood, NEW e \in Executor, NEW c, Goto(e, c),
         Len(log) \in Nat, Len(log') \in Nat, Len(log) <= Len(log'),
         Good(c, Len(log'))
  PROVE  RunsGood'
<1>1. c \in RunType /\ run' \in [Executor -> RunType]
  BY DEF RunsGood, Goto, Good
<1>2. ASSUME NEW f \in Executor PROVE Good(run'[f], Len(log'))
  <2>1. CASE f = e
    BY <2>1 DEF RunsGood, Goto
  <2>2. CASE f # e
    <3>1. run'[f] = run[f] /\ Good(run[f], Len(log))
      BY <2>2 DEF RunsGood, Goto
    <3>2. run[f].seq \in Nat
      BY <3>1, SeqIsNat DEF Good
    <3> QED
      BY <3>1, <3>2 DEF Good
  <2> QED
    BY <2>1, <2>2
<1> QED
  BY <1>1, <1>2 DEF RunsGood

(* The runs stay good while they rest. *)
LEMMA RestKeeps ==
  ASSUME RunsGood, UNCHANGED run, Len(log) \in Nat, Len(log') \in Nat,
         Len(log) <= Len(log')
  PROVE  RunsGood'
<1>1. ASSUME NEW f \in Executor PROVE Good(run'[f], Len(log'))
  <2>1. run'[f] = run[f] /\ Good(run[f], Len(log)) /\ run[f].seq \in Nat
    BY SeqIsNat DEF RunsGood, Good
  <2> QED
    BY <2>1 DEF Good
<1> QED
  BY <1>1 DEF RunsGood

LEMMA IdleIsGood == ASSUME NEW n \in Nat PROVE Good(Idle, n)
<1>1. /\ 1 \in 1..(MaxSeq + 1) /\ 1 \in 1..(MaxSteps + 1)
      /\ 0 \in 0..MaxCount /\ 0 \in 0..MaxThought /\ 0 \in 0..MaxToken
      /\ 1 <= n + 1
  BY StoreAssumption, ExecutionAssumption
<1>2. <<>> \in Seq(Call) /\ {} \in SUBSET Call
  OBVIOUS
<1>3. Idle \in RunType
  BY <1>1, <1>2 DEF Idle, RunType, LedgerStatus
<1> QED
  BY <1>1, <1>3 DEF Good, RunOK, Idle, Working, Calling

(* A run that breaks off, whatever it was doing. *)
LEMMA BrokenIsGood ==
  ASSUME RunsGood, NEW e \in Executor
  PROVE  Good([run[e] EXCEPT !.pc = "failing"], Len(log))
<1>1. run[e] \in RunType /\ run[e].seq <= Len(log) + 1
  BY DEF RunsGood, Good
<1>2. [run[e] EXCEPT !.pc = "failing"] \in RunType
  BY <1>1 DEF RunType, Claimed
<1> QED
  BY <1>1, <1>2 DEF Good, RunOK, Working, Calling, RunType

(* What Append and a fenced append do to the facts about the stream. *)
LEMMA AppendKeeps ==
  ASSUME TurnInv, NEW e \in Executor, NEW kind \in Kind, NEW ref \in Ref,
         InBounds(e), AppendFenced(e, run[e].seq, kind, ref)
  PROVE  /\ CommittedInSequence' /\ AtomicNext
         /\ Len(log') = Len(log) + 1 /\ Len(log') \in Nat
<1>1. StoreTypeOK /\ CommittedInSequence /\ StoreInv
  BY DEF TurnInv, StoreInv
<1>2. Len(log) \in Nat
  BY <1>1, LogBounded
<1>3. run[e].seq \in 1..MaxSeq /\ run[e].seq \in 1..(Len(log) + 1)
  <2>1. run[e].seq <= Len(log) + 1 /\ run[e].seq \in 1..MaxSeq
    BY DEF TurnInv, RunsGood, Good, InBounds
  <2> QED
    BY <2>1, <1>2, StoreAssumption
<1>4. AtomicNext
  BY <1>3 DEF AtomicNext, ExecutorOp
<1>5. Event(run[e].seq, kind, ref, held[e]) \in EventType
  BY <1>1, <1>3 DEF Event, EventType, StoreTypeOK
<1>6. Event(run[e].seq, kind, ref, held[e]).seq = run[e].seq
  BY DEF Event
<1>7. CommittedInSequence' /\ Len(log') = Len(log) + 1
  BY <1>1, <1>3, <1>5, <1>6, NextNumber DEF AppendFenced
<1> QED
  BY <1>2, <1>4, <1>7

(* Write, with a continuation that uses up one number. *)
LEMMA WriteKeeps ==
  ASSUME TurnInv, NEW e \in Executor, NEW kind \in Kind, NEW ref \in Ref, NEW done,
         Write(e, kind, ref, done), run[e].seq \in 1..MaxSeq => Good(done, Len(log) + 1)
  PROVE  /\ [AtomicNext]_storeVars /\ RunsGood' /\ CommittedInSequence'
         /\ log' = log => UNCHANGED storeVars
<1>1. Len(log) \in Nat /\ RunsGood /\ CommittedInSequence
  BY LogBounded DEF TurnInv, StoreInv
<1>2. CASE AppendFenced(e, run[e].seq, kind, ref) /\ Goto(e, done)
  <2>1. /\ CommittedInSequence' /\ AtomicNext
        /\ Len(log') = Len(log) + 1 /\ Len(log') \in Nat
    BY <1>2, AppendKeeps DEF Write
  <2>2. Good(done, Len(log'))
    BY <2>1 DEF Write, InBounds
  <2>3. RunsGood'
    BY <1>1, <1>2, <2>1, <2>2, MoveKeeps
  <2>4. log' # log
    BY <2>1, <1>1
  <2> QED
    BY <2>1, <2>3, <2>4
<1>3. CASE Leave(e) /\ UNCHANGED storeVars
  <2>1. log' = log /\ Good(Idle, Len(log'))
    BY <1>1, <1>3, IdleIsGood DEF storeVars
  <2>2. RunsGood'
    BY <1>1, <1>3, <2>1, MoveKeeps DEF Leave
  <2> QED
    BY <1>1, <1>3, <2>1, <2>2 DEF CommittedInSequence
<1>4. CASE Break(e) /\ UNCHANGED storeVars
  <2>1. log' = log /\ Good([run[e] EXCEPT !.pc = "failing"], Len(log'))
    BY <1>1, <1>4, BrokenIsGood DEF storeVars
  <2>2. RunsGood'
    BY <1>1, <1>4, <2>1, MoveKeeps DEF Break
  <2> QED
    BY <1>1, <1>4, <2>1, <2>2 DEF CommittedInSequence
<1> QED
  BY <1>2, <1>3, <1>4 DEF Write

-----------------------------------------------------------------------------
(* What every step keeps; StoreInv then follows from StoreNextInv. *)
Kept == [AtomicNext]_storeVars /\ RunsGood' /\ CommittedInSequence' /\ DataOK'

LEMMA DataRests == DataOK /\ UNCHANGED data => DataOK'
  BY DEF DataOK, data

(* A step of one run that touches nothing else. *)
LEMMA LocalKeeps ==
  ASSUME TurnInv, NEW e \in Executor, NEW c, Goto(e, c), UNCHANGED storeVars,
         Good(c, Len(log))
  PROVE  [AtomicNext]_storeVars /\ RunsGood' /\ CommittedInSequence'
<1>1. Len(log) \in Nat /\ RunsGood /\ CommittedInSequence
  BY LogBounded DEF TurnInv, StoreInv
<1>2. log' = log
  BY DEF storeVars
<1>3. RunsGood'
  BY <1>1, <1>2, MoveKeeps
<1> QED
  BY <1>1, <1>2, <1>3 DEF CommittedInSequence

LEMMA LeavingKeeps ==
  ASSUME TurnInv, NEW e \in Executor, Leave(e), UNCHANGED storeVars
  PROVE  [AtomicNext]_storeVars /\ RunsGood' /\ CommittedInSequence'
<1>1. Len(log) \in Nat
  BY LogBounded DEF TurnInv, StoreInv
<1>2. Good(Idle, Len(log))
  BY <1>1, IdleIsGood
<1> QED
  BY <1>2, LocalKeeps DEF Leave

LEMMA BreakingKeeps ==
  ASSUME TurnInv, NEW e \in Executor, Break(e), UNCHANGED storeVars
  PROVE  [AtomicNext]_storeVars /\ RunsGood' /\ CommittedInSequence'
<1>1. Good([run[e] EXCEPT !.pc = "failing"], Len(log))
  BY BrokenIsGood DEF TurnInv
<1> QED
  BY <1>1, LocalKeeps DEF Break

(* Operations of the store that write no event. *)
LEMMA StoreStepKeeps ==
  ASSUME TurnInv, AtomicNext, UNCHANGED log
  PROVE  /\ [AtomicNext]_storeVars /\ CommittedInSequence'
         /\ \A e \in Executor : \A c : Goto(e, c) /\ Good(c, Len(log)) => RunsGood'
         /\ UNCHANGED run => RunsGood'
<1>1. Len(log) \in Nat /\ RunsGood /\ CommittedInSequence
  BY LogBounded DEF TurnInv, StoreInv
<1>2. ASSUME NEW e \in Executor, NEW c, Goto(e, c), Good(c, Len(log)) PROVE RunsGood'
  BY <1>1, <1>2, MoveKeeps
<1>3. ASSUME UNCHANGED run PROVE RunsGood'
  BY <1>1, <1>3, RestKeeps
<1> QED
  BY <1>1, <1>2, <1>3 DEF CommittedInSequence

(* An event numbered by the length of the stream: questions, answers, the  *)
(* setup error and, when it is accepted, the error of the catch block.     *)
LEMMA TailNumber ==
  ASSUME TurnInv, NEW ev \in EventType, ev.seq = Len(log) + 1, log' = Append(log, ev)
  PROVE  CommittedInSequence' /\ Len(log') = Len(log) + 1
<1>1. StoreTypeOK /\ CommittedInSequence
  BY DEF TurnInv, StoreInv
<1>2. Len(log) \in Nat /\ DOMAIN log = 1..Len(log)
  BY <1>1, LogBounded
<1>3. Free(Len(log) + 1)
  BY <1>1, <1>2 DEF Free, CommittedInSequence
<1>4. Len(log) + 1 \in 1..(Len(log) + 1)
  BY <1>2
<1> QED
  BY <1>1, <1>3, <1>4, NextNumber

LEMMA SideKeeps ==
  ASSUME TurnInv, Len(log) < MaxSeq, SideAppend(Len(log) + 1)
  PROVE  /\ [AtomicNext]_storeVars /\ CommittedInSequence'
         /\ \A e \in Executor : \A c : Goto(e, c) /\ Good(c, Len(log)) => RunsGood'
<1>1. StoreTypeOK /\ RunsGood /\ CommittedInSequence
  BY DEF TurnInv, StoreInv
<1>2. Len(log) \in Nat /\ Len(log) + 1 \in 1..MaxSeq
  BY <1>1, LogBounded, StoreAssumption
<1>3. Event(Len(log) + 1, "side", NoRef, 0) \in EventType
  BY <1>1, <1>2, StoreAssumption DEF Event, EventType
<1>4. Event(Len(log) + 1, "side", NoRef, 0).seq = Len(log) + 1
  BY DEF Event
<1>5. CommittedInSequence' /\ Len(log') = Len(log) + 1
  BY <1>3, <1>4, TailNumber DEF SideAppend
<1>6. ASSUME NEW e \in Executor, NEW c, Goto(e, c), Good(c, Len(log)) PROVE RunsGood'
  <2>1. c.seq \in Nat
    BY <1>6, SeqIsNat DEF Good
  <2>2. Good(c, Len(log'))
    BY <1>2, <1>5, <1>6, <2>1 DEF Good
  <2> QED
    BY <1>1, <1>2, <1>5, <1>6, <2>2, MoveKeeps
<1>7. AtomicNext
  BY <1>2 DEF AtomicNext, OtherOp
<1> QED
  BY <1>5, <1>6, <1>7

-----------------------------------------------------------------------------
(* Entering *)

LEMMA StartTurnKeeps == TurnInv /\ StartTurn => Kept
<1> SUFFICES ASSUME TurnInv, StartTurn PROVE Kept
  OBVIOUS
<1> DEFINE c == [Idle EXCEPT !.pc = "message", !.seq = Len(log) + 1]
<1>1. Api \in Executor /\ Len(log) \in Nat /\ Len(log) <= MaxSeq
  BY LogBounded, ExecutionAssumption DEF TurnInv, StoreInv
<1>2. Len(log) + 1 \in 1..(MaxSeq + 1) /\ 1 \in 1..MaxSteps
  BY <1>1, StoreAssumption, ExecutionAssumption
<1>3. Good(c, Len(log))
  <2>1. Idle \in RunType
    BY <1>1, IdleIsGood DEF Good
  <2>2. c \in RunType
    BY <2>1, <1>2 DEF RunType, Claimed
  <2>3. c.pc = "message" /\ c.step = 1 /\ c.seq = Len(log) + 1
    BY DEF Idle
  <2> QED
    BY <2>2, <2>3, <1>1, <1>2 DEF Good, RunOK, Calling
<1>4. AtomicNext /\ UNCHANGED log
  BY <1>1 DEF StartTurn, ClaimFresh, Claim, AtomicNext, ExecutorOp
<1>5. Goto(Api, c)
  BY DEF StartTurn
<1>6. RunsGood' /\ [AtomicNext]_storeVars /\ CommittedInSequence'
  BY <1>1, <1>3, <1>4, <1>5, StoreStepKeeps
<1>7. DataOK'
  BY DataRests DEF StartTurn, TurnInv
<1> QED
  BY <1>6, <1>7 DEF Kept

LEMMA SkipTurnKeeps == TurnInv /\ SkipTurn => Kept
<1> SUFFICES ASSUME TurnInv, SkipTurn PROVE Kept
  OBVIOUS
<1>1. AtomicNext /\ UNCHANGED log /\ UNCHANGED run /\ UNCHANGED data
  BY DEF SkipTurn, EntryLeaves, AtomicNext, OtherOp, execVars, data
<1> QED
  BY <1>1, StoreStepKeeps, DataRests DEF Kept, TurnInv

LEMMA SetupFailsKeeps == TurnInv /\ SetupFails => Kept
<1> SUFFICES ASSUME TurnInv, SetupFails PROVE Kept
  OBVIOUS
<1>1. StoreTypeOK /\ RunsGood /\ CommittedInSequence
  BY DEF TurnInv, StoreInv
<1>2. Len(log) \in Nat /\ Len(log) + 1 \in 1..MaxSeq
  BY <1>1, LogBounded, StoreAssumption DEF SetupFails
<1>3. AtomicNext /\ UNCHANGED run /\ UNCHANGED data
  BY <1>2 DEF SetupFails, AtomicNext, OtherOp, execVars, data
<1>4. CASE log' = log
  <2>1. CommittedInSequence' /\ RunsGood'
    BY <1>1, <1>2, <1>3, <1>4, RestKeeps DEF CommittedInSequence
  <2> QED
    BY <1>3, <2>1, DataRests DEF Kept, TurnInv
<1>5. CASE log' = Append(log, Event(Len(log) + 1, "Failed", NoRef, 0))
  <2>1. Event(Len(log) + 1, "Failed", NoRef, 0) \in EventType
    BY <1>1, <1>2, StoreAssumption DEF Event, EventType, Terminal
  <2>2. Event(Len(log) + 1, "Failed", NoRef, 0).seq = Len(log) + 1
    BY DEF Event
  <2>3. CommittedInSequence' /\ Len(log') = Len(log) + 1
    BY <2>1, <2>2, <1>5, TailNumber
  <2>4. RunsGood'
    BY <1>1, <1>2, <1>3, <2>3, RestKeeps
  <2> QED
    BY <1>3, <2>3, <2>4, DataRests DEF Kept, TurnInv
<1> QED
  BY <1>4, <1>5 DEF SetupFails, FailEntry

(* A run that has only its verdict left to report. *)
LEMMA VerdictIsGood ==
  ASSUME NEW n \in Nat, NEW v \in {"Completed", "Failed"}
  PROVE  Good([Idle EXCEPT !.pc = "report", !.goal = v], n)
<1> DEFINE c == [Idle EXCEPT !.pc = "report", !.goal = v]
<1>1. Idle \in RunType /\ Idle.seq <= n + 1
  BY IdleIsGood DEF Good
<1>2. c \in RunType
  BY <1>1 DEF RunType, Terminal
<1>3. c.pc = "report" /\ c.goal = v /\ c.seq <= n + 1
  BY <1>1 DEF Idle
<1> QED
  BY <1>2, <1>3 DEF Good, RunOK, Working, Calling

LEMMA SetupFailedKeeps == TurnInv /\ SetupFailed => Kept
<1> SUFFICES ASSUME TurnInv, SetupFailed PROVE Kept
  OBVIOUS
<1>1. Len(log) \in Nat /\ Api \in Executor
  BY LogBounded, ExecutionAssumption DEF TurnInv, StoreInv
<1>2. Good([Idle EXCEPT !.pc = "report", !.goal = "Failed"], Len(log))
  BY <1>1, VerdictIsGood
<1>3. AtomicNext /\ UNCHANGED log /\ UNCHANGED data
  BY DEF SetupFailed, FailEntryStatus, AtomicNext, OtherOp
<1> QED
  BY <1>1, <1>2, <1>3, StoreStepKeeps, DataRests DEF Kept, TurnInv, SetupFailed

(* The last tool result exists and lies in the stream. *)
LEMMA LastResultFacts ==
  ASSUME TurnInv, Results # {}
  PROVE  LastResult \in DOMAIN log /\ log[LastResult].seq = LastResult
<1>1. /\ Len(log) \in Nat /\ DOMAIN log = 1..Len(log)
      /\ CommittedInSequence
  BY LogBounded DEF TurnInv, StoreInv
<1>2. Results \subseteq 0..Len(log) /\ Results \subseteq DOMAIN log
  BY <1>1 DEF Results
<1>3. PICK i \in Results : \A j \in Results : j <= i
  BY <1>1, <1>2, LargestExists
<1>4. \A j \in Results : log[j].seq <= log[i].seq
  BY <1>2, <1>3, <1>1 DEF CommittedInSequence
<1>5. LastResult \in Results
  BY <1>3, <1>4 DEF LastResult
<1> QED
  BY <1>1, <1>2, <1>5 DEF CommittedInSequence

LEMMA LastStepFacts ==
  ASSUME TurnInv, About # {}
  PROVE  LastStep \in 1..MaxSteps
<1> DEFINE T == {log[i].ref[1] : i \in About}
<1>1. \A i \in About : log[i].ref \in ExecId
  <2> SUFFICES ASSUME NEW i \in About PROVE log[i].ref \in ExecId
    OBVIOUS
  <2>1. log[i] \in EventType /\ log[i].ref # NoRef
    BY LogBounded DEF About, TurnInv, StoreInv
  <2> QED
    BY <2>1, ExecutionAssumption DEF EventType
<1>2. \A x \in ExecId : x[1] \in 1..MaxSteps
  BY DEF ExecId
<1>3. T \subseteq 1..MaxSteps /\ T # {}
  <2>1. \A i \in About : log[i].ref[1] \in 1..MaxSteps
    BY <1>1, <1>2
  <2>2. PICK i \in About : TRUE
    OBVIOUS
  <2>3. log[i].ref[1] \in T
    OBVIOUS
  <2>4. ASSUME NEW x \in T PROVE x \in 1..MaxSteps
    <3>1. PICK j \in About : x = log[j].ref[1]
      OBVIOUS
    <3> QED
      BY <2>1, <3>1
  <2> HIDE DEF T
  <2> QED
    BY <2>3, <2>4
<1> HIDE DEF T
<1>4. MaxSteps \in Nat /\ T \subseteq 0..MaxSteps
  BY <1>3, ExecutionAssumption
<1>5. PICK m \in T : \A y \in T : y <= m
  BY <1>3, <1>4, LargestExists
<1>6. \A y \in T : m >= y
  BY <1>3, <1>4, <1>5
<1>7. Max(T) \in T
  BY <1>5, <1>6 DEF Max
<1> QED
  BY <1>3, <1>7 DEF LastStep, T

LEMMA HostScanKeeps ==
  ASSUME TurnInv, NEW e \in Executor, HostScan(e)
  PROVE  Kept
<1> DEFINE c == [Idle EXCEPT !.pc = "planned", !.plan = fencing,
                   !.seq = log[LastResult].seq + 1, !.step = LastStep + 1]
<1>1. /\ Len(log) \in Nat /\ Len(log) <= MaxSeq /\ DOMAIN log = 1..Len(log)
      /\ \A i \in DOMAIN log : log[i] \in EventType
      /\ fencing \in 0..MaxToken
  BY LogBounded DEF TurnInv, StoreInv, StoreTypeOK
<1>2. Results # {} /\ About # {}
  BY DEF HostScan, MayResume, LastBatch
<1>3. /\ log[LastResult].seq + 1 \in 1..(MaxSeq + 1)
      /\ log[LastResult].seq + 1 <= Len(log) + 1
  BY <1>1, <1>2, LastResultFacts, StoreAssumption
<1>4. LastStep + 1 \in 1..(MaxSteps + 1)
  BY <1>2, LastStepFacts, ExecutionAssumption
<1>5. Idle \in RunType
  BY <1>1, IdleIsGood DEF Good
<1>6. c \in RunType
  BY <1>1, <1>3, <1>4, <1>5 DEF RunType
<1>7. c.pc = "planned" /\ c.seq = log[LastResult].seq + 1
  BY DEF Idle
<1>8. Good(c, Len(log))
  BY <1>3, <1>6, <1>7 DEF Good, RunOK, Working, Calling
<1> QED
  BY <1>8, LocalKeeps, DataRests DEF Kept, TurnInv, HostScan

LEMMA RunFacts ==
  ASSUME TurnInv, NEW e \in Executor
  PROVE  /\ run[e] \in RunType /\ RunOK(run[e]) /\ run[e].seq <= Len(log) + 1
         /\ Len(log) \in Nat /\ Len(log) <= MaxSeq /\ MaxSeq \in Nat
         /\ run[e].seq \in Nat
  BY LogBounded, SeqIsNat, StoreAssumption DEF TurnInv, StoreInv, RunsGood, Good

(* A move that changes the pc only. *)
LEMMA PcMove ==
  ASSUME NEW c \in RunType, NEW n, c.seq <= n + 1, NEW p,
         p \in Claimed \cup {"idle", "planned", "report"},
         RunOK([c EXCEPT !.pc = p])
  PROVE  Good([c EXCEPT !.pc = p], n)
<1>1. [c EXCEPT !.pc = p] \in RunType /\ [c EXCEPT !.pc = p].seq = c.seq
  BY DEF RunType
<1> QED
  BY <1>1 DEF Good

LEMMA ClaimPlannedKeeps ==
  ASSUME TurnInv, NEW e \in Executor, ClaimPlanned(e)
  PROVE  Kept
<1>1. DataOK'
  BY DataRests DEF ClaimPlanned, TurnInv
<1>2. CASE Leave(e) /\ UNCHANGED storeVars
  BY <1>1, <1>2, LeavingKeeps DEF Kept
<1>3. CASE /\ ClaimExpired(e, run[e].plan)
           /\ Goto(e, [run[e] EXCEPT !.pc = IF run[e].step > MaxSteps THEN "budget" ELSE "open"])
  <2> DEFINE p == IF run[e].step > MaxSteps THEN "budget" ELSE "open"
  <2>1. /\ run[e] \in RunType /\ run[e].seq <= Len(log) + 1
        /\ fencing \in 0..MaxToken /\ MaxToken \in Nat
    BY RunFacts, StoreAssumption DEF TurnInv, StoreInv, StoreTypeOK
  <2>2. run[e].step \in 1..(MaxSteps + 1) /\ MaxSteps \in Nat
    BY <2>1, ExecutionAssumption DEF RunType
  <2>3. RunOK([run[e] EXCEPT !.pc = p])
    BY <2>1, <2>2, SMTT(60) DEF RunOK, Working, Calling, RunType
  <2>4. Good([run[e] EXCEPT !.pc = p], Len(log))
    BY <2>1, <2>3, PcMove DEF Claimed
  <2>5. run[e].plan \in 1..MaxToken
    BY <1>3, <2>1 DEF ClaimExpired, Claim
  <2>6. AtomicNext /\ UNCHANGED log
    BY <1>3, <2>5 DEF ClaimExpired, Claim, AtomicNext, ExecutorOp
  <2> QED
    BY <1>1, <1>3, <2>4, <2>6, StoreStepKeeps DEF Kept
<1> QED
  BY <1>2, <1>3 DEF ClaimPlanned

LEMMA MessageKeeps ==
  ASSUME TurnInv, NEW e \in Executor, Message(e)
  PROVE  Kept
<1> DEFINE c == Past(run[e], "open")
<1>1. /\ run[e] \in RunType /\ RunOK(run[e]) /\ run[e].pc = "message"
      /\ run[e].seq <= Len(log) + 1 /\ Len(log) \in Nat /\ MaxSeq \in Nat
      /\ run[e].seq \in Nat
  BY RunFacts DEF Message, At
<1>2. ASSUME run[e].seq \in 1..MaxSeq PROVE Good(c, Len(log) + 1)
  <2>1. run[e].seq + 1 \in 1..(MaxSeq + 1) /\ run[e].seq + 1 <= Len(log) + 1 + 1
    BY <1>1, <1>2
  <2>2. c \in RunType /\ c.pc = "open" /\ c.seq = run[e].seq + 1 /\ c.step = run[e].step
    BY <1>1, <2>1 DEF RunType, Past, Claimed
  <2> QED
    BY <1>1, <2>1, <2>2 DEF Good, RunOK, Working, Calling
<1>3. "message" \in Kind /\ NoRef \in Ref
  BY ExecutionAssumption
<1> QED
  BY <1>2, <1>3, WriteKeeps, DataRests DEF Kept, Message, TurnInv

-----------------------------------------------------------------------------
(* Checkpoints, lease and model *)

LEMMA FinishIsGood ==
  ASSUME NEW c \in RunType, NEW n, c.seq <= n + 1, NEW ending \in Terminal
  PROVE  Good(Finish(c, ending), n)
<1>1. Finish(c, ending) \in RunType
  BY DEF RunType, Finish, Claimed
<1>2. /\ Finish(c, ending).pc = "finalize" /\ Finish(c, ending).goal = ending
      /\ Finish(c, ending).seq = c.seq
  BY DEF RunType, Finish
<1> QED
  BY <1>1, <1>2 DEF Good, RunOK, Working, Calling

LEMMA CheckKeeps ==
  ASSUME TurnInv, NEW e \in Executor, Check(e)
  PROVE  Kept
<1>1. run[e] \in RunType /\ RunOK(run[e]) /\ run[e].seq <= Len(log) + 1
  BY RunFacts
<1>2. \A ending \in Terminal : Good(Finish(run[e], ending), Len(log))
  BY <1>1, FinishIsGood
<1>3. Good(AfterCheck(run[e]), Len(log))
  <2>1. CASE run[e].pc = "open"
    <3>1. RunOK([run[e] EXCEPT !.pc = "renew"])
      BY <1>1, <2>1 DEF RunOK, Working, Calling, RunType
    <3>2. Good([run[e] EXCEPT !.pc = "renew"], Len(log))
      BY <1>1, <3>1, PcMove DEF Claimed
    <3> QED
      BY <2>1, <3>2 DEF AfterCheck
  <2>2. CASE run[e].pc = "model"
    BY <1>1, <2>2 DEF AfterCheck, Good
  <2>3. CASE run[e].pc = "last"
    BY <1>2, <2>3 DEF AfterCheck, Terminal
  <2>4. CASE run[e].pc = "batch"
    <3>1. RunOK([run[e] EXCEPT !.pc = "request"])
      BY <1>1, <2>4 DEF RunOK, Working, Calling, RunType
    <3>2. Good([run[e] EXCEPT !.pc = "request"], Len(log))
      BY <1>1, <3>1, PcMove DEF Claimed
    <3> QED
      BY <2>4, <3>2 DEF AfterCheck
  <2>5. CASE run[e].pc = "budget"
    BY <1>2, <2>5 DEF AfterCheck, Terminal
  <2> QED
    BY <2>1, <2>2, <2>3, <2>4, <2>5 DEF Check
<1>4. PICK c : Goto(e, c) /\ Good(c, Len(log))
  BY <1>2, <1>3 DEF Check, Terminal
<1> QED
  BY <1>4, LocalKeeps, DataRests DEF Kept, Check, TurnInv

LEMMA RenewStepKeeps ==
  ASSUME TurnInv, NEW e \in Executor, RenewStep(e)
  PROVE  Kept
<1>1. DataOK'
  BY DataRests DEF RenewStep, TurnInv
<1>2. CASE Leave(e) /\ UNCHANGED storeVars
  BY <1>1, <1>2, LeavingKeeps DEF Kept
<1>3. CASE Renew(e) /\ Goto(e, [run[e] EXCEPT !.pc = "model"])
  <2>1. run[e] \in RunType /\ RunOK(run[e]) /\ run[e].seq <= Len(log) + 1
    BY RunFacts
  <2>2. RunOK([run[e] EXCEPT !.pc = "model"])
    BY <2>1 DEF RunOK, Working, Calling, RunType, RenewStep, At
  <2>3. Good([run[e] EXCEPT !.pc = "model"], Len(log))
    BY <2>1, <2>2, PcMove DEF Claimed
  <2>4. AtomicNext /\ UNCHANGED log
    BY <1>3 DEF Renew, AtomicNext, ExecutorOp
  <2> QED
    BY <1>1, <1>3, <2>3, <2>4, StoreStepKeeps DEF Kept
<1> QED
  BY <1>2, <1>3 DEF RenewStep

LEMMA BeatKeeps ==
  ASSUME TurnInv, NEW e \in Executor, Beat(e)
  PROVE  Kept
<1>1. DataOK'
  BY DataRests DEF Beat, TurnInv
<1>2. CASE Renew(e) /\ UNCHANGED run
  <2>1. AtomicNext /\ UNCHANGED log
    BY <1>2 DEF Renew, AtomicNext, ExecutorOp
  <2> QED
    BY <1>1, <1>2, <2>1, StoreStepKeeps DEF Kept
<1>3. CASE Goto(e, [run[e] EXCEPT !.lost = TRUE]) /\ UNCHANGED storeVars
  <2> DEFINE c == [run[e] EXCEPT !.lost = TRUE]
  <2>1. run[e] \in RunType /\ RunOK(run[e]) /\ run[e].seq <= Len(log) + 1
    BY RunFacts
  <2>2. /\ c \in RunType /\ c.pc = run[e].pc /\ c.step = run[e].step
        /\ c.calls = run[e].calls /\ c.count = run[e].count /\ c.goal = run[e].goal
        /\ c.seq = run[e].seq
    BY <2>1 DEF RunType
  <2>3. Good(c, Len(log))
    BY <2>1, <2>2 DEF Good, RunOK
  <2> QED
    BY <1>1, <1>3, <2>3, LocalKeeps DEF Kept
<1> QED
  BY <1>2, <1>3 DEF Beat

LEMMA ReasoningKeeps ==
  ASSUME TurnInv, NEW e \in Executor, Reasoning(e)
  PROVE  Kept
<1> DEFINE c == [run[e] EXCEPT !.seq = @ + 1, !.thought = @ + 1]
<1>1. /\ run[e] \in RunType /\ RunOK(run[e]) /\ run[e].pc = "model"
      /\ run[e].seq <= Len(log) + 1 /\ Len(log) \in Nat /\ Len(log) <= MaxSeq
      /\ MaxSeq \in Nat /\ run[e].seq \in 1..MaxSeq
  BY RunFacts DEF Reasoning, At, InBounds
<1>2. run[e].thought + 1 \in 0..MaxThought /\ run[e].seq + 1 \in 1..(MaxSeq + 1)
  <2>1. run[e].thought \in 0..MaxThought /\ run[e].thought < MaxThought /\ MaxThought \in Nat
    BY <1>1, ExecutionAssumption DEF RunType, Reasoning
  <2> QED
    BY <2>1, <1>1, SMTT(60)
<1>3. /\ c \in RunType /\ c.pc = "model" /\ c.seq = run[e].seq + 1
      /\ c.step = run[e].step
  BY <1>1, <1>2 DEF RunType
<1>4. RunOK(c)
  BY <1>1, <1>3 DEF RunOK, Working, Calling
<1>5. DataOK'
  BY DataRests DEF Reasoning, TurnInv
<1>6. CASE AppendFenced(e, run[e].seq, "reasoning_delta", NoRef) /\ Goto(e, c)
  <2>1. "reasoning_delta" \in Kind /\ NoRef \in Ref
    BY ExecutionAssumption
  <2>2. /\ CommittedInSequence' /\ AtomicNext
        /\ Len(log') = Len(log) + 1 /\ Len(log') \in Nat
    BY <1>6, <2>1, AppendKeeps DEF Reasoning
  <2>3. Good(c, Len(log'))
    BY <1>1, <1>3, <1>4, <2>2 DEF Good
  <2>4. RunsGood'
    BY <1>1, <1>6, <2>2, <2>3, MoveKeeps DEF TurnInv
  <2> QED
    BY <1>5, <2>2, <2>4 DEF Kept
<1>7. CASE ~Free(run[e].seq) /\ Goto(e, c) /\ UNCHANGED storeVars
  <2>1. run[e].seq <= Len(log)
    <3>1. PICK i \in DOMAIN log : log[i].seq = run[e].seq
      BY <1>7 DEF Free
    <3> QED
      BY <3>1, LogBounded DEF TurnInv, StoreInv, CommittedInSequence
  <2>2. Good(c, Len(log))
    BY <1>1, <1>3, <1>4, <2>1 DEF Good
  <2> QED
    BY <1>5, <1>7, <2>2, LocalKeeps DEF Kept
<1>8. CASE Leave(e) /\ UNCHANGED storeVars
  BY <1>5, <1>8, LeavingKeeps DEF Kept
<1> QED
  BY <1>6, <1>7, <1>8 DEF Reasoning

LEMMA ModelBreaksKeeps ==
  ASSUME TurnInv, NEW e \in Executor, ModelBreaks(e)
  PROVE  Kept
  BY BreakingKeeps, DataRests DEF ModelBreaks, Kept, TurnInv

LEMMA ModelAnswersKeeps ==
  ASSUME TurnInv, NEW e \in Executor, ModelAnswers(e)
  PROVE  Kept
<1>1. PICK a \in Answer :
        Goto(e, [run[e] EXCEPT !.calls = a.calls,
                   !.pc = IF a.text THEN "segment" ELSE AfterText(a.calls)])
  BY DEF ModelAnswers
<1> DEFINE p == IF a.text THEN "segment" ELSE AfterText(a.calls)
<1> DEFINE c == [run[e] EXCEPT !.calls = a.calls, !.pc = p]
<1>2. /\ run[e] \in RunType /\ RunOK(run[e]) /\ run[e].pc = "model"
      /\ run[e].seq <= Len(log) + 1
  BY RunFacts DEF ModelAnswers, At
<1>3. a.calls \in Seq(Call)
  BY ExecutionAssumption
<1>4. p \in {"segment", "last", "batch"} /\ (p = "batch" => a.calls # <<>>)
  BY DEF AfterText
<1> HIDE DEF p
<1>5. /\ c \in RunType /\ c.pc = p /\ c.calls = a.calls /\ c.step = run[e].step
      /\ c.seq = run[e].seq
  BY <1>2, <1>3, <1>4 DEF RunType, Claimed
<1>6. Good(c, Len(log))
  BY <1>2, <1>4, <1>5 DEF Good, RunOK, Working, Calling
<1> QED
  BY <1>1, <1>6, LocalKeeps, DataRests DEF Kept, ModelAnswers, TurnInv, p

LEMMA SegmentKeeps ==
  ASSUME TurnInv, NEW e \in Executor, Segment(e)
  PROVE  Kept
<1> DEFINE p == AfterText(run[e].calls)
<1> DEFINE c == Past(run[e], p)
<1>1. /\ run[e] \in RunType /\ RunOK(run[e]) /\ run[e].pc = "segment"
      /\ run[e].seq <= Len(log) + 1 /\ Len(log) \in Nat /\ MaxSeq \in Nat
      /\ run[e].seq \in Nat
  BY RunFacts DEF Segment, At
<1>2. p \in {"last", "batch"} /\ (p = "batch" => run[e].calls # <<>>)
  BY DEF AfterText
<1>3. ASSUME run[e].seq \in 1..MaxSeq PROVE Good(c, Len(log) + 1)
  <2> HIDE DEF p
  <2>1. run[e].seq + 1 \in 1..(MaxSeq + 1) /\ run[e].seq + 1 <= Len(log) + 1 + 1
    BY <1>1, <1>3
  <2>2. /\ c \in RunType /\ c.pc = p /\ c.seq = run[e].seq + 1
        /\ c.step = run[e].step /\ c.calls = run[e].calls
    BY <1>1, <1>2, <2>1 DEF RunType, Past, Claimed
  <2> QED
    BY <1>1, <1>2, <2>1, <2>2 DEF Good, RunOK, Working, Calling
<1>4. "delta" \in Kind /\ NoRef \in Ref
  BY ExecutionAssumption
<1> QED
  BY <1>3, <1>4, WriteKeeps, DataRests DEF Kept, Segment, TurnInv

-----------------------------------------------------------------------------
(* Tool calls *)

LEMMA NextCallIsGood ==
  ASSUME NEW c \in RunType, NEW n, c.seq <= n + 1, c.step \in 1..MaxSteps, c.calls # <<>>
  PROVE  Good(NextCall(c), n)
<1>1. c.calls \in Seq(Call) /\ MaxSteps \in Nat
  BY ExecutionAssumption DEF RunType
<1>2. Tail(c.calls) \in Seq(Call)
  BY <1>1
<1>3. c.step + 1 \in 1..(MaxSteps + 1)
  BY <1>1
<1>4. CASE Tail(c.calls) # <<>>
  <2> DEFINE d == [c EXCEPT !.pc = "request", !.calls = Tail(@), !.goal = "none"]
  <2>1. /\ d \in RunType /\ d.pc = "request" /\ d.calls = Tail(c.calls)
        /\ d.step = c.step /\ d.seq = c.seq
    BY <1>2 DEF RunType, Claimed, LedgerStatus
  <2>2. Good(d, n)
    BY <1>4, <2>1 DEF Good, RunOK, Working, Calling
  <2> QED
    BY <1>4, <2>2 DEF NextCall
<1>5. CASE Tail(c.calls) = <<>>
  <2> DEFINE p == IF c.step < MaxSteps THEN "open" ELSE "budget"
  <2> DEFINE d == [c EXCEPT !.calls = <<>>, !.step = @ + 1, !.goal = "none", !.pc = p]
  <2>1. p \in {"open", "budget"} /\ (p = "open" => c.step + 1 \in 1..MaxSteps)
    BY <1>1
  <2> HIDE DEF p
  <2>2. <<>> \in Seq(Call)
    OBVIOUS
  <2>3. d \in RunType /\ d.pc = p /\ d.step = c.step + 1 /\ d.seq = c.seq
    BY <1>3, <2>1, <2>2, ZenonT(60) DEF RunType, Claimed, LedgerStatus
  <2>4. Good(d, n)
    BY <2>1, <2>3 DEF Good, RunOK, Working, Calling
  <2> QED
    BY <1>5, <2>4 DEF NextCall, p
<1> QED
  BY <1>4, <1>5

(* The executionId at hand lies in ExecId. *)
LEMMA CurrentIdFacts ==
  ASSUME TurnInv, NEW e \in Executor, run[e].pc \in Calling \ {"request"}
  PROVE  CurrentId(run[e]) \in ExecId /\ CurrentId(run[e]) \in Ref
  BY RunFacts, ExecutionAssumption DEF RunOK, Working, CurrentId, ExecId

LEMMA RequestKeeps ==
  ASSUME TurnInv, NEW e \in Executor, Request(e)
  PROVE  Kept
<1> DEFINE call == Head(run[e].calls)
<1> DEFINE c == [run[e] EXCEPT !.count = @ + 1, !.seen = @ \cup {call}]
<1> DEFINE p == IF call \in run[e].seen THEN "duplicate" ELSE "reserve"
<1>1. /\ run[e] \in RunType /\ RunOK(run[e]) /\ run[e].pc = "request"
      /\ run[e].seq <= Len(log) + 1 /\ Len(log) \in Nat /\ MaxSeq \in Nat
      /\ run[e].seq \in Nat /\ run[e].count < MaxCount
  BY RunFacts DEF Request, At
<1>2. run[e].calls # <<>> /\ run[e].step \in 1..MaxSteps
  BY <1>1 DEF RunOK, Working, Calling
<1>3. call \in Call
  <2>1. run[e].calls \in Seq(Call)
    BY <1>1 DEF RunType
  <2> QED
    BY <1>2, <2>1
<1>4. run[e].count + 1 \in 1..MaxCount /\ run[e].count + 1 \in 0..MaxCount
  <2>1. run[e].count \in 0..MaxCount /\ MaxCount \in Nat
    BY <1>1, ExecutionAssumption DEF RunType
  <2> QED
    BY <1>1, <2>1
<1>5. p \in {"duplicate", "reserve"}
  OBVIOUS
<1> HIDE DEF p, call
<1>6. /\ c \in RunType /\ c.step = run[e].step /\ c.count = run[e].count + 1
      /\ c.calls = run[e].calls /\ c.seq = run[e].seq
  <2>1. run[e].seen \cup {call} \in SUBSET Call
    BY <1>1, <1>3 DEF RunType
  <2> QED
    BY <1>1, <1>4, <2>1 DEF RunType
<1>7. CurrentId(c) \in Ref
  <2>1. CurrentId(c) \in ExecId
    BY <1>2, <1>4, <1>6 DEF CurrentId, ExecId
  <2> QED
    BY <2>1, ExecutionAssumption
<1>8. ASSUME run[e].seq \in 1..MaxSeq PROVE Good(Past(c, p), Len(log) + 1)
  <2> HIDE DEF c
  <2>1. run[e].seq + 1 \in 1..(MaxSeq + 1) /\ run[e].seq + 1 <= Len(log) + 1 + 1
    BY <1>1, <1>8
  <2>2. /\ Past(c, p) \in RunType /\ Past(c, p).pc = p
        /\ Past(c, p).seq = run[e].seq + 1 /\ Past(c, p).step = run[e].step
        /\ Past(c, p).calls = run[e].calls /\ Past(c, p).count = run[e].count + 1
    BY <1>5, <1>6, <2>1 DEF RunType, Past, Claimed
  <2> QED
    BY <1>2, <1>4, <1>5, <2>1, <2>2 DEF Good, RunOK, Working, Calling
<1>9. "tool_request" \in Kind
  BY ExecutionAssumption
<1>10. Write(e, "tool_request", CurrentId(c), Past(c, p)) /\ UNCHANGED data
  BY DEF Request, p, call
<1> QED
  BY <1>7, <1>8, <1>9, <1>10, WriteKeeps, DataRests DEF Kept, TurnInv

LEMMA OutcomeKeeps ==
  ASSUME TurnInv, NEW e \in Executor, NEW result \in LedgerStatus,
         run[e].pc \in Calling \ {"request"}, Outcome(e, result)
  PROVE  Kept
<1> DEFINE x == CurrentId(run[e])
<1> DEFINE c == Past(run[e], "record")
<1>1. /\ run[e] \in RunType /\ RunOK(run[e])
      /\ run[e].seq <= Len(log) + 1 /\ Len(log) \in Nat /\ MaxSeq \in Nat
      /\ run[e].seq \in Nat
  BY RunFacts
<1>2. run[e].calls # <<>> /\ run[e].step \in 1..MaxSteps
  BY <1>1 DEF RunOK, Working, Calling
<1>3. x \in ExecId /\ x \in Ref
  BY CurrentIdFacts
<1>4. ASSUME run[e].seq \in 1..MaxSeq PROVE Good(NextCall(c), Len(log) + 1)
  <2>1. run[e].seq + 1 \in 1..(MaxSeq + 1) /\ run[e].seq + 1 <= Len(log) + 1 + 1
    BY <1>1, <1>4
  <2>2. /\ c \in RunType /\ c.seq = run[e].seq + 1
        /\ c.step = run[e].step /\ c.calls = run[e].calls
    BY <1>1, <2>1 DEF RunType, Past, Claimed
  <2> QED
    BY <1>2, <2>1, <2>2, NextCallIsGood
<1>5. "tool_result" \in Kind /\ Write(e, "tool_result", x, NextCall(c))
  BY ExecutionAssumption DEF Outcome
<1>6. [AtomicNext]_storeVars /\ RunsGood' /\ CommittedInSequence'
  BY <1>3, <1>4, <1>5, WriteKeeps
<1>7. DataOK'
  BY DEF Outcome, DataOK, TurnInv
<1> QED
  BY <1>6, <1>7 DEF Kept

LEMMA DuplicateKeeps ==
  ASSUME TurnInv, NEW e \in Executor, Duplicate(e)
  PROVE  Kept
  BY OutcomeKeeps DEF Duplicate, At, Calling, LedgerStatus

LEMMA RecordKeeps ==
  ASSUME TurnInv, NEW e \in Executor, Record(e)
  PROVE  Kept
<1>1. run[e].pc = "record" /\ run[e].goal \in {"executed", "rejected"}
  BY RunFacts DEF Record, At, RunOK
<1> QED
  BY <1>1, OutcomeKeeps DEF Record, Calling, LedgerStatus

(* From one pc of a call to the next. *)
LEMMA CallMove ==
  ASSUME TurnInv, NEW e \in Executor, run[e].pc \in Calling \ {"request"},
         NEW p \in (Calling \ {"record"}) \cup {"approval"}
  PROVE  Good([run[e] EXCEPT !.pc = p], Len(log))
<1>1. run[e] \in RunType /\ RunOK(run[e]) /\ run[e].seq <= Len(log) + 1
  BY RunFacts
<1>2. RunOK([run[e] EXCEPT !.pc = p])
  BY <1>1 DEF RunOK, Working, Calling, RunType
<1> QED
  BY <1>1, <1>2, PcMove DEF Calling, Claimed

LEMMA ReserveKeeps ==
  ASSUME TurnInv, NEW e \in Executor, Reserve(e)
  PROVE  Kept
<1>1. run[e].pc = "reserve" /\ run[e].calls # <<>> /\ run[e].calls \in Seq(Call)
  BY RunFacts DEF Reserve, At, RunOK, Working, Calling, RunType
<1>2. Good([run[e] EXCEPT !.pc = "execute"], Len(log))
  BY <1>1, CallMove DEF Calling
<1>3. Head(run[e].calls) \in Call /\ CurrentId(run[e]) \in ExecId
  BY <1>1, CurrentIdFacts DEF Calling
<1>4. DataOK'
  BY <1>3 DEF Reserve, DataOK, TurnInv, LedgerStatus
<1> QED
  BY <1>2, <1>4, LocalKeeps DEF Kept, Reserve

LEMMA StartToolKeeps ==
  ASSUME TurnInv, NEW e \in Executor, StartTool(e)
  PROVE  Kept
<1>1. Good([run[e] EXCEPT !.pc = "running"], Len(log))
  BY CallMove DEF Calling, StartTool, At
<1>2. DataOK'
  <2>1. CurrentId(run[e]) \in ExecId
    BY CurrentIdFacts DEF StartTool, At, Calling
  <2>2. started \in [ExecId -> Nat] /\ started[CurrentId(run[e])] + 1 \in Nat
    BY <2>1 DEF TurnInv, DataOK
  <2>3. started' \in [ExecId -> Nat]
    BY <2>2 DEF StartTool
  <2> QED
    BY <2>3 DEF StartTool, DataOK, TurnInv
<1> QED
  BY <1>1, <1>2, LocalKeeps DEF Kept, StartTool

LEMMA NeedsApprovalKeeps ==
  ASSUME TurnInv, NEW e \in Executor, NeedsApproval(e)
  PROVE  Kept
<1>1. Good([run[e] EXCEPT !.pc = "hold"], Len(log))
  BY CallMove DEF Calling, NeedsApproval, At
<1> QED
  BY <1>1, LocalKeeps, DataRests DEF Kept, NeedsApproval, TurnInv

LEMMA AskUserKeeps ==
  ASSUME TurnInv, NEW e \in Executor, AskUser(e)
  PROVE  Kept
<1>1. Good([run[e] EXCEPT !.pc = "asking"], Len(log))
  BY CallMove DEF Calling, AskUser, At
<1> QED
  BY <1>1, SideKeeps, DataRests DEF Kept, AskUser, TurnInv

LEMMA UserAnswersKeeps ==
  ASSUME TurnInv, NEW e \in Executor, UserAnswers(e)
  PROVE  Kept
<1>1. Good([run[e] EXCEPT !.pc = "answered"], Len(log))
  BY CallMove DEF Calling, UserAnswers, At
<1> QED
  BY <1>1, SideKeeps, DataRests DEF Kept, UserAnswers, TurnInv

LEMMA ToolReturnsKeeps ==
  ASSUME TurnInv, NEW e \in Executor, ToolReturns(e)
  PROVE  Kept
<1>1. PICK result \in {"executed", "rejected"} :
        Goto(e, [run[e] EXCEPT !.pc = "record", !.goal = result])
  BY DEF ToolReturns
<1> DEFINE c == [run[e] EXCEPT !.pc = "record", !.goal = result]
<1>2. /\ run[e] \in RunType /\ RunOK(run[e]) /\ run[e].seq <= Len(log) + 1
      /\ run[e].pc \in {"running", "asking", "answered"}
  BY RunFacts DEF ToolReturns, At
<1>3. /\ c \in RunType /\ c.pc = "record" /\ c.goal = result /\ c.seq = run[e].seq
      /\ c.step = run[e].step /\ c.calls = run[e].calls /\ c.count = run[e].count
  BY <1>2 DEF RunType, Claimed, LedgerStatus
<1>4. Good(c, Len(log))
  BY <1>2, <1>3 DEF Good, RunOK, Working, Calling
<1> QED
  BY <1>1, <1>4, LocalKeeps, DataRests DEF Kept, ToolReturns, TurnInv

LEMMA ToolAbortsKeeps ==
  ASSUME TurnInv, NEW e \in Executor, ToolAborts(e)
  PROVE  Kept
  BY LeavingKeeps, DataRests DEF ToolAborts, Kept, TurnInv

LEMMA HoldKeeps ==
  ASSUME TurnInv, NEW e \in Executor, Hold(e)
  PROVE  Kept
<1>1. Good([run[e] EXCEPT !.pc = "approval"], Len(log))
  BY CallMove DEF Calling, Hold, At
<1>2. DataOK'
  BY DEF Hold, DataOK, TurnInv, LedgerStatus
<1> QED
  BY <1>1, <1>2, LocalKeeps DEF Kept, Hold

LEMMA ApprovalKeeps ==
  ASSUME TurnInv, NEW e \in Executor, Approval(e)
  PROVE  Kept
<1> DEFINE c == Past(run[e], "approval")
<1>1. /\ run[e] \in RunType /\ run[e].seq <= Len(log) + 1
      /\ Len(log) \in Nat /\ MaxSeq \in Nat /\ run[e].seq \in Nat
  BY RunFacts
<1>2. ASSUME run[e].seq \in 1..MaxSeq PROVE Good(Finish(c, "Interrupted"), Len(log) + 1)
  <2>1. run[e].seq + 1 \in 1..(MaxSeq + 1) /\ run[e].seq + 1 <= Len(log) + 1 + 1
    BY <1>1, <1>2
  <2>2. c \in RunType /\ c.seq = run[e].seq + 1
    BY <1>1, <2>1 DEF RunType, Past, Claimed
  <2> QED
    BY <2>1, <2>2, FinishIsGood DEF Terminal
<1>3. "tool_approval_required" \in Kind /\ NoRef \in Ref
  BY ExecutionAssumption
<1> QED
  BY <1>2, <1>3, WriteKeeps, DataRests DEF Kept, Approval, TurnInv

-----------------------------------------------------------------------------
(* Leaving *)

(* A closing event at a number the run may use. *)
LEMMA FinalizeKeeps ==
  ASSUME TurnInv, NEW e \in Executor, NEW o \in Terminal, InBounds(e),
         Finalize(e, o, run[e].seq)
  PROVE  /\ CommittedInSequence' /\ AtomicNext
         /\ Len(log') = Len(log) + 1 /\ Len(log') \in Nat
<1>1. StoreTypeOK /\ CommittedInSequence
  BY DEF TurnInv, StoreInv
<1>2. Len(log) \in Nat /\ run[e].seq \in 1..MaxSeq /\ run[e].seq <= Len(log) + 1
  BY RunFacts DEF InBounds
<1>3. run[e].seq \in 1..(Len(log) + 1)
  BY <1>2, RunFacts
<1>4. AtomicNext
  BY <1>2 DEF AtomicNext, ExecutorOp
<1>5. Event(run[e].seq, o, NoRef, held[e]) \in EventType
  BY <1>1, <1>2, StoreAssumption DEF Event, EventType, StoreTypeOK
<1>6. Event(run[e].seq, o, NoRef, held[e]).seq = run[e].seq
  BY DEF Event
<1>7. CommittedInSequence' /\ Len(log') = Len(log) + 1
  BY <1>1, <1>3, <1>5, <1>6, NextNumber DEF Finalize
<1> QED
  BY <1>2, <1>4, <1>7

LEMMA FinalizeRunKeeps ==
  ASSUME TurnInv, NEW e \in Executor, FinalizeRun(e)
  PROVE  Kept
<1>1. Len(log) \in Nat /\ run[e].goal \in Terminal
  BY RunFacts DEF FinalizeRun, At, RunOK
<1>2. DataOK'
  BY DataRests DEF FinalizeRun, TurnInv
<1>3. ASSUME Ended(e), NEW n \in Nat PROVE \E c : Goto(e, c) /\ Good(c, n)
  BY <1>3, VerdictIsGood, IdleIsGood DEF Ended
<1>4. CASE Finalize(e, run[e].goal, run[e].seq) /\ Ended(e)
  <2>1. /\ CommittedInSequence' /\ AtomicNext
        /\ Len(log') = Len(log) + 1 /\ Len(log') \in Nat
    BY <1>1, <1>4, FinalizeKeeps DEF FinalizeRun
  <2>2. PICK c : Goto(e, c) /\ Good(c, Len(log'))
    BY <1>3, <1>4, <2>1
  <2>3. RunsGood'
    BY <1>1, <2>1, <2>2, MoveKeeps DEF TurnInv
  <2> QED
    BY <1>2, <2>1, <2>3 DEF Kept
<1>5. CASE Ended(e) /\ UNCHANGED storeVars
  <2>1. PICK c : Goto(e, c) /\ Good(c, Len(log))
    BY <1>1, <1>3, <1>5
  <2> QED
    BY <1>2, <1>5, <2>1, LocalKeeps DEF Kept
<1>6. CASE Break(e) /\ UNCHANGED storeVars
  BY <1>2, <1>6, BreakingKeeps DEF Kept
<1> QED
  BY <1>4, <1>5, <1>6 DEF FinalizeRun

LEMMA CatchKeeps ==
  ASSUME TurnInv, NEW e \in Executor, Catch(e)
  PROVE  Kept
<1>1. DataOK'
  BY DataRests DEF Catch, TurnInv
<1>2. CASE Leave(e)
  BY <1>1, <1>2, LeavingKeeps DEF Kept, Catch
<1>3. CASE Goto(e, [run[e] EXCEPT !.pc = "failTx", !.seq = Len(log) + 1, !.goal = "Failed"])
  <2> DEFINE c == [run[e] EXCEPT !.pc = "failTx", !.seq = Len(log) + 1, !.goal = "Failed"]
  <2>1. run[e] \in RunType /\ Len(log) + 1 \in 1..(MaxSeq + 1) /\ Len(log) \in Nat
    BY RunFacts
  <2>2. c \in RunType /\ c.pc = "failTx" /\ c.seq = Len(log) + 1
    BY <2>1 DEF RunType, Claimed, Terminal
  <2>3. Good(c, Len(log))
    BY <2>1, <2>2 DEF Good, RunOK, Working, Calling
  <2> QED
    BY <1>1, <1>3, <2>3, LocalKeeps DEF Kept, Catch
<1> QED
  BY <1>2, <1>3 DEF Catch

LEMMA CatchCommitsKeeps ==
  ASSUME TurnInv, NEW e \in Executor, CatchCommits(e)
  PROVE  Kept
<1>1. DataOK' /\ Len(log) \in Nat
  BY DataRests, RunFacts DEF CatchCommits, TurnInv
<1>2. CASE Finalize(e, "Failed", run[e].seq)
  <2>1. /\ CommittedInSequence' /\ AtomicNext
        /\ Len(log') = Len(log) + 1 /\ Len(log') \in Nat
    BY <1>2, FinalizeKeeps DEF CatchCommits, Terminal
  <2>2. Good(Idle, Len(log'))
    BY <2>1, IdleIsGood
  <2>3. RunsGood'
    BY <1>1, <2>1, <2>2, MoveKeeps DEF TurnInv, CatchCommits, Leave
  <2> QED
    BY <1>1, <2>1, <2>3 DEF Kept
<1>3. CASE UNCHANGED storeVars
  BY <1>1, <1>3, LeavingKeeps DEF CatchCommits, Kept
<1> QED
  BY <1>2, <1>3 DEF CatchCommits

LEMMA ReportKeeps ==
  ASSUME TurnInv, NEW e \in Executor, Report(e)
  PROVE  Kept
<1>1. run[e].goal \in {"Completed", "Failed"}
  BY RunFacts DEF Report, At, RunOK
<1>2. DataOK'
  BY <1>1 DEF Report, DataOK, TurnInv
<1> QED
  BY <1>2, LeavingKeeps DEF Report, Kept

LEMMA CrashKeeps ==
  ASSUME TurnInv, NEW e \in Executor, Crash(e)
  PROVE  Kept
<1>1. DataOK'
  <2>1. crashes + 1 \in 0..MaxCrash
    BY ExecutionAssumption DEF Crash, TurnInv, DataOK
  <2> QED
    BY <2>1 DEF Crash, TurnInv, DataOK
<1>2. CASE Leave(e) /\ Forget(e)
  <2>1. AtomicNext /\ UNCHANGED log
    BY <1>2 DEF Forget, AtomicNext, ExecutorOp
  <2>2. Good(Idle, Len(log))
    BY RunFacts, IdleIsGood
  <2> QED
    BY <1>1, <1>2, <2>1, <2>2, StoreStepKeeps DEF Leave, Kept
<1>3. CASE Leave(e) /\ UNCHANGED storeVars
  BY <1>1, <1>3, LeavingKeeps DEF Kept
<1>4. CASE EntryLeaves /\ UNCHANGED run
  <2>1. AtomicNext /\ UNCHANGED log
    BY <1>4 DEF EntryLeaves, AtomicNext, OtherOp
  <2> QED
    BY <1>1, <1>4, <2>1, StoreStepKeeps DEF Kept
<1> QED
  BY <1>2, <1>3, <1>4 DEF Crash

-----------------------------------------------------------------------------
(* The others *)

LEMMA OthersKeep ==
  ASSUME TurnInv, Cancel \/ CancelTurn \/ Recover \/ MarkUnknown \/ TimePasses
  PROVE  Kept
<1>1. CASE Cancel
  <2>1. AtomicNext /\ UNCHANGED log /\ UNCHANGED run
    BY <1>1 DEF Cancel, RequestCancel, AtomicNext, OtherOp
  <2>2. DataOK'
    BY <1>1 DEF Cancel, DataOK, TurnInv
  <2> QED
    BY <2>1, <2>2, StoreStepKeeps DEF Kept
<1>2. CASE CancelTurn
  <2>1. UNCHANGED storeVars /\ UNCHANGED run /\ UNCHANGED log
    BY <1>2 DEF CancelTurn, storeVars
  <2>2. RunsGood' /\ CommittedInSequence'
    BY <2>1 DEF TurnInv, RunsGood, CommittedInSequence
  <2>3. DataOK'
    BY <1>2 DEF CancelTurn, DataOK, TurnInv
  <2> QED
    BY <2>1, <2>2, <2>3 DEF Kept
<1>3. CASE Recover \/ TimePasses
  <2>1. AtomicNext /\ UNCHANGED log /\ UNCHANGED run /\ UNCHANGED data
    BY <1>3 DEF Recover, TimePasses, RecoverExpired, LeaseExpires, AtomicNext, OtherOp,
                execVars, data
  <2> QED
    BY <2>1, StoreStepKeeps, DataRests DEF Kept, TurnInv
<1>4. CASE MarkUnknown
  <2>1. UNCHANGED storeVars /\ UNCHANGED run /\ UNCHANGED log
    BY <1>4 DEF MarkUnknown, storeVars
  <2>2. RunsGood' /\ CommittedInSequence'
    BY <2>1 DEF TurnInv, RunsGood, CommittedInSequence
  <2>3. DataOK'
    BY <1>4 DEF MarkUnknown, DataOK, TurnInv, LedgerStatus
  <2> QED
    BY <2>1, <2>2, <2>3 DEF Kept
<1> QED
  BY <1>1, <1>2, <1>3, <1>4

-----------------------------------------------------------------------------
(* The theorems *)

LEMMA TurnInitInv == Init => TurnInv /\ StoreInit
<1> SUFFICES ASSUME Init PROVE TurnInv /\ StoreInit
  OBVIOUS
<1>1. StoreInit /\ StoreInv /\ log = <<>>
  BY StoreInitInv DEF Init, StoreInit
<1>2. Len(log) = 0 /\ DOMAIN log = {}
  BY <1>1
<1>3. RunsGood
  <2>1. Good(Idle, Len(log))
    BY <1>2, IdleIsGood
  <2>2. Idle \in RunType
    BY <2>1 DEF Good
  <2> QED
    BY <2>1, <2>2 DEF Init, RunsGood
<1>4. DataOK
  BY ExecutionAssumption DEF Init, DataOK, LedgerStatus
<1>5. CommittedInSequence
  BY <1>2 DEF CommittedInSequence
<1> QED
  BY <1>1, <1>3, <1>4, <1>5 DEF TurnInv

LEMMA TurnNextKeeps == TurnInv /\ [Next]_vars => Kept
<1> SUFFICES ASSUME TurnInv, [Next]_vars PROVE Kept
  OBVIOUS
<1>1. CASE EntryStep
  BY <1>1, StartTurnKeeps, SkipTurnKeeps, SetupFailsKeeps, SetupFailedKeeps DEF EntryStep
<1>2. ASSUME NEW e \in Executor, LoopStep(e) PROVE Kept
  BY <1>2, ClaimPlannedKeeps, MessageKeeps, CheckKeeps, RenewStepKeeps, ReasoningKeeps,
     ModelBreaksKeeps, ModelAnswersKeeps, SegmentKeeps, RequestKeeps, DuplicateKeeps,
     ReserveKeeps, StartToolKeeps, NeedsApprovalKeeps, AskUserKeeps, ToolReturnsKeeps,
     ToolAbortsKeeps, RecordKeeps, HoldKeeps, ApprovalKeeps, FinalizeRunKeeps,
     CatchKeeps, CatchCommitsKeeps, ReportKeeps DEF LoopStep
<1>3. ASSUME NEW e \in Executor, Beat(e) \/ HostScan(e) \/ UserAnswers(e) \/ Crash(e)
      PROVE  Kept
  BY <1>3, BeatKeeps, HostScanKeeps, UserAnswersKeeps, CrashKeeps
<1>4. CASE Cancel \/ CancelTurn \/ Recover \/ MarkUnknown \/ TimePasses
  BY <1>4, OthersKeep
<1>5. CASE UNCHANGED vars
  <2>1. UNCHANGED storeVars /\ UNCHANGED data /\ UNCHANGED run /\ UNCHANGED log
    BY <1>5 DEF vars, execVars, data, storeVars
  <2>2. RunsGood' /\ CommittedInSequence'
    BY <2>1 DEF TurnInv, RunsGood, CommittedInSequence
  <2> QED
    BY <2>1, <2>2, DataRests DEF Kept, TurnInv
<1> QED
  BY <1>1, <1>2, <1>3, <1>4, <1>5 DEF Next

LEMMA TurnNextInv == TurnInv /\ [Next]_vars => TurnInv' /\ [AtomicNext]_storeVars
<1> SUFFICES ASSUME TurnInv, [Next]_vars PROVE TurnInv' /\ [AtomicNext]_storeVars
  OBVIOUS
<1>1. Kept
  BY TurnNextKeeps
<1>2. StoreInv'
  BY <1>1, StoreNextInv DEF Kept, TurnInv, StoreNext
<1> QED
  BY <1>1, <1>2 DEF Kept, TurnInv

THEOREM TurnInvariant == Spec => []TurnInv
<1>1. Init => TurnInv
  BY TurnInitInv
<1>2. TurnInv /\ [Next]_vars => TurnInv'
  BY TurnNextInv
<1> QED
  BY <1>1, <1>2, PTL DEF Spec

(* Every variable keeps its type, at any bound. *)
THEOREM TurnTyped == Spec => []ExecTypeOK
<1>1. TurnInv => ExecTypeOK
  BY DEF TurnInv, StoreInv, RunsGood, DataOK, ExecTypeOK
<1> QED
  BY <1>1, TurnInvariant, PTL

(* The agent loop with its hosts, user, cancel route and recovery worker   *)
(* is a client of the attempt store: every behaviour of the one, seen      *)
(* through the rows of the database, is a behaviour of the other.          *)
THEOREM ImplementsStore == Spec => AtomicSpec
<1>1. Init => StoreInit
  BY TurnInitInv
<1>2. TurnInv /\ [Next]_vars => [AtomicNext]_storeVars
  BY TurnNextInv
<1> QED
  BY <1>1, <1>2, TurnInvariant, PTL DEF Spec, AtomicSpec

(* Whoever writes, the events of a Turn are committed as 1, 2, 3, ...      *)
THEOREM NumberedInOrder == Spec => []CommittedInSequence
<1>1. TurnInv => CommittedInSequence
  BY DEF TurnInv
<1> QED
  BY <1>1, TurnInvariant, PTL

(* What is proved of the store holds of the program at work: one executor  *)
(* that can commit, and an end that is for good.                           *)
THEOREM TurnHasOneWriter == Spec => []SingleWriter /\ FinishedIsFinal
  BY ImplementsStore, AtomicIsStore, OneWriterAtATime, FinishedStaysFinished, PTL

(* executeTurn never says a false, a second or no goodbye, whoever takes   *)
(* the attempt over, cancels it or recovers it.                            *)
THEOREM TurnEndsAloud == Spec => []EndingInvariant
  BY ImplementsStore, EndingsAreTold, PTL

-----------------------------------------------------------------------------
(***************************************************************************)
(* What was done, what the ledger says and what the stream tells agree,    *)
(* for any number of executors, calls, Steps, crashes and preemptions      *)
(* (LedgerKept).                                                           *)
(*                                                                         *)
(* LedgerInvariant is not inductive: why a result may be recorded, or a    *)
(* row reserved, is known to the run only.  LedgerInv adds what each run   *)
(* that has a call in hand (HasCall) can rely on: its call is requested,   *)
(* reserved before it is run, settles every earlier call of its claim, and *)
(* belongs to it alone unless two runs requested under one executionId.    *)
(* Most steps of the program are quiet (Quiet): they touch none of this.   *)
(***************************************************************************)

(* From tool_request to its result; and from the reservation on. *)
Open     == Calling \ {"request"}
Reserved == Open \ {"duplicate", "reserve"}

HasCall(e) == run[e].pc \in Open
Id(e)      == CurrentId(run[e])
Asked(x)   == Logged("tool_request", x)
Settled(x) == Logged("tool_result", x)

RowsHaveTool == \A x \in ExecId : ledger[x] # "none" => tool[x] # NoCall

CallsAreAsked ==
  \A e \in Executor : HasCall(e) =>
    Asked(Id(e)) /\ (run[e].pc \in Reserved => ledger[Id(e)] # "none")

SettledWasAsked == \A x \in ExecId : Settled(x) => Asked(x)

SharedIsTwice ==
  \A e, f \in Executor :
    e # f /\ HasCall(e) /\ HasCall(f) /\ Id(e) = Id(f) => RequestedTwice(Id(e))

SettledAgainIsTwice ==
  \A e \in Executor : HasCall(e) /\ Settled(Id(e)) => RequestedTwice(Id(e))

OpenIsMine ==
  \A e \in Executor : \A i \in DOMAIN log :
    /\ run[e].pc \in Working
    /\ log[i].kind = "tool_request" /\ log[i].token = held[e]
    => Settled(log[i].ref) \/ (HasCall(e) /\ log[i].ref = Id(e))

LedgerInv ==
  /\ RowsHaveTool /\ CallsAreAsked /\ SettledWasAsked
  /\ SharedIsTwice /\ SettledAgainIsTwice /\ OpenIsMine
  /\ EffectHasIntent /\ OneOpenCallPerClaim /\ LedgerMatchesStream

-----------------------------------------------------------------------------
(* The stream *)

NoTool(ev) == ev.kind \notin {"tool_request", "tool_result"}

(* What one more event changes for the questions asked of the stream. *)
LEMMA OneMoreEvent ==
  ASSUME TurnInv, NEW ev \in EventType, log' = Append(log, ev)
  PROVE  /\ \A kind, x : Logged(kind, x)' <=> Logged(kind, x) \/ (ev.kind = kind /\ ev.ref = x)
         /\ \A x : RequestedTwice(x)' <=>
              RequestedTwice(x) \/ (ev.kind = "tool_request" /\ ev.ref = x /\ Asked(x))
         /\ \A i \in DOMAIN log : i \in DOMAIN log' /\ log'[i] = log[i]
         /\ \A i \in DOMAIN log' : i \in DOMAIN log \/ log'[i] = ev
<1>1. /\ DOMAIN log = 1..Len(log) /\ Len(log) \in Nat
      /\ DOMAIN log' = 1..(Len(log) + 1) /\ log'[Len(log) + 1] = ev
      /\ \A i \in DOMAIN log : i \in DOMAIN log' /\ log'[i] = log[i]
      /\ \A i \in DOMAIN log' : i \in DOMAIN log \/ i = Len(log) + 1
  BY AppendFacts DEF TurnInv, StoreInv, StoreTypeOK
<1>2. Len(log) + 1 \in DOMAIN log' /\ Len(log) + 1 \notin DOMAIN log
  BY <1>1
<1>3. ASSUME NEW kind, NEW x
      PROVE  Logged(kind, x)' <=> Logged(kind, x) \/ (ev.kind = kind /\ ev.ref = x)
  BY <1>1, <1>2 DEF Logged
<1>4. ASSUME NEW x
      PROVE  RequestedTwice(x)' <=>
               RequestedTwice(x) \/ (ev.kind = "tool_request" /\ ev.ref = x /\ Asked(x))
  <2>1. CASE RequestedTwice(x)
    BY <1>1, <2>1 DEF RequestedTwice
  <2>2. ASSUME ev.kind = "tool_request", ev.ref = x, Asked(x) PROVE RequestedTwice(x)'
    <3>1. PICK i \in DOMAIN log : log[i].kind = "tool_request" /\ log[i].ref = x
      BY <2>2 DEF Asked, Logged
    <3>2. i \in DOMAIN log' /\ log'[i] = log[i] /\ i # Len(log) + 1
      BY <1>1, <1>2
    <3> QED
      BY <1>1, <1>2, <2>2, <3>1, <3>2 DEF RequestedTwice
  <2>3. ASSUME RequestedTwice(x)', ~RequestedTwice(x)
        PROVE  ev.kind = "tool_request" /\ ev.ref = x /\ Asked(x)
    <3>1. PICK i \in DOMAIN log', j \in DOMAIN log' :
            /\ i # j /\ log'[i].kind = "tool_request" /\ log'[j].kind = "tool_request"
            /\ log'[i].ref = x /\ log'[j].ref = x
      BY <2>3 DEF RequestedTwice
    <3>2. i \notin DOMAIN log \/ j \notin DOMAIN log
      BY <1>1, <2>3, <3>1 DEF RequestedTwice
    <3> QED
      BY <1>1, <3>1, <3>2 DEF Asked, Logged
  <2> QED
    BY <2>1, <2>2, <2>3
<1> QED
  BY <1>1, <1>3, <1>4

(* The stream rests, or grows by an event that is about no tool call. *)
LogQuiet ==
  \/ log' = log
  \/ \E ev \in EventType : NoTool(ev) /\ log' = Append(log, ev)

LEMMA QuietStream ==
  ASSUME TurnInv, LogQuiet
  PROVE  /\ \A kind \in {"tool_request", "tool_result"} : \A x :
              Logged(kind, x)' <=> Logged(kind, x)
         /\ \A x : (Asked(x)' <=> Asked(x)) /\ (Settled(x)' <=> Settled(x))
         /\ \A x : RequestedTwice(x)' <=> RequestedTwice(x)
         /\ \A i \in DOMAIN log' :
              log'[i].kind = "tool_request" => i \in DOMAIN log /\ log'[i] = log[i]
<1>1. CASE log' = log
  BY <1>1 DEF Logged, Asked, Settled, RequestedTwice
<1>2. ASSUME NEW ev \in EventType, NoTool(ev), log' = Append(log, ev)
      PROVE  /\ \A kind \in {"tool_request", "tool_result"} : \A x :
                  Logged(kind, x)' <=> Logged(kind, x)
             /\ \A x : (Asked(x)' <=> Asked(x)) /\ (Settled(x)' <=> Settled(x))
             /\ \A x : RequestedTwice(x)' <=> RequestedTwice(x)
             /\ \A i \in DOMAIN log' :
                  log'[i].kind = "tool_request" => i \in DOMAIN log /\ log'[i] = log[i]
  <2>1. /\ \A kind, x : Logged(kind, x)' <=> Logged(kind, x) \/ (ev.kind = kind /\ ev.ref = x)
        /\ \A x : RequestedTwice(x)' <=>
              RequestedTwice(x) \/ (ev.kind = "tool_request" /\ ev.ref = x /\ Asked(x))
        /\ \A i \in DOMAIN log : i \in DOMAIN log' /\ log'[i] = log[i]
        /\ \A i \in DOMAIN log' : i \in DOMAIN log \/ log'[i] = ev
    BY <1>2, OneMoreEvent
  <2>2. ev.kind # "tool_request" /\ ev.kind # "tool_result"
    BY <1>2 DEF NoTool
  <2>3. \A kind \in {"tool_request", "tool_result"} : \A x :
           Logged(kind, x)' <=> Logged(kind, x)
    BY <2>1, <2>2
  <2>4. \A x : (Asked(x)' <=> Asked(x)) /\ (Settled(x)' <=> Settled(x))
    BY <2>3 DEF Asked, Settled
  <2>5. \A x : RequestedTwice(x)' <=> RequestedTwice(x)
    BY <2>1, <2>2
  <2>6. \A i \in DOMAIN log' :
           log'[i].kind = "tool_request" => i \in DOMAIN log /\ log'[i] = log[i]
    BY <2>1, <2>2
  <2> QED
    BY <2>3, <2>4, <2>5, <2>6
<1> QED
  BY <1>1, <1>2 DEF LogQuiet

-----------------------------------------------------------------------------
(* Quiet steps *)

(* A run goes on from record c to record d without touching its call. *)
QuietMove(c, d) ==
  /\ d.pc \in Open => /\ c.pc \in Open /\ CurrentId(d) = CurrentId(c)
                      /\ d.pc \in Reserved => c.pc \in Reserved
  /\ d.pc \in Working => c.pc \in Working /\ (c.pc \in Open => d.pc \in Open)

(* A run begins under a token nobody has written with. *)
FreshStart(e) ==
  /\ run'[e].pc \notin Open
  /\ \A i \in DOMAIN log : log[i].token # held'[e]

Quiet ==
  /\ LogQuiet /\ UNCHANGED <<ledger, tool, started>>
  /\ \A e \in Executor :
       \/ QuietMove(run[e], run'[e]) /\ (run'[e].pc \in Working => held'[e] = held[e])
       \/ FreshStart(e)

LEMMA QuietKeeps ==
  ASSUME TurnInv, LedgerInv, Quiet
  PROVE  LedgerInv'
<1>1. /\ \A x : (Asked(x)' <=> Asked(x)) /\ (Settled(x)' <=> Settled(x))
      /\ \A x : RequestedTwice(x)' <=> RequestedTwice(x)
      /\ \A i \in DOMAIN log' :
           log'[i].kind = "tool_request" => i \in DOMAIN log /\ log'[i] = log[i]
  BY QuietStream DEF Quiet
<1>2. \A e \in Executor : HasCall(e)' =>
        HasCall(e) /\ Id(e)' = Id(e) /\ (run'[e].pc \in Reserved => run[e].pc \in Reserved)
  BY DEF Quiet, QuietMove, FreshStart, HasCall, Id, CurrentId
<1>3. UNCHANGED <<ledger, tool, started>>
  BY DEF Quiet
<1>4. RowsHaveTool' /\ SettledWasAsked'
  BY <1>1, <1>3 DEF LedgerInv, RowsHaveTool, SettledWasAsked
<1>5. CallsAreAsked'
  BY <1>1, <1>2, <1>3 DEF LedgerInv, CallsAreAsked
<1>6. SharedIsTwice' /\ SettledAgainIsTwice'
  BY <1>1, <1>2 DEF LedgerInv, SharedIsTwice, SettledAgainIsTwice
<1>7. OpenIsMine'
  <2> SUFFICES ASSUME NEW e \in Executor, NEW i \in DOMAIN log', run'[e].pc \in Working,
                      log'[i].kind = "tool_request", log'[i].token = held'[e]
               PROVE  (Settled(log[i].ref) \/ (HasCall(e) /\ log[i].ref = Id(e)))'
    BY DEF OpenIsMine
  <2>1. i \in DOMAIN log /\ log'[i] = log[i]
    BY <1>1
  <2>2. /\ QuietMove(run[e], run'[e]) /\ held'[e] = held[e]
    BY <2>1 DEF Quiet, FreshStart
  <2>3. run[e].pc \in Working /\ (HasCall(e) => HasCall(e)')
    BY <2>2 DEF QuietMove, HasCall
  <2>4. Settled(log[i].ref) \/ (HasCall(e) /\ log[i].ref = Id(e))
    BY <2>1, <2>2, <2>3 DEF LedgerInv, OpenIsMine
  <2> QED
    BY <1>1, <1>2, <2>1, <2>3, <2>4 DEF Settled, Logged
<1>8. EffectHasIntent'
  BY <1>1, <1>3 DEF LedgerInv, EffectHasIntent, Asked
<1>9. OneOpenCallPerClaim'
  BY <1>1 DEF LedgerInv, OneOpenCallPerClaim, Settled
<1>10. LedgerMatchesStream'
  BY <1>1, <1>3 DEF LedgerInv, LedgerMatchesStream, Settled
<1> QED
  BY <1>4, <1>5, <1>6, <1>7, <1>8, <1>9, <1>10 DEF LedgerInv

-----------------------------------------------------------------------------
(* The quiet actions *)

(* One run makes a quiet move, or one that is not at work afterwards. *)
LEMMA MoveIsQuiet ==
  ASSUME TurnInv, LogQuiet, UNCHANGED <<ledger, tool, started>>,
         NEW e \in Executor, NEW c, Goto(e, c), QuietMove(run[e], c),
         \A f \in Executor \ {e} : held'[f] = held[f],
         c.pc \in Working => held'[e] = held[e]
  PROVE  Quiet
<1>1. run'[e] = c /\ \A f \in Executor \ {e} : run'[f] = run[f]
  BY DEF Goto, TurnInv, RunsGood
<1>2. \A f \in Executor : QuietMove(run[f], run[f])
  BY DEF QuietMove
<1> QED
  BY <1>1, <1>2 DEF Quiet

LEMMA RestIsQuiet ==
  ASSUME LogQuiet, UNCHANGED <<ledger, tool, started, run, held>>
  PROVE  Quiet
<1>1. \A f \in Executor : QuietMove(run[f], run'[f]) /\ held'[f] = held[f]
  BY DEF QuietMove
<1> QED
  BY <1>1 DEF Quiet

LEMMA IdleIsQuiet == \A c : QuietMove(c, Idle)
  BY DEF QuietMove, Idle, Open, Working, Calling

(* A move to a pc that is not at work is quiet. *)
LEMMA StopIsQuiet ==
  ASSUME NEW c, NEW d, d.pc \notin Working
  PROVE  QuietMove(c, d)
  BY DEF QuietMove, Open, Working

(* So is one between two pcs without a call. *)
LEMMA NoCallIsQuiet ==
  ASSUME NEW c, NEW d, c.pc \in Working \ Open, d.pc \notin Open
  PROVE  QuietMove(c, d)
  BY DEF QuietMove

LEMMA LeaveIsQuiet ==
  ASSUME TurnInv, NEW e \in Executor, Leave(e), LogQuiet, UNCHANGED data,
         \A f \in Executor \ {e} : held'[f] = held[f]
  PROVE  Quiet
<1>1. Idle.pc \notin Working
  BY DEF Idle, Working, Calling
<1> QED
  BY <1>1, IdleIsQuiet, MoveIsQuiet DEF Leave, data

LEMMA BreakIsQuiet ==
  ASSUME TurnInv, NEW e \in Executor, Break(e), UNCHANGED storeVars, UNCHANGED data
  PROVE  Quiet
<1> DEFINE c == [run[e] EXCEPT !.pc = "failing"]
<1>1. c.pc = "failing"
  BY RunFacts DEF RunType
<1>2. c.pc \notin Working
  BY <1>1 DEF Working, Calling
<1>3. QuietMove(run[e], c) /\ Goto(e, c)
  BY <1>2, StopIsQuiet DEF Break
<1>4. LogQuiet /\ UNCHANGED <<ledger, tool, started>> /\ UNCHANGED held
  BY DEF LogQuiet, data, storeVars
<1> QED
  BY <1>2, <1>3, <1>4, MoveIsQuiet

(* A fenced write that is about no tool call. *)
LEMMA WriteIsQuiet ==
  ASSUME TurnInv, NEW e \in Executor, NEW kind \in Kind, NEW ref \in Ref, NEW done,
         kind \notin {"tool_request", "tool_result"},
         Write(e, kind, ref, done), UNCHANGED data, QuietMove(run[e], done)
  PROVE  Quiet
<1>1. CASE AppendFenced(e, run[e].seq, kind, ref) /\ Goto(e, done)
  <2>1. Event(run[e].seq, kind, ref, held[e]) \in EventType
    BY DEF Write, InBounds, Event, EventType, TurnInv, StoreInv, StoreTypeOK
  <2>2. NoTool(Event(run[e].seq, kind, ref, held[e]))
    BY DEF NoTool, Event
  <2>3. LogQuiet /\ UNCHANGED held
    BY <1>1, <2>1, <2>2 DEF LogQuiet, AppendFenced
  <2> QED
    BY <1>1, <2>3, MoveIsQuiet DEF data
<1>2. CASE Leave(e) /\ UNCHANGED storeVars
  BY <1>2, LeaveIsQuiet DEF LogQuiet, storeVars
<1>3. CASE Break(e) /\ UNCHANGED storeVars
  BY <1>3, BreakIsQuiet
<1> QED
  BY <1>1, <1>2, <1>3 DEF Write

(* A step that leaves the store alone and makes a quiet move. *)
LEMMA LocalIsQuiet ==
  ASSUME TurnInv, NEW e \in Executor, NEW c, Goto(e, c), UNCHANGED <<storeVars, data>>,
         QuietMove(run[e], c)
  PROVE  Quiet
<1>1. LogQuiet /\ UNCHANGED <<ledger, tool, started>> /\ UNCHANGED held
  BY DEF LogQuiet, data, storeVars
<1> QED
  BY <1>1, MoveIsQuiet

(* A claim: the token is one nobody has written with. *)
LEMMA ClaimIsQuiet ==
  ASSUME TurnInv, NEW e \in Executor, NEW t, Claim(e, t), NEW c, Goto(e, c),
         c.pc \notin Open, UNCHANGED data
  PROVE  Quiet
<1>1. run'[e] = c /\ \A f \in Executor \ {e} : run'[f] = run[f]
  BY DEF Goto, TurnInv, RunsGood
<1>2. held'[e] = fencing + 1 /\ \A f \in Executor \ {e} : held'[f] = held[f]
  BY DEF Claim, TurnInv, StoreInv, StoreTypeOK
<1>3. \A i \in DOMAIN log : log[i].token # fencing + 1
  <2> SUFFICES ASSUME NEW i \in DOMAIN log PROVE log[i].token # fencing + 1
    OBVIOUS
  <2>1. log[i] \in EventType /\ log[i].token <= fencing /\ fencing \in Nat
    BY StoreAssumption DEF TurnInv, StoreInv, StoreTypeOK, EventsBelow
  <2>2. log[i].token \in Nat
    BY <2>1, StoreAssumption DEF EventType
  <2> QED
    BY <2>1, <2>2
<1>4. FreshStart(e)
  BY <1>1, <1>2, <1>3 DEF FreshStart
<1>5. \A f \in Executor : QuietMove(run[f], run[f])
  BY DEF QuietMove
<1>6. LogQuiet /\ UNCHANGED <<ledger, tool, started>>
  BY DEF Claim, LogQuiet, data
<1> QED
  BY <1>1, <1>2, <1>4, <1>5, <1>6 DEF Quiet

(* Questions, answers and the setup error. *)
LEMMA SideIsQuiet ==
  ASSUME TurnInv, Len(log) < MaxSeq, SideAppend(Len(log) + 1)
  PROVE  LogQuiet /\ UNCHANGED held
<1>1. Len(log) + 1 \in 1..MaxSeq
  BY LogBounded, StoreAssumption DEF TurnInv, StoreInv
<1>2. Event(Len(log) + 1, "side", NoRef, 0) \in EventType
  BY <1>1, StoreAssumption DEF Event, EventType
<1>3. NoTool(Event(Len(log) + 1, "side", NoRef, 0))
  BY DEF NoTool, Event
<1> QED
  BY <1>2, <1>3 DEF SideAppend, LogQuiet

LEMMA EntryIsQuiet ==
  ASSUME TurnInv, EntryStep
  PROVE  Quiet
<1>1. CASE StartTurn
  <2> DEFINE c == [Idle EXCEPT !.pc = "message", !.seq = Len(log) + 1]
  <2>1. c.pc \notin Open
    BY DEF Idle, Open, Calling
  <2>2. Claim(Api, 0) /\ Goto(Api, c) /\ UNCHANGED data /\ Api \in Executor
    BY <1>1, ExecutionAssumption DEF StartTurn, ClaimFresh
  <2> QED
    BY <2>1, <2>2, ClaimIsQuiet
<1>2. CASE SkipTurn
  BY <1>2, RestIsQuiet DEF SkipTurn, EntryLeaves, execVars, LogQuiet
<1>3. CASE SetupFails
  <2>1. Len(log) + 1 \in 1..MaxSeq
    BY <1>3, LogBounded, StoreAssumption DEF TurnInv, StoreInv, SetupFails
  <2>2. Event(Len(log) + 1, "Failed", NoRef, 0) \in EventType
    BY <2>1, StoreAssumption DEF Event, EventType, Terminal
  <2>3. NoTool(Event(Len(log) + 1, "Failed", NoRef, 0))
    BY DEF NoTool, Event
  <2>4. LogQuiet
    BY <1>3, <2>2, <2>3 DEF SetupFails, FailEntry, LogQuiet
  <2> QED
    BY <1>3, <2>4, RestIsQuiet DEF SetupFails, FailEntry, execVars
<1>4. CASE SetupFailed
  <2> DEFINE c == [Idle EXCEPT !.pc = "report", !.goal = "Failed"]
  <2>1. c.pc \notin Working
    BY DEF Idle, Working, Calling
  <2>2. LogQuiet /\ UNCHANGED held /\ UNCHANGED <<ledger, tool, started>>
    BY <1>4 DEF SetupFailed, FailEntryStatus, LogQuiet, data
  <2>3. Goto(Api, c) /\ Api \in Executor
    BY <1>4, ExecutionAssumption DEF SetupFailed
  <2> QED
    BY <2>1, <2>2, <2>3, StopIsQuiet, MoveIsQuiet
<1> QED
  BY <1>1, <1>2, <1>3, <1>4 DEF EntryStep

LEMMA ClaimPlannedIsQuiet ==
  ASSUME TurnInv, NEW e \in Executor, ClaimPlanned(e)
  PROVE  Quiet
<1>1. UNCHANGED data
  BY DEF ClaimPlanned
<1>2. CASE Leave(e) /\ UNCHANGED storeVars
  BY <1>1, <1>2, LeaveIsQuiet DEF LogQuiet, storeVars
<1>3. CASE /\ ClaimExpired(e, run[e].plan)
           /\ Goto(e, [run[e] EXCEPT !.pc = IF run[e].step > MaxSteps THEN "budget" ELSE "open"])
  <2> DEFINE c == [run[e] EXCEPT !.pc = IF run[e].step > MaxSteps THEN "budget" ELSE "open"]
  <2>1. c.pc \in {"budget", "open"}
    BY RunFacts DEF RunType
  <2>2. c.pc \notin Open
    BY <2>1 DEF Open, Calling
  <2>3. Claim(e, run[e].plan) /\ Goto(e, c)
    BY <1>3 DEF ClaimExpired
  <2> QED
    BY <1>1, <2>2, <2>3, ClaimIsQuiet
<1> QED
  BY <1>2, <1>3 DEF ClaimPlanned

LEMMA MessageIsQuiet ==
  ASSUME TurnInv, NEW e \in Executor, Message(e)
  PROVE  Quiet
<1>1. run[e].pc = "message" /\ Past(run[e], "open").pc = "open"
  BY RunFacts DEF Message, At, Past, RunType
<1>2. QuietMove(run[e], Past(run[e], "open"))
  BY <1>1, NoCallIsQuiet DEF Working, Open, Calling
<1>3. "message" \in Kind /\ NoRef \in Ref
  BY ExecutionAssumption
<1> QED
  BY <1>2, <1>3, WriteIsQuiet DEF Message

LEMMA CheckIsQuiet ==
  ASSUME TurnInv, NEW e \in Executor, Check(e)
  PROVE  Quiet
<1>1. run[e] \in RunType /\ run[e].pc \in {"open", "model", "last", "batch", "budget"}
  BY RunFacts DEF Check
<1>2. \A ending : QuietMove(run[e], Finish(run[e], ending))
  <2> SUFFICES ASSUME NEW ending PROVE QuietMove(run[e], Finish(run[e], ending))
    OBVIOUS
  <2>1. Finish(run[e], ending).pc = "finalize"
    BY <1>1 DEF Finish, RunType
  <2> QED
    BY <2>1, StopIsQuiet DEF Working, Calling
<1>3. QuietMove(run[e], AfterCheck(run[e]))
  <2>1. CASE run[e].pc \in {"last", "budget"}
    BY <1>2, <2>1 DEF AfterCheck
  <2>2. CASE run[e].pc \in {"open", "model", "batch"}
    <3>1. AfterCheck(run[e]).pc \in {"renew", "model", "request"}
      BY <1>1, <2>2 DEF AfterCheck, RunType
    <3> QED
      BY <2>2, <3>1, NoCallIsQuiet DEF Working, Open, Calling
  <2> QED
    BY <1>1, <2>1, <2>2
<1>4. PICK c : Goto(e, c) /\ QuietMove(run[e], c)
  BY <1>2, <1>3 DEF Check
<1> QED
  BY <1>4, LocalIsQuiet DEF Check

LEMMA RenewStepIsQuiet ==
  ASSUME TurnInv, NEW e \in Executor, RenewStep(e)
  PROVE  Quiet
<1>1. CASE Renew(e) /\ Goto(e, [run[e] EXCEPT !.pc = "model"])
  <2> DEFINE c == [run[e] EXCEPT !.pc = "model"]
  <2>1. run[e].pc = "renew" /\ c.pc = "model"
    BY RunFacts DEF RenewStep, At, RunType
  <2>2. QuietMove(run[e], c)
    BY <2>1, NoCallIsQuiet, ZenonT(60) DEF Working, Open, Calling
  <2>3. LogQuiet /\ UNCHANGED held /\ UNCHANGED <<ledger, tool, started>>
    BY <1>1 DEF Renew, LogQuiet, RenewStep, data
  <2> QED
    BY <1>1, <2>2, <2>3, MoveIsQuiet
<1>2. CASE Leave(e) /\ UNCHANGED storeVars
  BY <1>2, LeaveIsQuiet DEF LogQuiet, storeVars, RenewStep
<1> QED
  BY <1>1, <1>2 DEF RenewStep

LEMMA BeatIsQuiet ==
  ASSUME TurnInv, NEW e \in Executor, Beat(e)
  PROVE  Quiet
<1>1. CASE Renew(e) /\ UNCHANGED run
  BY <1>1, RestIsQuiet DEF Beat, Renew, LogQuiet, data
<1>2. CASE Goto(e, [run[e] EXCEPT !.lost = TRUE]) /\ UNCHANGED storeVars
  <2> DEFINE c == [run[e] EXCEPT !.lost = TRUE]
  <2>1. c.pc = run[e].pc /\ CurrentId(c) = CurrentId(run[e])
    BY RunFacts DEF RunType, CurrentId
  <2>2. QuietMove(run[e], c)
    BY <2>1 DEF QuietMove
  <2> QED
    BY <1>2, <2>2, LocalIsQuiet DEF Beat
<1> QED
  BY <1>1, <1>2 DEF Beat

LEMMA ReasoningIsQuiet ==
  ASSUME TurnInv, NEW e \in Executor, Reasoning(e)
  PROVE  Quiet
<1> DEFINE c == [run[e] EXCEPT !.seq = @ + 1, !.thought = @ + 1]
<1>1. run[e].pc = "model" /\ c.pc = "model"
  BY RunFacts DEF Reasoning, At, RunType
<1>2. QuietMove(run[e], c)
  BY <1>1, NoCallIsQuiet DEF Working, Open, Calling
<1>3. CASE AppendFenced(e, run[e].seq, "reasoning_delta", NoRef) /\ Goto(e, c)
  <2>1. "reasoning_delta" \in Kind /\ NoRef \in Ref
    BY ExecutionAssumption
  <2>2. Write(e, "reasoning_delta", NoRef, c) /\ UNCHANGED data
    BY <1>3 DEF Write, Reasoning
  <2> QED
    BY <1>2, <2>1, <2>2, WriteIsQuiet
<1>4. CASE Goto(e, c) /\ UNCHANGED storeVars
  BY <1>2, <1>4, LocalIsQuiet DEF Reasoning
<1>5. CASE Leave(e) /\ UNCHANGED storeVars
  BY <1>5, LeaveIsQuiet DEF Reasoning, LogQuiet, storeVars
<1> QED
  BY <1>3, <1>4, <1>5 DEF Reasoning

LEMMA ModelIsQuiet ==
  ASSUME TurnInv, NEW e \in Executor, ModelBreaks(e) \/ ModelAnswers(e)
  PROVE  Quiet
<1>1. CASE ModelBreaks(e)
  BY <1>1, BreakIsQuiet DEF ModelBreaks
<1>2. CASE ModelAnswers(e)
  <2>1. PICK a \in Answer :
          Goto(e, [run[e] EXCEPT !.calls = a.calls,
                     !.pc = IF a.text THEN "segment" ELSE AfterText(a.calls)])
    BY <1>2 DEF ModelAnswers
  <2> DEFINE c == [run[e] EXCEPT !.calls = a.calls,
                     !.pc = IF a.text THEN "segment" ELSE AfterText(a.calls)]
  <2>2. run[e].pc = "model" /\ c.pc \in {"segment", "last", "batch"}
    BY <1>2, RunFacts DEF ModelAnswers, At, RunType, AfterText
  <2> HIDE DEF c
  <2>3. QuietMove(run[e], c)
    BY <2>2, NoCallIsQuiet DEF Working, Open, Calling
  <2> QED
    BY <1>2, <2>1, <2>3, LocalIsQuiet, ZenonT(60) DEF ModelAnswers, c
<1> QED
  BY <1>1, <1>2

LEMMA SegmentIsQuiet ==
  ASSUME TurnInv, NEW e \in Executor, Segment(e)
  PROVE  Quiet
<1> DEFINE c == Past(run[e], AfterText(run[e].calls))
<1>1. run[e].pc = "segment" /\ c.pc \in {"last", "batch"}
  BY RunFacts DEF Segment, At, Past, RunType, AfterText
<1>2. QuietMove(run[e], c)
  BY <1>1, NoCallIsQuiet DEF Working, Open, Calling
<1>3. "delta" \in Kind /\ NoRef \in Ref
  BY ExecutionAssumption
<1> QED
  BY <1>2, <1>3, WriteIsQuiet DEF Segment

(* The tool at work: the call stays in hand. *)
LEMMA CallStaysIsQuiet ==
  ASSUME TurnInv, NEW e \in Executor, run[e].pc \in Reserved, NEW p \in Reserved,
         NEW c, c = [run[e] EXCEPT !.pc = p] \/ \E g : c = [run[e] EXCEPT !.pc = p, !.goal = g]
  PROVE  QuietMove(run[e], c)
<1>1. c.pc = p /\ CurrentId(c) = CurrentId(run[e])
  BY RunFacts, ZenonT(60) DEF RunType, CurrentId
<1> QED
  BY <1>1 DEF QuietMove, Reserved, Open, Working

LEMMA ToolIsQuiet ==
  ASSUME TurnInv, NEW e \in Executor,
         NeedsApproval(e) \/ AskUser(e) \/ UserAnswers(e) \/ ToolReturns(e) \/ ToolAborts(e)
  PROVE  Quiet
<1>1. CASE NeedsApproval(e)
  <2>1. QuietMove(run[e], [run[e] EXCEPT !.pc = "hold"])
    BY <1>1, CallStaysIsQuiet DEF NeedsApproval, At, Reserved, Open, Calling
  <2> QED
    BY <1>1, <2>1, LocalIsQuiet DEF NeedsApproval
<1>2. CASE AskUser(e)
  <2>1. QuietMove(run[e], [run[e] EXCEPT !.pc = "asking"])
    BY <1>2, CallStaysIsQuiet DEF AskUser, At, Reserved, Open, Calling
  <2>2. LogQuiet /\ UNCHANGED held /\ UNCHANGED <<ledger, tool, started>>
    BY <1>2, SideIsQuiet DEF AskUser, data
  <2> QED
    BY <1>2, <2>1, <2>2, MoveIsQuiet DEF AskUser
<1>3. CASE UserAnswers(e)
  <2>1. QuietMove(run[e], [run[e] EXCEPT !.pc = "answered"])
    BY <1>3, CallStaysIsQuiet DEF UserAnswers, At, Reserved, Open, Calling
  <2>2. LogQuiet /\ UNCHANGED held /\ UNCHANGED <<ledger, tool, started>>
    BY <1>3, SideIsQuiet DEF UserAnswers, data
  <2> QED
    BY <1>3, <2>1, <2>2, MoveIsQuiet DEF UserAnswers
<1>4. CASE ToolReturns(e)
  <2>1. PICK result \in {"executed", "rejected"} :
          Goto(e, [run[e] EXCEPT !.pc = "record", !.goal = result])
    BY <1>4 DEF ToolReturns
  <2>2. run[e].pc \in Reserved /\ "record" \in Reserved
    BY <1>4 DEF ToolReturns, Reserved, Open, Calling
  <2>3. QuietMove(run[e], [run[e] EXCEPT !.pc = "record", !.goal = result])
    BY <2>2, CallStaysIsQuiet, ZenonT(60)
  <2> QED
    BY <1>4, <2>1, <2>3, LocalIsQuiet DEF ToolReturns
<1>5. CASE ToolAborts(e)
  BY <1>5, LeaveIsQuiet DEF ToolAborts, LogQuiet, storeVars
<1> QED
  BY <1>1, <1>2, <1>3, <1>4, <1>5

LEMMA ApprovalIsQuiet ==
  ASSUME TurnInv, NEW e \in Executor, Approval(e)
  PROVE  Quiet
<1> DEFINE c == Finish(Past(run[e], "approval"), "Interrupted")
<1>1. c.pc = "finalize"
  BY RunFacts DEF Finish, Past, RunType
<1>2. QuietMove(run[e], c)
  BY <1>1, StopIsQuiet DEF Working, Calling
<1>3. "tool_approval_required" \in Kind /\ NoRef \in Ref
  BY ExecutionAssumption
<1> QED
  BY <1>2, <1>3, WriteIsQuiet DEF Approval

(* Ends, verdicts and crashes: no run is at work afterwards. *)
LEMMA ClosingIsQuiet ==
  ASSUME TurnInv, NEW e \in Executor, NEW o \in Terminal, InBounds(e),
         Finalize(e, o, run[e].seq)
  PROVE  LogQuiet /\ UNCHANGED held
<1>1. Event(run[e].seq, o, NoRef, held[e]) \in EventType
  BY StoreAssumption DEF InBounds, Event, EventType, TurnInv, StoreInv, StoreTypeOK
<1>2. NoTool(Event(run[e].seq, o, NoRef, held[e]))
  BY DEF NoTool, Event, Terminal
<1> QED
  BY <1>1, <1>2 DEF Finalize, LogQuiet

LEMMA LeavingIsQuiet ==
  ASSUME TurnInv, NEW e \in Executor, FinalizeRun(e) \/ Catch(e) \/ CatchCommits(e) \/ Report(e)
  PROVE  Quiet
<1>1. CASE FinalizeRun(e)
  <2>1. run[e].goal \in Terminal /\ UNCHANGED data
    BY <1>1, RunFacts DEF FinalizeRun, At, RunOK
  <2>2. ASSUME Ended(e) PROVE \E c : Goto(e, c) /\ c.pc \notin Working
    <3>1. /\ Idle.pc \notin Working
          /\ [Idle EXCEPT !.pc = "report", !.goal = "Completed"].pc \notin Working
      BY DEF Idle, Working, Calling
    <3>2. CASE e = Api /\ run[e].goal = "Completed"
      BY <2>2, <3>1, <3>2 DEF Ended
    <3>3. CASE ~(e = Api /\ run[e].goal = "Completed")
      BY <2>2, <3>1, <3>3 DEF Ended
    <3> QED
      BY <3>2, <3>3
  <2>3. CASE Ended(e) /\ (UNCHANGED storeVars \/ Finalize(e, run[e].goal, run[e].seq))
    <3>1. PICK c : Goto(e, c) /\ c.pc \notin Working
      BY <2>2, <2>3
    <3>2. LogQuiet /\ UNCHANGED held
      BY <1>1, <2>1, <2>3, ClosingIsQuiet DEF FinalizeRun, LogQuiet, storeVars
    <3> QED
      BY <2>1, <3>1, <3>2, StopIsQuiet, MoveIsQuiet DEF data
  <2>4. CASE Break(e) /\ UNCHANGED storeVars
    BY <2>1, <2>4, BreakIsQuiet
  <2> QED
    BY <1>1, <2>3, <2>4 DEF FinalizeRun
<1>2. CASE Catch(e)
  <2>1. CASE Leave(e)
    BY <1>2, <2>1, LeaveIsQuiet DEF Catch, LogQuiet, storeVars
  <2>2. CASE Goto(e, [run[e] EXCEPT !.pc = "failTx", !.seq = Len(log) + 1, !.goal = "Failed"])
    <3> DEFINE c == [run[e] EXCEPT !.pc = "failTx", !.seq = Len(log) + 1, !.goal = "Failed"]
    <3>1. c.pc = "failTx"
      BY RunFacts DEF RunType
    <3>2. QuietMove(run[e], c)
      BY <3>1, StopIsQuiet DEF Working, Calling
    <3> QED
      BY <1>2, <2>2, <3>2, LocalIsQuiet DEF Catch
  <2> QED
    BY <1>2, <2>1, <2>2 DEF Catch
<1>3. CASE CatchCommits(e)
  <2>1. LogQuiet /\ UNCHANGED held
    BY <1>3, ClosingIsQuiet DEF CatchCommits, LogQuiet, storeVars, Terminal
  <2> QED
    BY <1>3, <2>1, LeaveIsQuiet DEF CatchCommits
<1>4. CASE Report(e)
  <2>1. LogQuiet /\ UNCHANGED held /\ UNCHANGED <<ledger, tool, started>>
    BY <1>4 DEF Report, LogQuiet, storeVars
  <2>2. Idle.pc \notin Working
    BY DEF Idle, Working, Calling
  <2> QED
    BY <1>4, <2>1, <2>2, IdleIsQuiet, MoveIsQuiet DEF Report, Leave
<1> QED
  BY <1>1, <1>2, <1>3, <1>4

LEMMA HostScanIsQuiet ==
  ASSUME TurnInv, NEW e \in Executor, HostScan(e)
  PROVE  Quiet
<1> DEFINE c == [Idle EXCEPT !.pc = "planned", !.plan = fencing,
                   !.seq = log[LastResult].seq + 1, !.step = LastStep + 1]
<1>1. c.pc = "planned" /\ Goto(e, c)
  BY DEF Idle, HostScan
<1>2. QuietMove(run[e], c)
  BY <1>1, StopIsQuiet DEF Working, Calling
<1> QED
  BY <1>1, <1>2, LocalIsQuiet DEF HostScan

LEMMA CrashIsQuiet ==
  ASSUME TurnInv, NEW e \in Executor, Crash(e)
  PROVE  Quiet
<1>1. UNCHANGED <<ledger, tool, started>> /\ LogQuiet
  BY DEF Crash, Forget, EntryLeaves, LogQuiet, storeVars
<1>2. CASE Leave(e) /\ (Forget(e) \/ UNCHANGED storeVars)
  <2>1. \A f \in Executor \ {e} : held'[f] = held[f]
    BY <1>2 DEF Forget, storeVars, TurnInv, StoreInv, StoreTypeOK
  <2>2. Idle.pc \notin Working
    BY DEF Idle, Working, Calling
  <2> QED
    BY <1>1, <1>2, <2>1, <2>2, IdleIsQuiet, MoveIsQuiet DEF Leave
<1>3. CASE EntryLeaves /\ UNCHANGED run
  BY <1>1, <1>3, RestIsQuiet DEF EntryLeaves
<1> QED
  BY <1>2, <1>3 DEF Crash

LEMMA OthersAreQuiet ==
  ASSUME Cancel \/ CancelTurn \/ Recover \/ TimePasses \/ UNCHANGED vars
  PROVE  Quiet
<1>1. LogQuiet /\ UNCHANGED <<ledger, tool, started, run, held>>
  BY DEF Cancel, RequestCancel, CancelTurn, Recover, RecoverExpired, TimePasses, LeaseExpires,
         vars, storeVars, execVars, LogQuiet
<1> QED
  BY <1>1, RestIsQuiet

-----------------------------------------------------------------------------
(* The steps that are not quiet: request, reserve, run, settle, hold *)

(* The record of one run changes, the others' do not. *)
LEMMA OneMoves ==
  ASSUME TurnInv, NEW e \in Executor, NEW c, Goto(e, c)
  PROVE  /\ run'[e] = c /\ \A f \in Executor \ {e} : run'[f] = run[f]
         /\ \A f \in Executor \ {e} : (HasCall(f)' <=> HasCall(f)) /\ Id(f)' = Id(f)
         /\ HasCall(e)' <=> c.pc \in Open
         /\ Id(e)' = CurrentId(c)
  BY DEF Goto, TurnInv, RunsGood, HasCall, Id, CurrentId

(* No two executors hold one token, but 0. *)
LEMMA OthersTokens ==
  ASSUME TurnInv, NEW e \in Executor, Fenced(e)
  PROVE  \A f \in Executor \ {e} : held[f] # held[e]
  BY DEF TurnInv, StoreInv, TokensDistinct, Fenced, Mine

LEMMA RequestCommits ==
  ASSUME TurnInv, LedgerInv, NEW e \in Executor, run[e].pc = "request",
         NEW c, Goto(e, c), c.pc \in {"duplicate", "reserve"}, NEW x \in ExecId, CurrentId(c) = x,
         InBounds(e), AppendFenced(e, run[e].seq, "tool_request", x), UNCHANGED data
  PROVE  LedgerInv'
<1> DEFINE ev == Event(run[e].seq, "tool_request", x, held[e])
<1>1. ev \in EventType /\ ev.kind = "tool_request" /\ ev.ref = x /\ ev.token = held[e]
  BY ExecutionAssumption DEF InBounds, Event, EventType, TurnInv, StoreInv, StoreTypeOK
<1>2. log' = Append(log, ev) /\ UNCHANGED <<held, ledger, tool, started>> /\ Fenced(e)
  BY DEF AppendFenced, data
<1> HIDE DEF ev
<1>3. /\ \A y : (Asked(y)' <=> Asked(y) \/ y = x) /\ (Settled(y)' <=> Settled(y))
      /\ \A y : RequestedTwice(y)' <=> RequestedTwice(y) \/ (y = x /\ Asked(y))
      /\ \A i \in DOMAIN log : i \in DOMAIN log' /\ log'[i] = log[i]
      /\ \A i \in DOMAIN log' : i \in DOMAIN log \/ log'[i] = ev
  <2>1. /\ \A kind, y : Logged(kind, y)' <=> Logged(kind, y) \/ (ev.kind = kind /\ ev.ref = y)
        /\ \A y : RequestedTwice(y)' <=>
             RequestedTwice(y) \/ (ev.kind = "tool_request" /\ ev.ref = y /\ Asked(y))
        /\ \A i \in DOMAIN log : i \in DOMAIN log' /\ log'[i] = log[i]
        /\ \A i \in DOMAIN log' : i \in DOMAIN log \/ log'[i] = ev
    BY <1>1, <1>2, OneMoreEvent
  <2> QED
    BY <1>1, <2>1 DEF Asked, Settled
<1>4. /\ run'[e] = c /\ \A f \in Executor \ {e} : run'[f] = run[f]
      /\ \A f \in Executor \ {e} : (HasCall(f)' <=> HasCall(f)) /\ Id(f)' = Id(f)
      /\ HasCall(e)' /\ Id(e)' = x
  BY OneMoves DEF Open, Calling
<1>5. c.pc \notin Reserved
  BY DEF Reserved
<1>6. RowsHaveTool' /\ SettledWasAsked'
  BY <1>2, <1>3 DEF LedgerInv, RowsHaveTool, SettledWasAsked
<1>7. CallsAreAsked'
  <2> SUFFICES ASSUME NEW f \in Executor, HasCall(f)'
               PROVE  Asked(Id(f))' /\ (run'[f].pc \in Reserved => ledger'[Id(f)'] # "none")
    BY DEF CallsAreAsked
  <2>1. CASE f = e
    BY <1>3, <1>4, <1>5, <2>1
  <2>2. CASE f # e
    <3>1. HasCall(f) /\ Id(f)' = Id(f) /\ run'[f] = run[f]
      BY <1>4, <2>2
    <3> QED
      BY <1>2, <1>3, <3>1 DEF LedgerInv, CallsAreAsked
  <2> QED
    BY <2>1, <2>2
<1>8. SharedIsTwice'
  <2> SUFFICES ASSUME NEW f \in Executor, NEW g \in Executor, f # g,
                      HasCall(f)', HasCall(g)', Id(f)' = Id(g)'
               PROVE  RequestedTwice(Id(f))'
    BY DEF SharedIsTwice
  <2>1. CASE f # e /\ g # e
    BY <1>3, <1>4, <2>1 DEF LedgerInv, SharedIsTwice
  <2>2. CASE f = e
    <3>1. HasCall(g) /\ Id(g) = x /\ Id(f)' = x
      BY <1>4, <2>2
    <3>2. Asked(x)
      BY <3>1 DEF LedgerInv, CallsAreAsked
    <3> QED
      BY <1>3, <3>1, <3>2
  <2>3. CASE g = e
    <3>1. HasCall(f) /\ Id(f) = x /\ Id(f)' = x
      BY <1>4, <2>3
    <3>2. Asked(x)
      BY <3>1 DEF LedgerInv, CallsAreAsked
    <3> QED
      BY <1>3, <3>1, <3>2
  <2> QED
    BY <2>1, <2>2, <2>3
<1>9. SettledAgainIsTwice'
  <2> SUFFICES ASSUME NEW f \in Executor, HasCall(f)', Settled(Id(f))'
               PROVE  RequestedTwice(Id(f))'
    BY DEF SettledAgainIsTwice
  <2>1. CASE f = e
    <3>1. Id(f)' = x /\ Settled(x)
      BY <1>3, <1>4, <2>1
    <3>2. Asked(x)
      BY <3>1 DEF LedgerInv, SettledWasAsked
    <3> QED
      BY <1>3, <3>1, <3>2
  <2>2. CASE f # e
    BY <1>3, <1>4, <2>2 DEF LedgerInv, SettledAgainIsTwice
  <2> QED
    BY <2>1, <2>2
<1>10. ASSUME NEW i \in DOMAIN log, log[i].kind = "tool_request", log[i].token = held[e]
       PROVE  Settled(log[i].ref)
  BY <1>10 DEF LedgerInv, OpenIsMine, HasCall, Open, Working, Calling
<1>11. OpenIsMine'
  <2> SUFFICES ASSUME NEW f \in Executor, NEW i \in DOMAIN log', run'[f].pc \in Working,
                      log'[i].kind = "tool_request", log'[i].token = held'[f]
               PROVE  (Settled(log[i].ref) \/ (HasCall(f) /\ log[i].ref = Id(f)))'
    BY DEF OpenIsMine
  <2>1. CASE f = e /\ i \in DOMAIN log
    <3>1. Settled(log[i].ref) /\ log'[i] = log[i]
      BY <1>2, <1>3, <1>10, <2>1
    <3> QED
      BY <1>3, <3>1 DEF Settled, Logged
  <2>2. CASE f = e /\ i \notin DOMAIN log
    <3>1. log'[i].ref = x
      BY <1>1, <1>3, <2>2
    <3> QED
      BY <1>4, <2>2, <3>1
  <2>3. CASE f # e
    <3>1. held[f] # held[e]
      BY <1>2, <2>3, OthersTokens
    <3>2. i \in DOMAIN log /\ log'[i] = log[i]
      BY <1>1, <1>2, <1>3, <3>1
    <3>3. Settled(log[i].ref) \/ (HasCall(f) /\ log[i].ref = Id(f))
      BY <1>2, <1>4, <2>3, <3>2 DEF LedgerInv, OpenIsMine
    <3> QED
      BY <1>3, <1>4, <2>3, <3>2, <3>3 DEF Settled, Logged
  <2> QED
    BY <2>1, <2>2, <2>3
<1>12. EffectHasIntent'
  BY <1>2, <1>3 DEF LedgerInv, EffectHasIntent, Asked
<1>13. OneOpenCallPerClaim'
  <2> SUFFICES ASSUME NEW i \in DOMAIN log', NEW j \in DOMAIN log',
                      log'[i].kind = "tool_request", log'[j].kind = "tool_request",
                      log'[i].token = log'[j].token, log'[i].seq < log'[j].seq
               PROVE  Logged("tool_result", log[i].ref)'
    BY DEF OneOpenCallPerClaim
  <2>1. CommittedInSequence'
    BY AppendKeeps, ExecutionAssumption DEF Fenced
  <2>2. i < j
    BY <2>1 DEF CommittedInSequence
  <2>3. i \in DOMAIN log /\ log'[i] = log[i]
    <3>1. DOMAIN log = 1..Len(log) /\ Len(log) \in Nat /\ DOMAIN log' = 1..(Len(log) + 1)
      BY <1>1, <1>2, AppendFacts DEF TurnInv, StoreInv, StoreTypeOK
    <3> QED
      BY <1>3, <2>2, <3>1
  <2>4. CASE j \in DOMAIN log
    BY <1>3, <2>3, <2>4 DEF LedgerInv, OneOpenCallPerClaim, Settled, Logged
  <2>5. CASE j \notin DOMAIN log
    <3>1. log[i].token = held[e]
      BY <1>1, <1>3, <2>3, <2>5
    <3>2. Settled(log[i].ref)
      BY <1>10, <2>3, <3>1
    <3> QED
      BY <1>3, <2>3, <3>2 DEF Settled, Logged
  <2> QED
    BY <2>4, <2>5
<1>14. LedgerMatchesStream'
  BY <1>2, <1>3 DEF LedgerInv, LedgerMatchesStream, Settled
<1> QED
  BY <1>6, <1>7, <1>8, <1>9, <1>11, <1>12, <1>13, <1>14 DEF LedgerInv

(* A write of one event commits it, or is a quiet end of the run. *)
LEMMA WriteCommitsOrIsQuiet ==
  ASSUME TurnInv, NEW e \in Executor, NEW kind, NEW ref, NEW done,
         Write(e, kind, ref, done), UNCHANGED data
  PROVE  \/ InBounds(e) /\ AppendFenced(e, run[e].seq, kind, ref) /\ Goto(e, done)
         \/ Quiet
<1>1. CASE Leave(e) /\ UNCHANGED storeVars
  BY <1>1, LeaveIsQuiet DEF LogQuiet, storeVars
<1>2. CASE Break(e) /\ UNCHANGED storeVars
  BY <1>2, BreakIsQuiet
<1> QED
  BY <1>1, <1>2 DEF Write

LEMMA RequestKeepsLedger ==
  ASSUME TurnInv, LedgerInv, NEW e \in Executor, Request(e)
  PROVE  LedgerInv'
<1> DEFINE call == Head(run[e].calls)
<1> DEFINE d == [run[e] EXCEPT !.count = @ + 1, !.seen = @ \cup {call}]
<1> DEFINE p == IF call \in run[e].seen THEN "duplicate" ELSE "reserve"
<1>1. /\ run[e] \in RunType /\ run[e].pc = "request" /\ run[e].step \in 1..MaxSteps
      /\ run[e].count < MaxCount /\ UNCHANGED data
  BY RunFacts DEF Request, At, RunOK, Working, Calling
<1>2. CurrentId(d) = <<run[e].step, run[e].count + 1>> /\ CurrentId(d) \in ExecId
  <2>1. run[e].count + 1 \in 1..MaxCount
    BY <1>1, ExecutionAssumption, SMTT(60) DEF RunType
  <2>2. CurrentId(d) = <<run[e].step, run[e].count + 1>>
    BY <1>1 DEF RunType, CurrentId
  <2> QED
    BY <1>1, <2>1, <2>2 DEF ExecId
<1>3. Past(d, p).pc \in {"duplicate", "reserve"} /\ CurrentId(Past(d, p)) = CurrentId(d)
  BY <1>1 DEF RunType, Past, CurrentId
<1>4. Write(e, "tool_request", CurrentId(d), Past(d, p))
  BY DEF Request
<1> HIDE DEF d, p
<1>5. \/ InBounds(e) /\ AppendFenced(e, run[e].seq, "tool_request", CurrentId(d))
         /\ Goto(e, Past(d, p))
      \/ Quiet
  BY <1>1, <1>4, WriteCommitsOrIsQuiet
<1> QED
  BY <1>1, <1>2, <1>3, <1>5, RequestCommits, QuietKeeps

(* The call at hand is settled, and no longer at hand. *)
LEMMA OutcomeCommits ==
  ASSUME TurnInv, LedgerInv, NEW e \in Executor, HasCall(e),
         NEW c, Goto(e, c), c.pc \notin Open,
         NEW x \in ExecId, Id(e) = x, NEW result \in {"executed", "rejected", "duplicate"},
         InBounds(e), AppendFenced(e, run[e].seq, "tool_result", x),
         ledger' = IF ledger[x] # "none" THEN [ledger EXCEPT ![x] = result] ELSE ledger,
         UNCHANGED <<tool, started>>
  PROVE  LedgerInv'
<1> DEFINE ev == Event(run[e].seq, "tool_result", x, held[e])
<1>1. ev \in EventType /\ ev.kind = "tool_result" /\ ev.ref = x /\ ev.token = held[e]
  BY ExecutionAssumption DEF InBounds, Event, EventType, TurnInv, StoreInv, StoreTypeOK
<1>2. log' = Append(log, ev) /\ UNCHANGED <<held, tool, started>> /\ Fenced(e)
  BY DEF AppendFenced
<1> HIDE DEF ev
<1>3. /\ \A y : (Asked(y)' <=> Asked(y)) /\ (Settled(y)' <=> Settled(y) \/ y = x)
      /\ \A y : RequestedTwice(y)' <=> RequestedTwice(y)
      /\ \A i \in DOMAIN log : i \in DOMAIN log' /\ log'[i] = log[i]
      /\ \A i \in DOMAIN log' : i \in DOMAIN log \/ log'[i] = ev
  <2>1. /\ \A kind, y : Logged(kind, y)' <=> Logged(kind, y) \/ (ev.kind = kind /\ ev.ref = y)
        /\ \A y : RequestedTwice(y)' <=>
             RequestedTwice(y) \/ (ev.kind = "tool_request" /\ ev.ref = y /\ Asked(y))
        /\ \A i \in DOMAIN log : i \in DOMAIN log' /\ log'[i] = log[i]
        /\ \A i \in DOMAIN log' : i \in DOMAIN log \/ log'[i] = ev
    BY <1>1, <1>2, OneMoreEvent
  <2> QED
    BY <1>1, <2>1 DEF Asked, Settled
<1>4. /\ run'[e] = c /\ \A f \in Executor \ {e} : run'[f] = run[f]
      /\ \A f \in Executor \ {e} : (HasCall(f)' <=> HasCall(f)) /\ Id(f)' = Id(f)
      /\ ~HasCall(e)'
  BY OneMoves
<1>5. \A y \in ExecId : /\ ledger'[y] # "none" <=> ledger[y] # "none"
                        /\ y # x => ledger'[y] = ledger[y]
                        /\ ledger'[x] \notin {"pending", "outcome_unknown"}
                           \/ ledger'[x] = "none"
  BY DEF TurnInv, DataOK
<1>6. Asked(x)
  BY DEF LedgerInv, CallsAreAsked
<1>7. RowsHaveTool' /\ SettledWasAsked'
  BY <1>2, <1>3, <1>5, <1>6 DEF LedgerInv, RowsHaveTool, SettledWasAsked
<1>8. \A f \in Executor : HasCall(f) => Id(f) \in ExecId
  BY CurrentIdFacts DEF HasCall, Id, Open
<1>9. CallsAreAsked'
  <2> SUFFICES ASSUME NEW f \in Executor, HasCall(f)'
               PROVE  (Asked(Id(f)) /\ (run[f].pc \in Reserved => ledger[Id(f)] # "none"))'
    BY DEF CallsAreAsked
  <2>1. f # e /\ HasCall(f) /\ Id(f)' = Id(f) /\ run'[f] = run[f] /\ Id(f) \in ExecId
    BY <1>4, <1>8
  <2> QED
    BY <1>3, <1>5, <2>1 DEF LedgerInv, CallsAreAsked
<1>10. SharedIsTwice'
  BY <1>3, <1>4 DEF LedgerInv, SharedIsTwice
<1>11. SettledAgainIsTwice'
  <2> SUFFICES ASSUME NEW f \in Executor, HasCall(f)', Settled(Id(f))'
               PROVE  RequestedTwice(Id(f))'
    BY DEF SettledAgainIsTwice
  <2>1. f # e /\ HasCall(f) /\ Id(f)' = Id(f)
    BY <1>4
  <2>2. Settled(Id(f)) \/ Id(f) = x
    BY <1>3, <2>1
  <2>3. RequestedTwice(Id(f))
    BY <2>1, <2>2 DEF LedgerInv, SettledAgainIsTwice, SharedIsTwice
  <2> QED
    BY <1>3, <2>1, <2>3
<1>12. OpenIsMine'
  <2> SUFFICES ASSUME NEW f \in Executor, NEW i \in DOMAIN log', run'[f].pc \in Working,
                      log'[i].kind = "tool_request", log'[i].token = held'[f]
               PROVE  (Settled(log[i].ref) \/ (HasCall(f) /\ log[i].ref = Id(f)))'
    BY DEF OpenIsMine
  <2>1. i \in DOMAIN log /\ log'[i] = log[i]
    BY <1>1, <1>3
  <2>2. CASE f = e
    <3>1. run[e].pc \in Working
      BY DEF HasCall, Open, Working
    <3>2. Settled(log[i].ref) \/ log[i].ref = x
      BY <1>2, <2>1, <2>2, <3>1 DEF LedgerInv, OpenIsMine
    <3> QED
      BY <1>3, <2>1, <3>2 DEF Settled, Logged
  <2>3. CASE f # e
    <3>1. Settled(log[i].ref) \/ (HasCall(f) /\ log[i].ref = Id(f))
      BY <1>2, <1>4, <2>1, <2>3 DEF LedgerInv, OpenIsMine
    <3> QED
      BY <1>3, <1>4, <2>1, <2>3, <3>1 DEF Settled, Logged
  <2> QED
    BY <2>2, <2>3
<1>13. EffectHasIntent'
  BY <1>2, <1>3, <1>5 DEF LedgerInv, EffectHasIntent, Asked
<1>14. OneOpenCallPerClaim'
  <2> SUFFICES ASSUME NEW i \in DOMAIN log', NEW j \in DOMAIN log',
                      log'[i].kind = "tool_request", log'[j].kind = "tool_request",
                      log'[i].token = log'[j].token, log'[i].seq < log'[j].seq
               PROVE  Logged("tool_result", log[i].ref)'
    BY DEF OneOpenCallPerClaim
  <2>1. /\ i \in DOMAIN log /\ log'[i] = log[i]
        /\ j \in DOMAIN log /\ log'[j] = log[j]
    BY <1>1, <1>3
  <2>2. Settled(log[i].ref)
    BY <2>1 DEF LedgerInv, OneOpenCallPerClaim, Settled
  <2> QED
    BY <1>3, <2>1, <2>2 DEF Settled, Logged
<1>15. LedgerMatchesStream'
  <2> SUFFICES ASSUME NEW y \in ExecId
               PROVE  /\ ledger'[y] \in {"executed", "rejected"} => Settled(y)'
                      /\ Settled(y)' /\ ledger'[y] \in {"pending", "outcome_unknown"}
                           => RequestedTwice(y)'
    BY DEF LedgerMatchesStream, Settled
  <2>1. CASE y = x
    BY <1>3, <1>5, <2>1
  <2>2. CASE y # x
    BY <1>3, <1>5, <2>2 DEF LedgerInv, LedgerMatchesStream, Settled
  <2> QED
    BY <2>1, <2>2
<1> QED
  BY <1>7, <1>9, <1>10, <1>11, <1>12, <1>13, <1>14, <1>15 DEF LedgerInv

LEMMA OutcomeKeepsLedger ==
  ASSUME TurnInv, LedgerInv, NEW e \in Executor, Duplicate(e) \/ Record(e)
  PROVE  LedgerInv'
<1>1. PICK result \in {"executed", "rejected", "duplicate"} : Outcome(e, result)
  BY RunFacts DEF Duplicate, Record, At, RunOK
<1>2. HasCall(e) /\ run[e].pc \in Calling \ {"request"}
  BY DEF Duplicate, Record, At, HasCall, Open, Calling
<1> DEFINE x == CurrentId(run[e])
<1> DEFINE d == NextCall(Past(run[e], "record"))
<1>3. x \in ExecId /\ Id(e) = x
  BY <1>2, CurrentIdFacts DEF Id
<1>4. d.pc \in {"request", "open", "budget"}
  BY RunFacts DEF NextCall, Past, RunType
<1>5. d.pc \notin Open
  BY <1>4 DEF Open, Calling
<1>6. /\ Write(e, "tool_result", x, d) /\ UNCHANGED <<tool, started, turnStatus, cancelling, crashes>>
      /\ ledger' = IF log' # log /\ ledger[x] # "none" THEN [ledger EXCEPT ![x] = result]
                   ELSE ledger
  BY <1>1 DEF Outcome
<1> HIDE DEF x, d
<1>7. CASE AppendFenced(e, run[e].seq, "tool_result", x) /\ Goto(e, d)
  <2>1. log' # log
    <3>1. Event(run[e].seq, "tool_result", x, held[e]) \in EventType
      BY <1>3, <1>6, ExecutionAssumption
         DEF Write, InBounds, Event, EventType, TurnInv, StoreInv, StoreTypeOK
    <3>2. DOMAIN log' # DOMAIN log
      BY <1>7, <3>1, AppendFacts DEF AppendFenced, TurnInv, StoreInv, StoreTypeOK
    <3> QED
      BY <3>2
  <2>2. ledger' = IF ledger[x] # "none" THEN [ledger EXCEPT ![x] = result] ELSE ledger
    BY <1>6, <2>1
  <2>3. InBounds(e)
    BY <1>6 DEF Write
  <2> QED
    BY <1>2, <1>3, <1>5, <1>6, <1>7, <2>2, <2>3, OutcomeCommits
<1>8. CASE (Leave(e) \/ Break(e)) /\ UNCHANGED storeVars
  <2>1. UNCHANGED data
    BY <1>6, <1>8 DEF storeVars, data
  <2>2. Quiet
    BY <1>8, <2>1, LeaveIsQuiet, BreakIsQuiet DEF LogQuiet, storeVars
  <2> QED
    BY <2>2, QuietKeeps
<1> QED
  BY <1>6, <1>7, <1>8 DEF Write

(* The stream and the runs' calls rest; run e moves within its call.       *)
CallMoves(e, p) ==
  /\ UNCHANGED storeVars
  /\ run[e].pc \in Open /\ Goto(e, [run[e] EXCEPT !.pc = p])

LEMMA CallMovesFacts ==
  ASSUME TurnInv, NEW e \in Executor, NEW p, CallMoves(e, p)
  PROVE  /\ \A y : (Asked(y)' <=> Asked(y)) /\ (Settled(y)' <=> Settled(y))
         /\ \A y : RequestedTwice(y)' <=> RequestedTwice(y)
         /\ log' = log /\ held' = held
         /\ run'[e].pc = p /\ \A f \in Executor \ {e} : run'[f] = run[f]
         /\ \A f \in Executor : Id(f)' = Id(f)
         /\ HasCall(e) /\ (p \in Open => HasCall(e)')
         /\ \A f \in Executor : f # e => (HasCall(f)' <=> HasCall(f))
         /\ \A f \in Executor : HasCall(f) => Id(f) \in ExecId
<1>1. log' = log /\ held' = held
  BY DEF CallMoves, storeVars
<1>2. run'[e] = [run[e] EXCEPT !.pc = p] /\ \A f \in Executor \ {e} : run'[f] = run[f]
  BY OneMoves DEF CallMoves
<1>3. run'[e].pc = p /\ run'[e].step = run[e].step /\ run'[e].count = run[e].count
  BY <1>2, RunFacts DEF RunType
<1>4. \A f \in Executor : Id(f)' = Id(f)
  BY <1>2, <1>3 DEF Id, CurrentId
<1>5. \A f \in Executor : HasCall(f) => Id(f) \in ExecId
  BY CurrentIdFacts DEF HasCall, Id, Open
<1>6. /\ \A y : (Asked(y)' <=> Asked(y)) /\ (Settled(y)' <=> Settled(y))
      /\ \A y : RequestedTwice(y)' <=> RequestedTwice(y)
  BY <1>1 DEF Asked, Settled, Logged, RequestedTwice
<1> QED
  BY <1>1, <1>2, <1>3, <1>4, <1>5, <1>6 DEF HasCall, CallMoves

(* What such a move keeps of the invariant, whatever happens to the ledger.*)
LEMMA CallMovesKeep ==
  ASSUME TurnInv, LedgerInv, NEW e \in Executor, NEW p \in Open \cup {"approval"},
         CallMoves(e, p)
  PROVE  SettledWasAsked' /\ SharedIsTwice' /\ SettledAgainIsTwice' /\ OpenIsMine'
         /\ OneOpenCallPerClaim'
<1>1. /\ \A y : (Asked(y)' <=> Asked(y)) /\ (Settled(y)' <=> Settled(y))
      /\ \A y : RequestedTwice(y)' <=> RequestedTwice(y)
      /\ log' = log /\ held' = held
      /\ run'[e].pc = p /\ \A f \in Executor \ {e} : run'[f] = run[f]
      /\ \A f \in Executor : Id(f)' = Id(f)
      /\ HasCall(e) /\ (p \in Open => HasCall(e)')
      /\ \A f \in Executor : f # e => (HasCall(f)' <=> HasCall(f))
  BY CallMovesFacts
<1>2. SettledWasAsked'
  BY <1>1 DEF LedgerInv, SettledWasAsked
<1>3. \A f \in Executor : HasCall(f)' => HasCall(f)
  BY <1>1
<1>4. SharedIsTwice' /\ SettledAgainIsTwice'
  BY <1>1, <1>3 DEF LedgerInv, SharedIsTwice, SettledAgainIsTwice
<1>5. OpenIsMine'
  <2> SUFFICES ASSUME NEW f \in Executor, NEW i \in DOMAIN log, run'[f].pc \in Working,
                      log[i].kind = "tool_request", log[i].token = held[f]
               PROVE  (Settled(log[i].ref) \/ (HasCall(f) /\ log[i].ref = Id(f)))'
    BY <1>1 DEF OpenIsMine
  <2>1. run[f].pc \in Working /\ (HasCall(f) => HasCall(f)')
    BY <1>1 DEF HasCall, Working, Open, Calling
  <2>2. Settled(log[i].ref) \/ (HasCall(f) /\ log[i].ref = Id(f))
    BY <2>1 DEF LedgerInv, OpenIsMine
  <2> QED
    BY <1>1, <2>1, <2>2 DEF Settled, Logged
<1>6. OneOpenCallPerClaim'
  BY <1>1 DEF LedgerInv, OneOpenCallPerClaim, Logged
<1> QED
  BY <1>2, <1>4, <1>5, <1>6

LEMMA ReserveKeepsLedger ==
  ASSUME TurnInv, LedgerInv, NEW e \in Executor, Reserve(e)
  PROVE  LedgerInv'
<1> DEFINE x == CurrentId(run[e])
<1>1. run[e].pc = "reserve" /\ UNCHANGED <<storeVars, started>> /\ CallMoves(e, "execute")
  BY DEF Reserve, At, CallMoves, Open, Calling
<1>2. /\ \A y : (Asked(y)' <=> Asked(y)) /\ (Settled(y)' <=> Settled(y))
      /\ \A y : RequestedTwice(y)' <=> RequestedTwice(y)
      /\ run'[e].pc = "execute" /\ \A f \in Executor \ {e} : run'[f] = run[f]
      /\ \A f \in Executor : Id(f)' = Id(f)
      /\ HasCall(e)
      /\ \A f \in Executor : f # e => (HasCall(f)' <=> HasCall(f))
      /\ \A f \in Executor : HasCall(f) => Id(f) \in ExecId
  BY <1>1, CallMovesFacts
<1>3. x \in ExecId /\ Id(e) = x /\ Head(run[e].calls) # NoCall
  <2>1. run[e].calls # <<>> /\ run[e].calls \in Seq(Call)
    BY <1>1, RunFacts DEF RunOK, RunType, Calling
  <2> QED
    BY <1>2, <2>1, ExecutionAssumption DEF Id
<1>4. /\ \A y \in ExecId : ledger[y] # "none" => ledger'[y] = ledger[y] /\ tool'[y] = tool[y]
      /\ \A y \in ExecId : y # x => ledger'[y] = ledger[y] /\ tool'[y] = tool[y]
      /\ ledger[x] = "none" => ledger'[x] = "pending" /\ tool'[x] = Head(run[e].calls)
  BY <1>3 DEF Reserve, TurnInv, DataOK
<1>5. \A y \in ExecId : ledger[y] # "none" => ledger'[y] # "none"
  BY <1>4
<1>6. ledger'[x] # "none"
  BY <1>3, <1>4
<1>7. RowsHaveTool'
  BY <1>3, <1>4 DEF LedgerInv, RowsHaveTool
<1>8. CallsAreAsked'
  <2> SUFFICES ASSUME NEW f \in Executor, HasCall(f)'
               PROVE  (Asked(Id(f)) /\ (run[f].pc \in Reserved => ledger[Id(f)] # "none"))'
    BY DEF CallsAreAsked
  <2>1. CASE f = e
    BY <1>2, <1>3, <1>6, <2>1 DEF LedgerInv, CallsAreAsked
  <2>2. CASE f # e
    BY <1>2, <1>5, <2>2 DEF LedgerInv, CallsAreAsked
  <2> QED
    BY <2>1, <2>2
<1>9. EffectHasIntent'
  BY <1>1, <1>2, <1>4 DEF LedgerInv, EffectHasIntent, Asked
<1>10. LedgerMatchesStream'
  <2> SUFFICES ASSUME NEW y \in ExecId
               PROVE  /\ ledger'[y] \in {"executed", "rejected"} => Settled(y)'
                      /\ Settled(y)' /\ ledger'[y] \in {"pending", "outcome_unknown"}
                           => RequestedTwice(y)'
    BY DEF LedgerMatchesStream, Settled
  <2>1. CASE ledger'[y] = ledger[y]
    BY <1>2, <2>1 DEF LedgerInv, LedgerMatchesStream, Settled
  <2>2. CASE ledger'[y] # ledger[y]
    <3>1. y = x /\ ledger'[y] = "pending"
      BY <1>4, <2>2
    <3>2. Settled(x) => RequestedTwice(x)
      BY <1>2, <1>3 DEF LedgerInv, SettledAgainIsTwice
    <3> QED
      BY <1>2, <3>1, <3>2
  <2> QED
    BY <2>1, <2>2
<1> QED
  BY <1>1, <1>7, <1>8, <1>9, <1>10, CallMovesKeep DEF LedgerInv, Open, Calling

LEMMA StartToolKeepsLedger ==
  ASSUME TurnInv, LedgerInv, NEW e \in Executor, StartTool(e)
  PROVE  LedgerInv'
<1> DEFINE x == CurrentId(run[e])
<1>1. run[e].pc = "execute" /\ UNCHANGED <<ledger, tool>> /\ CallMoves(e, "running")
  BY DEF StartTool, At, CallMoves, Open, Calling
<1>2. /\ \A y : (Asked(y)' <=> Asked(y)) /\ (Settled(y)' <=> Settled(y))
      /\ \A y : RequestedTwice(y)' <=> RequestedTwice(y)
      /\ run'[e].pc = "running" /\ \A f \in Executor \ {e} : run'[f] = run[f]
      /\ \A f \in Executor : Id(f)' = Id(f)
      /\ HasCall(e)
      /\ \A f \in Executor : f # e => (HasCall(f)' <=> HasCall(f))
      /\ \A f \in Executor : HasCall(f) => Id(f) \in ExecId
  BY <1>1, CallMovesFacts
<1>3. x \in ExecId /\ Asked(x) /\ ledger[x] # "none"
  BY <1>1, <1>2 DEF LedgerInv, CallsAreAsked, Reserved, Open, Calling, Id
<1>4. RowsHaveTool'
  BY <1>1 DEF LedgerInv, RowsHaveTool
<1>5. CallsAreAsked'
  <2> SUFFICES ASSUME NEW f \in Executor, HasCall(f)'
               PROVE  (Asked(Id(f)) /\ (run[f].pc \in Reserved => ledger[Id(f)] # "none"))'
    BY DEF CallsAreAsked
  <2>1. CASE f = e
    BY <1>1, <1>2, <1>3, <2>1 DEF Id
  <2>2. CASE f # e
    BY <1>1, <1>2, <2>2 DEF LedgerInv, CallsAreAsked
  <2> QED
    BY <2>1, <2>2
<1>6. EffectHasIntent'
  <2> SUFFICES ASSUME NEW y \in ExecId, started'[y] > 0
               PROVE  Asked(y)' /\ ledger'[y] # "none" /\ tool'[y] # NoCall
    BY DEF EffectHasIntent, Asked
  <2>1. CASE y = x
    BY <1>1, <1>2, <1>3, <2>1 DEF LedgerInv, RowsHaveTool
  <2>2. CASE y # x
    <3>1. started'[y] = started[y]
      BY <2>2 DEF StartTool, TurnInv, DataOK
    <3> QED
      BY <1>1, <1>2, <3>1 DEF LedgerInv, EffectHasIntent, Asked
  <2> QED
    BY <2>1, <2>2
<1>7. LedgerMatchesStream'
  BY <1>1, <1>2 DEF LedgerInv, LedgerMatchesStream, Settled
<1> QED
  BY <1>1, <1>4, <1>5, <1>6, <1>7, CallMovesKeep DEF LedgerInv, Open, Calling

LEMMA HoldKeepsLedger ==
  ASSUME TurnInv, LedgerInv, NEW e \in Executor, Hold(e)
  PROVE  LedgerInv'
<1> DEFINE x == CurrentId(run[e])
<1>1. /\ run[e].pc = "hold" /\ UNCHANGED <<tool, started>> /\ CallMoves(e, "approval")
      /\ ledger' = [ledger EXCEPT ![x] = "pending_approval"]
  BY DEF Hold, At, CallMoves, Open, Calling
<1>2. /\ \A y : (Asked(y)' <=> Asked(y)) /\ (Settled(y)' <=> Settled(y))
      /\ \A y : RequestedTwice(y)' <=> RequestedTwice(y)
      /\ run'[e].pc = "approval" /\ \A f \in Executor \ {e} : run'[f] = run[f]
      /\ \A f \in Executor : Id(f)' = Id(f)
      /\ HasCall(e)
      /\ \A f \in Executor : f # e => (HasCall(f)' <=> HasCall(f))
      /\ \A f \in Executor : HasCall(f) => Id(f) \in ExecId
  BY <1>1, CallMovesFacts
<1>3. x \in ExecId /\ ledger[x] # "none"
  BY <1>1, <1>2 DEF LedgerInv, CallsAreAsked, Reserved, Open, Calling, Id
<1>4. \A y \in ExecId : /\ ledger'[y] # "none" <=> ledger[y] # "none"
                        /\ ledger'[y] = ledger[y] \/ ledger'[y] = "pending_approval"
  BY <1>1, <1>3 DEF TurnInv, DataOK
<1>5. RowsHaveTool'
  BY <1>1, <1>4 DEF LedgerInv, RowsHaveTool
<1>6. CallsAreAsked'
  <2> SUFFICES ASSUME NEW f \in Executor, HasCall(f)'
               PROVE  (Asked(Id(f)) /\ (run[f].pc \in Reserved => ledger[Id(f)] # "none"))'
    BY DEF CallsAreAsked
  <2>1. f # e
    BY <1>2 DEF HasCall, Open, Calling
  <2> QED
    BY <1>2, <1>4, <2>1 DEF LedgerInv, CallsAreAsked
<1>7. EffectHasIntent'
  BY <1>1, <1>2, <1>4 DEF LedgerInv, EffectHasIntent, Asked
<1>8. LedgerMatchesStream'
  BY <1>2, <1>4 DEF LedgerInv, LedgerMatchesStream, Settled
<1> QED
  BY <1>1, <1>5, <1>6, <1>7, <1>8, CallMovesKeep DEF LedgerInv

(* The worker's second statement. *)
LEMMA MarkUnknownKeepsLedger ==
  ASSUME TurnInv, LedgerInv, MarkUnknown
  PROVE  LedgerInv'
<1>1. UNCHANGED <<log, held, run, tool, started>>
  BY DEF MarkUnknown, storeVars
<1>2. \A y \in ExecId :
        ledger'[y] = IF ledger[y] = "pending" THEN "outcome_unknown" ELSE ledger[y]
  BY DEF MarkUnknown
<1>3. /\ \A y : (Asked(y)' <=> Asked(y)) /\ (Settled(y)' <=> Settled(y))
      /\ \A y : RequestedTwice(y)' <=> RequestedTwice(y)
      /\ \A f \in Executor : (HasCall(f)' <=> HasCall(f)) /\ Id(f)' = Id(f)
  BY <1>1 DEF Asked, Settled, Logged, RequestedTwice, HasCall, Id
<1>4. \A f \in Executor : HasCall(f) => Id(f) \in ExecId
  BY CurrentIdFacts DEF HasCall, Id, Open
<1>5. RowsHaveTool' /\ SettledWasAsked'
  BY <1>1, <1>2, <1>3 DEF LedgerInv, RowsHaveTool, SettledWasAsked
<1>6. CallsAreAsked'
  BY <1>1, <1>2, <1>3, <1>4 DEF LedgerInv, CallsAreAsked
<1>7. SharedIsTwice' /\ SettledAgainIsTwice'
  BY <1>3 DEF LedgerInv, SharedIsTwice, SettledAgainIsTwice
<1>8. OpenIsMine' /\ OneOpenCallPerClaim'
  BY <1>1 DEF LedgerInv, OpenIsMine, OneOpenCallPerClaim, Settled, Logged, HasCall, Id
<1>9. EffectHasIntent' /\ LedgerMatchesStream'
  BY <1>1, <1>2, <1>3 DEF LedgerInv, EffectHasIntent, LedgerMatchesStream, Asked, Settled
<1> QED
  BY <1>5, <1>6, <1>7, <1>8, <1>9 DEF LedgerInv

-----------------------------------------------------------------------------
(* The theorem *)

LEMMA LedgerInitInv == Init => LedgerInv
<1> SUFFICES ASSUME Init PROVE LedgerInv
  OBVIOUS
<1>1. DOMAIN log = {} /\ \A e \in Executor : run[e].pc = "idle"
  BY DEF Init, StoreInit, Idle
<1>2. \A x \in ExecId : ledger[x] = "none" /\ started[x] = 0
  BY DEF Init
<1>3. \A e \in Executor : ~HasCall(e) /\ run[e].pc \notin Working
  BY <1>1 DEF HasCall, Open, Working, Calling
<1>4. \A x : ~Settled(x)
  BY <1>1 DEF Settled, Logged
<1>5. RowsHaveTool /\ CallsAreAsked /\ SettledWasAsked /\ SharedIsTwice /\ SettledAgainIsTwice
  BY <1>2, <1>3, <1>4
     DEF RowsHaveTool, CallsAreAsked, SettledWasAsked, SharedIsTwice, SettledAgainIsTwice
<1>6. OpenIsMine /\ OneOpenCallPerClaim
  BY <1>1 DEF OpenIsMine, OneOpenCallPerClaim
<1>7. EffectHasIntent /\ LedgerMatchesStream
  BY <1>2 DEF EffectHasIntent, LedgerMatchesStream
<1> QED
  BY <1>5, <1>6, <1>7 DEF LedgerInv

LEMMA LedgerNextInv == TurnInv /\ LedgerInv /\ [Next]_vars => LedgerInv'
<1> SUFFICES ASSUME TurnInv, LedgerInv, [Next]_vars PROVE LedgerInv'
  OBVIOUS
<1>1. ASSUME Quiet PROVE LedgerInv'
  BY <1>1, QuietKeeps
<1>2. CASE EntryStep
  BY <1>1, <1>2, EntryIsQuiet
<1>3. ASSUME NEW e \in Executor, LoopStep(e) PROVE LedgerInv'
  <2>1. CASE Request(e) \/ Duplicate(e) \/ Record(e) \/ Reserve(e) \/ StartTool(e) \/ Hold(e)
    BY <2>1, RequestKeepsLedger, OutcomeKeepsLedger, ReserveKeepsLedger,
       StartToolKeepsLedger, HoldKeepsLedger
  <2>2. CASE \/ ClaimPlanned(e) \/ Message(e) \/ Check(e) \/ RenewStep(e) \/ Reasoning(e)
             \/ ModelBreaks(e) \/ ModelAnswers(e) \/ Segment(e)
    BY <1>1, <2>2, ClaimPlannedIsQuiet, MessageIsQuiet, CheckIsQuiet, RenewStepIsQuiet,
       ReasoningIsQuiet, ModelIsQuiet, SegmentIsQuiet
  <2>3. CASE \/ NeedsApproval(e) \/ AskUser(e) \/ ToolReturns(e) \/ ToolAborts(e) \/ Approval(e)
             \/ FinalizeRun(e) \/ Catch(e) \/ CatchCommits(e) \/ Report(e)
    BY <1>1, <2>3, ToolIsQuiet, ApprovalIsQuiet, LeavingIsQuiet
  <2> QED
    BY <1>3, <2>1, <2>2, <2>3 DEF LoopStep
<1>4. ASSUME NEW e \in Executor, Beat(e) \/ HostScan(e) \/ UserAnswers(e) \/ Crash(e)
      PROVE  LedgerInv'
  BY <1>1, <1>4, BeatIsQuiet, HostScanIsQuiet, ToolIsQuiet, CrashIsQuiet
<1>5. CASE Cancel \/ CancelTurn \/ Recover \/ TimePasses \/ UNCHANGED vars
  BY <1>1, <1>5, OthersAreQuiet
<1>6. CASE MarkUnknown
  BY <1>6, MarkUnknownKeepsLedger
<1> QED
  BY <1>2, <1>3, <1>4, <1>5, <1>6 DEF Next

(* A tool has run only where the stream shows its request and the ledger   *)
(* its row; a claim leaves at most one call without a result; ledger and   *)
(* stream agree on what became of a call - whatever is preempted, crashes, *)
(* is resumed, held for approval or written off by the recovery worker.    *)
THEOREM LedgerKept == Spec => []LedgerInvariant
<1>1. Init => LedgerInv
  BY LedgerInitInv
<1>2. TurnInv /\ LedgerInv /\ [Next]_vars => LedgerInv'
  BY LedgerNextInv
<1>3. LedgerInv => LedgerInvariant
  BY DEF LedgerInv, LedgerInvariant
<1> QED
  BY <1>1, <1>2, <1>3, TurnInvariant, PTL DEF Spec
=============================================================================
