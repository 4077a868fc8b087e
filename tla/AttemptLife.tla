---------------------------- MODULE AttemptLife -----------------------------
(***************************************************************************)
(* What the attempt of a Turn promises to everybody else -- readers of the *)
(* stream, the recovery worker, an agent host -- whoever executes it and   *)
(* however: it is open, a cancel may be asked for, and it ends once;       *)
(* ownership is counted in epochs, and only the current epoch speaks.      *)
(* AttemptStore implements it (ImplementsLife).                            *)
(***************************************************************************)
EXTENDS Naturals

CONSTANT MaxEpoch   \* bound: largest epoch (fencing_token)

VARIABLES
  phase,    \* Running, CancelRequested, or how it ended
  epoch,    \* how often it changed hands
  spoken    \* the epoch whose holder wrote to the stream last, 0 if none

lifeVars == <<phase, epoch, spoken>>

Ended == {"Completed", "Failed", "Interrupted", "Cancelled"}

LifeInit == phase = "Running" /\ epoch = 0 /\ spoken = 0

(* Somebody takes the attempt over; whoever had it is silent from now on. *)
TakeOver ==
  /\ phase = "Running"
  /\ epoch < MaxEpoch
  /\ epoch' = epoch + 1
  /\ UNCHANGED <<phase, spoken>>

(* The holder writes to the stream; a closing done or error event may come *)
(* after the end, but never from an earlier epoch.                         *)
Speak ==
  /\ epoch > 0
  /\ spoken' = epoch
  /\ UNCHANGED <<phase, epoch>>

AskCancel ==
  /\ phase = "Running"
  /\ phase' = "CancelRequested"
  /\ UNCHANGED <<epoch, spoken>>

(* The end, with or without a closing event in the same transaction. *)
Settle ==
  /\ phase \notin Ended
  /\ phase' \in Ended
  /\ spoken' \in {spoken, epoch}
  /\ UNCHANGED epoch

(* The end declared by the recovery worker, which silences the holder. *)
Recover ==
  /\ phase = "Running"
  /\ epoch < MaxEpoch
  /\ phase' = "Interrupted"
  /\ epoch' = epoch + 1
  /\ UNCHANGED spoken

LifeNext == TakeOver \/ Speak \/ AskCancel \/ Settle \/ Recover

LifeSpec == LifeInit /\ [][LifeNext]_lifeVars
=============================================================================
