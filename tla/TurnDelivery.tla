---------------------------- MODULE TurnDelivery ----------------------------
(***************************************************************************)
(* Reading a Turn while it is written: GET /v1/turns/{id}/events (apps/api *)
(* routes.ts) replays the stored events and then polls for more until the  *)
(* attempt is settled.  The writers are those of AttemptStore; a reader    *)
(* only looks, one query at a time, so the stream may grow and the attempt *)
(* may settle between any two of its looks.                                *)
(***************************************************************************)
EXTENDS AttemptStore, SequencesExt

CONSTANT Reader   \* connections

VARIABLES
  conn,     \* where the handler of each connection is
  sent,     \* sequence numbers written to the connection, in that order
  tailed,   \* whether the connection went through the tail
  overdue,  \* whether TAIL_MAX_DURATION_MS has passed
  owed      \* history: how long the stream was when the attempt was settled

readVars     == <<conn, sent, tailed, overdue>>
deliveryVars == <<storeVars, readVars, owed>>

(* Where a handler is at work; "stuck" is a response that is neither       *)
(* written to any more nor finished.                                       *)
Replaying == {"replay", "replayed"}
Tailing   == {"tail", "polled", "drain"}
Open      == Replaying \cup Tailing
Standing  == Open \cup {"none", "ended", "failed", "stuck", "gone"}

DeliveryTypeOK ==
  /\ StoreTypeOK
  /\ conn \in [Reader -> Standing]
  /\ sent \in [Reader -> Seq(1..MaxSeq)]
  /\ tailed \in [Reader -> BOOLEAN]
  /\ overdue \in [Reader -> BOOLEAN]
  /\ owed \in 0..MaxSeq

DeliveryInit ==
  /\ StoreInit
  /\ conn = [r \in Reader |-> "none"]
  /\ sent = [r \in Reader |-> <<>>]
  /\ tailed = [r \in Reader |-> FALSE]
  /\ overdue = [r \in Reader |-> FALSE]
  /\ owed = 0

-----------------------------------------------------------------------------
(* A write of the store numbers its event by the length of the stream:     *)
(* TurnExecution's writers do (theorem NumberedInOrder).                   *)
WriteNext ==
  /\ StoreNext
  /\ log' # log => Last(log').seq = Len(log')
  /\ owed' = IF status \notin Terminal /\ status' \in Terminal THEN Len(log') ELSE owed
  /\ UNCHANGED readVars

(* lastSequence *)
HighWater(r) == Max({0} \cup ToSet(sent[r]))

(* getStreamEvents: the events after a number, each once and by number. *)
EventsAfter(s) == {log[i].seq : i \in DOMAIN log} \cap ((s + 1) .. MaxSeq)
IsListing(list, S) ==
  /\ \A n \in S : \E i \in DOMAIN list : list[i] = n
  /\ \A i, j \in DOMAIN list : i < j => list[i] < list[j]

(* attemptSettled; a Turn has one attempt. *)
Settled == status \in Terminal

Go(r, place) == conn' = [conn EXCEPT ![r] = place]

(* A client connects, for the first time or again.  There is no cursor:    *)
(* every connection starts from nothing.                                   *)
Connect(r) ==
  /\ conn[r] \notin Open \cup {"stuck"}
  /\ Go(r, "replay")
  /\ sent' = [sent EXCEPT ![r] = <<>>]
  /\ tailed' = [tailed EXCEPT ![r] = FALSE]
  /\ overdue' = [overdue EXCEPT ![r] = FALSE]
  /\ UNCHANGED <<storeVars, owed>>

(* writeEventFrame for every event after lastSequence. *)
Send(r) ==
  LET unsent == EventsAfter(HighWater(r)) IN
  \E list \in [1..Cardinality(unsent) -> unsent] :
    /\ IsListing(list, unsent)
    /\ sent' = [sent EXCEPT ![r] = @ \o list]

(* What is stored is replayed ... *)
Replay(r) ==
  /\ conn[r] = "replay"
  /\ Send(r) /\ Go(r, "replayed")
  /\ UNCHANGED <<storeVars, owed, tailed, overdue>>

(* ... and if the attempt is settled by then, that was all. *)
AfterReplay(r) ==
  /\ conn[r] = "replayed"
  /\ IF Settled THEN Go(r, "ended") /\ UNCHANGED tailed
     ELSE Go(r, "tail") /\ tailed' = [tailed EXCEPT ![r] = TRUE]
  /\ UNCHANGED <<storeVars, owed, sent, overdue>>

(* A beat of the interval timer: the new events ... *)
Poll(r) ==
  /\ conn[r] = "tail"
  /\ Send(r) /\ Go(r, "polled")
  /\ UNCHANGED <<storeVars, owed, tailed, overdue>>

AfterPollUndrained(r) ==
  /\ conn[r] = "polled"
  /\ Go(r, IF overdue[r] \/ Settled THEN "ended" ELSE "tail")
  /\ UNCHANGED <<storeVars, owed, sent, tailed, overdue>>

(* ... then whether to go on: not after ten minutes, not once settled.     *)
AfterPoll(r) ==
  /\ conn[r] = "polled"
  /\ Go(r, IF overdue[r] \/ Settled THEN "drain" ELSE "tail")
  /\ UNCHANGED <<storeVars, owed, sent, tailed, overdue>>

(* The last look, after the attempt was seen settled. *)
Drain(r) ==
  /\ conn[r] = "drain"
  /\ Send(r) /\ Go(r, "ended")
  /\ UNCHANGED <<storeVars, owed, tailed, overdue>>

(* A query throws.  In the tail the catch block finishes the response; the *)
(* replay and the first look at the attempt are outside of it, and after   *)
(* reply.hijack() nobody else finishes.                                    *)
QueryFails(r) ==
  /\ conn[r] \in Open
  /\ Go(r, IF conn[r] \in Tailing THEN "failed" ELSE "stuck")
  /\ UNCHANGED <<storeVars, owed, sent, tailed, overdue>>

(* The client closes the connection. *)
Disconnect(r) ==
  /\ conn[r] \in Open \cup {"stuck"}
  /\ Go(r, "gone")
  /\ UNCHANGED <<storeVars, owed, sent, tailed, overdue>>

TimeUp(r) ==
  /\ conn[r] \in Open /\ ~overdue[r]
  /\ overdue' = [overdue EXCEPT ![r] = TRUE]
  /\ UNCHANGED <<storeVars, owed, conn, sent, tailed>>

Handler(r) == Replay(r) \/ AfterReplay(r) \/ Poll(r) \/ AfterPoll(r) \/ Drain(r)

DeliveryNext ==
  \/ WriteNext
  \/ \E r \in Reader :
       Connect(r) \/ Handler(r) \/ QueryFails(r) \/ Disconnect(r) \/ TimeUp(r)

DeliverySpec == DeliveryInit /\ [][DeliveryNext]_deliveryVars

(* The timer of an open connection beats and the clock runs; nobody has to *)
(* write anything.                                                         *)
DeliveryFairness ==
  \A r \in Reader : WF_deliveryVars(Handler(r)) /\ WF_deliveryVars(TimeUp(r))

-----------------------------------------------------------------------------
(* A connection carries the stream from its beginning, in order, without a *)
(* gap and without a repetition, however the polls and the commits mix:    *)
(* polling by "greater than the largest number sent" would skip an event   *)
(* committed late under a smaller number.                                  *)
DeliveredInOrder ==
  \A r \in Reader : sent[r] = [i \in DOMAIN sent[r] |-> i]

Delivered(r, i) == Contains(sent[r], log[i].seq)

(* A tail that ends before its time has delivered everything that was in   *)
(* the stream when the attempt was settled, the event that says how it     *)
(* ended included where that one is committed before or with the status    *)
(* (it is by executeTurn and by an adapter): the status is looked at       *)
(* before the last look at the stream.  What comes later -- a side event,  *)
(* a done by itself that terminalDoneOk lets in -- is not promised.        *)
TailDeliversTheEnding ==
  \A r \in Reader : conn[r] = "ended" /\ tailed[r] /\ ~overdue[r] =>
    Settled /\ \A i \in 1..owed : Delivered(r, i)

(* No connection that is past its replay is held open for ever, even if    *)
(* its attempt never settles (a cancelled attempt whose executor lost its  *)
(* lease does not); and the replay itself comes to an end, in the tail, in *)
(* the end of the response or, if one of its two queries throws, in a      *)
(* response that stays open until the client leaves.                       *)
ConnectionEnds ==
  \A r \in Reader :
    /\ conn[r] \in Replaying ~> conn[r] \notin Replaying
    /\ conn[r] \in Tailing ~> conn[r] \in {"ended", "failed", "gone"}

(* routes.ts, comment on the early end: if the attempt is settled after    *)
(* the replay, the replay was complete.                                    *)
ReplayIsComplete ==
  \A r \in Reader : conn[r] = "ended" /\ ~tailed[r] =>
    \A i \in DOMAIN log : log[i].kind \in Terminal => Delivered(r, i)
=============================================================================
