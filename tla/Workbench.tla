------------------------------ MODULE Workbench ------------------------------
(***************************************************************************)
(* The chat client: sendMessage and handleApprovalDecision of              *)
(* packages/ui/src/components/AervoxWorkbench.vue over streamTurn of       *)
(* packages/api-client/src/transport.ts (web) and desktop-transport.ts.    *)
(* The server is external: it may be slow, silent or gone, ends the stream *)
(* of a turn when it likes, and writes a bounded number of frames.         *)
(* Messages are numbered in the order they are begun.                      *)
(***************************************************************************)
EXTENDS Naturals, FiniteSets, FiniteSetsExt

CONSTANTS MaxSends,  \* bound: messages begun, those sent again included
          MaxFrames  \* bound: frames of one stream before its end

ASSUME WorkbenchAssumption == {MaxSends, MaxFrames} \subseteq Nat

VARIABLES streaming, \* the busy flag of the composer
          attached,  \* pendingAttachments is not empty
          sends,     \* each message: where it is, its line, its frames, what it sends again
          pending,   \* pendingApproval: the message whose turn asks, or 0
          deciding,  \* the decision being posted (approvalBusy)
          grants,    \* approvals granted on the server
          desktop    \* which transport the host configured

workbenchVars == <<streaming, attached, sends, pending, deciding, grants, desktop>>

Sends == 1..MaxSends
Blank == [at |-> "none", line |-> "none", frames |-> 0, again |-> 0]
NoDecision == [at |-> "none", decision |-> "none", of |-> 0]

WorkbenchTypeOK ==
  /\ streaming \in BOOLEAN /\ attached \in BOOLEAN /\ desktop \in BOOLEAN
  /\ sends \in [Sends -> [at : {"none", "upload", "post", "listen", "over"},
                         line : {"none", "streaming", "complete", "error"},
                         frames : 0..MaxFrames, again : 0..MaxSends]]
  /\ pending \in 0..MaxSends
  /\ deciding \in [at : {"none", "post", "resend"}, decision : {"none", "granted", "denied"}, of : 0..MaxSends]
  /\ grants \subseteq Sends

WorkbenchInit ==
  /\ streaming = FALSE
  /\ attached \in BOOLEAN
  /\ sends = [s \in Sends |-> Blank]
  /\ pending = 0
  /\ deciding = NoDecision
  /\ grants = {}
  /\ desktop \in BOOLEAN

Unbegun == {s \in Sends : sends[s].at = "none"}
NextSend == Min(Unbegun)

\* From the pushed lines to the request: the composer is busy from here.
StartStream(s, again) ==
  /\ sends' = [sends EXCEPT ![s] = [@ EXCEPT !.at = "post", !.line = "streaming", !.again = again]]
  /\ streaming' = TRUE

\* sendMessage tests the busy flag once; attachments are uploaded before it is set.
SubmitText ==
  /\ Unbegun # {}
  /\ ~streaming
  /\ IF attached
       THEN sends' = [sends EXCEPT ![NextSend].at = "upload"] /\ UNCHANGED streaming
       ELSE StartStream(NextSend, 0)
  /\ UNCHANGED <<attached, pending, deciding, grants, desktop>>

Attach ==
  /\ ~attached
  /\ attached' = TRUE
  /\ UNCHANGED <<streaming, sends, pending, deciding, grants, desktop>>

\* The upload is over: the message goes out, or stays in the composer.
Uploaded(s) ==
  /\ sends[s].at = "upload"
  /\ \/ StartStream(s, 0) /\ attached' = FALSE
     \/ sends' = [sends EXCEPT ![s].at = "over"] /\ UNCHANGED <<streaming, attached>>
  /\ UNCHANGED <<pending, deciding, grants, desktop>>

\* The finally of sendMessage frees the composer, whichever message is streaming.
Ends(s, line) ==
  /\ sends' = [sends EXCEPT ![s].at = "over", ![s].line = line]
  /\ streaming' = FALSE

\* The turn is created and its event stream opened.
Posted(s) ==
  /\ sends[s].at = "post"
  /\ sends' = [sends EXCEPT ![s].at = "listen"]
  /\ UNCHANGED <<streaming, attached, pending, deciding, grants, desktop>>

\* The idle timer of a transport that only arms it with the first bytes.
ListenTimeout(s) ==
  /\ sends[s].at = "listen"
  /\ Ends(s, "error")
  /\ UNCHANGED <<attached, pending, deciding, grants, desktop>>

\* The idle timer, armed before the request and by every piece of data; a broken
\* connection and a refused request take the same catch.
IdleTimeout(s) ==
  /\ sends[s].at \in {"post", "listen"}
  /\ Ends(s, "error")
  /\ UNCHANGED <<attached, pending, deciding, grants, desktop>>

Hear(s) == sends[s].at = "listen" /\ sends[s].frames < MaxFrames

\* delta, reasoning_delta and the heartbeats of the server.
Delta(s) ==
  /\ Hear(s)
  /\ sends' = [sends EXCEPT ![s].frames = @ + 1]
  /\ UNCHANGED <<streaming, attached, pending, deciding, grants, desktop>>

\* tool_approval_required shows the card, over the one that may be there.
AskApproval(s) ==
  /\ Hear(s)
  /\ sends' = [sends EXCEPT ![s].frames = @ + 1]
  /\ pending' = s
  /\ UNCHANGED <<streaming, attached, deciding, grants, desktop>>

\* An error event: the desktop bridge gives the turn up, the web transport calls
\* onError, which sendMessage does not pass.
ErrorFrame(s) ==
  /\ Hear(s)
  /\ IF desktop
       THEN Ends(s, "error")
       ELSE sends' = [sends EXCEPT ![s].frames = @ + 1] /\ UNCHANGED streaming
  /\ UNCHANGED <<attached, pending, deciding, grants, desktop>>

DoneFrame(s) ==
  /\ Hear(s)
  /\ sends' = [sends EXCEPT ![s].line = "complete", ![s].frames = MaxFrames]
  /\ UNCHANGED <<streaming, attached, pending, deciding, grants, desktop>>

\* The server closes the stream, after done or without it.
Closed(s) ==
  /\ sends[s].at = "listen"
  /\ Ends(s, sends[s].line)
  /\ UNCHANGED <<attached, pending, deciding, grants, desktop>>

\* handleApprovalDecision up to its request.
Decide(decision) ==
  /\ pending # 0
  /\ deciding.at = "none"
  /\ deciding' = [at |-> "post", decision |-> decision, of |-> pending]
  /\ UNCHANGED <<streaming, attached, sends, pending, grants, desktop>>

\* sendMessage(outgoing, {resend: true}) returns at once while another turn streams.
Resend(of) ==
  IF streaming THEN UNCHANGED <<streaming, sends>>
  ELSE Unbegun # {} /\ StartStream(NextSend, of)

\* The decision is on record.  The card goes, whichever it is by now; a grant sends
\* the message again, a denial frees the composer.
Decided ==
  /\ deciding.at = "post"
  /\ pending' = 0
  /\ IF deciding.decision = "granted"
       THEN /\ grants' = grants \cup {deciding.of}
            /\ Resend(deciding.of)
            /\ deciding' = [deciding EXCEPT !.at = "resend"]
       ELSE /\ streaming' = FALSE
            /\ deciding' = NoDecision
            /\ UNCHANGED <<sends, grants>>
  /\ UNCHANGED <<attached, desktop>>

\* The request fails: the card stays.
DecideFails ==
  /\ deciding.at = "post"
  /\ deciding' = NoDecision
  /\ UNCHANGED <<streaming, attached, sends, pending, grants, desktop>>

\* The handler waits for the message it sent again.
ResendOver ==
  /\ deciding.at = "resend"
  /\ \A s \in Sends : sends[s].again = deciding.of => sends[s].at = "over"
  /\ deciding' = NoDecision
  /\ UNCHANGED <<streaming, attached, sends, pending, grants, desktop>>

StreamMoves(s) ==
  Posted(s) \/ IdleTimeout(s) \/ Delta(s) \/ AskApproval(s) \/ ErrorFrame(s) \/ DoneFrame(s) \/ Closed(s)

WorkbenchNext ==
  \/ SubmitText \/ Attach \/ Decided \/ DecideFails \/ ResendOver
  \/ \E decision \in {"granted", "denied"} : Decide(decision)
  \/ \E s \in Sends : Uploaded(s) \/ StreamMoves(s)

\* The timer fires; requests, frames and the end of a stream may never come.
WorkbenchFairness == \A s \in Sends : WF_workbenchVars(IdleTimeout(s))
WorkbenchSpec == WorkbenchInit /\ [][WorkbenchNext]_workbenchVars /\ WorkbenchFairness

-----------------------------------------------------------------------------
\* The composer is never busy for good, whatever the server fails to do: a request
\* that hangs, a stream that falls silent and a server that dies all run into the
\* idle timer, which is armed before the request.
ComposerIsFreed == streaming ~> ~streaming

\* AervoxWorkbench.vue:922: once granted, the same request is sent again and meets
\* the permission.  Here: when the handler is done, so is the resend.
GrantIsUsed ==
  \A g \in grants : deciding.of # g => \E s \in Sends : sends[s].again = g
=============================================================================
