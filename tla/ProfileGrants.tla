---------------------------- MODULE ProfileGrants ----------------------------
(***************************************************************************)
(* Authorisation of the proactive profile: its revisions per device, the   *)
(* grant of a source in each, the consents projected from them and the     *)
(* activation leases of the host (apps/api/src/modules/proactive/routes.ts *)
(* over proactive-profile-repository.ts).  One mandatory source stands for *)
(* all: their rows do not meet.  Every await of a request is a step of its *)
(* own; confirmProfile alone is a transaction.                             *)
(***************************************************************************)
EXTENDS Naturals, Sequences, FiniteSets

CONSTANTS
  Device,
  GrantCall,      \* requests under way at once
  MaxRevisions,   \* bound: revisions of all devices
  MaxLeases,      \* bound: activation leases
  MaxGrantCalls   \* bound: requests

ASSUME GrantsAssumption == MaxRevisions \in Nat /\ MaxLeases \in Nat /\ MaxGrantCalls \in Nat

VARIABLES
  revision,     \* proactive_profile_revisions in order of insertion, with the source of each
  consent,      \* consent_grants: the row of each revision for the source
  leases,        \* proactive_activation_leases in order of insertion
  grantCall,    \* the requests under way
  past          \* requests begun, whether two met, what was ended or withdrawn, the user's last
                \* word on the revision that counted

grantVars == <<revision, consent, leases, grantCall, past>>

SourceState == {"requested", "granted", "revoked"}
RevisionRow == [device : Device, number : 1..MaxRevisions, status : {"draft", "active", "superseded", "revoked"},
                desired : {"none", "enabled", "paused", "revoked"}, source : SourceState]
LeaseRow == [revision : 1..MaxRevisions, device : Device, status : {"active", "expired", "ended"}, overdue : BOOLEAN]
NoGrantCall == [op |-> "none", pc |-> "end", on |-> 0, to |-> "none", read |-> "none"]

GrantsTypeOK ==
  /\ revision \in Seq(RevisionRow) /\ Len(revision) <= MaxRevisions
  /\ consent \in [1..MaxRevisions -> {"none", "active", "revoked"}]
  /\ leases \in Seq(LeaseRow) /\ Len(leases) <= MaxLeases
  /\ grantCall \in [GrantCall ->
       [op : {"none", "confirm", "draft", "state", "source", "activate", "heartbeat"},
        pc : {"end", "read", "write", "consents"}, on : 0..MaxRevisions + MaxLeases,
        to : Device \cup {"none", "enabled", "paused", "revoked"} \cup SourceState,
        read : {"none", "draft", "active", "superseded", "revoked"}]]
  /\ past \in [begun : 0..MaxGrantCalls, met : BOOLEAN, ended : SUBSET (1..MaxLeases),
               withdrawn : SUBSET (1..MaxRevisions), silent : BOOLEAN,
               word : {"none", "enabled", "paused", "revoked"}]

GrantsInit ==
  /\ revision = <<>> /\ leases = <<>>
  /\ consent = [r \in 1..MaxRevisions |-> "none"]
  /\ grantCall = [k \in GrantCall |-> NoGrantCall]
  /\ past = [begun |-> 0, met |-> FALSE, ended |-> {}, withdrawn |-> {}, silent |-> FALSE, word |-> "none"]

-----------------------------------------------------------------------------
Revisions == DOMAIN revision
Latest(d) ==
  LET numbers == {revision[r].number : r \in {r \in Revisions : revision[r].device = d}} IN
  IF numbers = {} THEN 0 ELSE CHOOSE n \in numbers : \A m \in numbers : m <= n

\* getRevision without an id: the highest number of any device.  Of equal ones the first in
\* the index on the status, by which the query is answered, and there the one inserted first.
StatusOrder == [active |-> 1, draft |-> 2, revoked |-> 3, superseded |-> 4]
IsBefore(r, s) ==
  \/ revision[r].number > revision[s].number
  \/ /\ revision[r].number = revision[s].number
     /\ \/ StatusOrder[revision[r].status] < StatusOrder[revision[s].status]
        \/ revision[r].status = revision[s].status /\ r <= s
CurrentRevision == CHOOSE r \in Revisions : \A s \in Revisions : IsBefore(r, s)

ActiveConsents == {r \in 1..MaxRevisions : consent[r] = "active"}
RevokeConsents == consent' = [r \in 1..MaxRevisions |-> IF consent[r] = "active" THEN "revoked" ELSE consent[r]]

CallOf(k) == grantCall[k]
Awaits(k, op, pc) == CallOf(k).op = op /\ CallOf(k).pc = pc
GrantEnds(k) == grantCall' = [grantCall EXCEPT ![k] = NoGrantCall]

BeginGrant(k, op, on, to) ==
  /\ CallOf(k) = NoGrantCall /\ past.begun < MaxGrantCalls
  /\ grantCall' = [grantCall EXCEPT ![k] = [op |-> op, pc |-> "read", on |-> on, to |-> to, read |-> "none"]]
  /\ past' = [past EXCEPT !.begun = @ + 1, !.met = @ \/ \E j \in GrantCall : CallOf(j) # NoGrantCall]
  /\ UNCHANGED <<revision, consent, leases>>

AskGrant(k) ==
  \/ \E d \in Device : BeginGrant(k, "confirm", 0, d) \/ BeginGrant(k, "draft", 0, d)
  \/ \E r \in {0} \cup Revisions, to \in {"enabled", "paused", "revoked"} : revision # <<>> /\ BeginGrant(k, "state", r, to)
  \/ \E r \in Revisions : \/ \E to \in SourceState : BeginGrant(k, "source", r, to)
                          \/ BeginGrant(k, "activate", r, revision[r].device)
  \/ \E l \in DOMAIN leases : BeginGrant(k, "heartbeat", l, "none")

-----------------------------------------------------------------------------
\* POST /v1/proactive/authorize, the transaction of confirmProfile: the active revision
\* of the device is superseded, the new one takes the next number, and the consent of
\* the source passes to it.  The route then finds every consent there, or revoked by
\* somebody else and its row in the way of another.
ConfirmProfile(k) ==
  LET d == CallOf(k).to
      r == Len(revision) + 1
      gone == {s \in Revisions : revision[s].device = d /\ revision[s].status = "active"}
  IN
  /\ Awaits(k, "confirm", "read")
  /\ Len(revision) < MaxRevisions
  /\ \E source \in SourceState :
       revision' = Append([s \in Revisions |-> IF s \in gone THEN [revision[s] EXCEPT !.status = "superseded"] ELSE revision[s]],
         [device |-> d, number |-> Latest(d) + 1, status |-> "active", desired |-> "enabled", source |-> source])
  /\ consent' = [s \in 1..MaxRevisions |-> IF s = r THEN "active" ELSE IF consent[s] = "active" THEN "revoked" ELSE consent[s]]
  /\ past' = [past EXCEPT !.withdrawn = @ \cup gone, !.silent = FALSE, !.word = "enabled"]
  /\ GrantEnds(k)
  /\ UNCHANGED leases

\* createDraft reads the latest number and inserts the next; the unique index refuses a
\* number that was taken meanwhile.
DraftReads(k) ==
  /\ Awaits(k, "draft", "read")
  /\ Latest(CallOf(k).to) < MaxRevisions
  /\ grantCall' = [grantCall EXCEPT ![k] = [@ EXCEPT !.pc = "write", !.on = Latest(CallOf(k).to) + 1]]
  /\ UNCHANGED <<revision, consent, leases, past>>

DraftInserts(k) ==
  LET d == CallOf(k).to
      n == CallOf(k).on
  IN
  /\ Awaits(k, "draft", "write")
  /\ IF \E r \in Revisions : revision[r].device = d /\ revision[r].number = n THEN UNCHANGED revision
     ELSE /\ Len(revision) < MaxRevisions
          /\ revision' = Append(revision, [device |-> d, number |-> n, status |-> "draft", desired |-> "none", source |-> "requested"])
  /\ GrantEnds(k)
  /\ UNCHANGED <<consent, leases, past>>

-----------------------------------------------------------------------------
\* POST /v1/proactive/desired-state: setDesiredState reads the revision the request names,
\* or without a name the newest, writes its state and the status it read, and after a
\* revocation revokes every consent.
StateReads(k) ==
  LET r == IF CallOf(k).on = 0 THEN CurrentRevision ELSE CallOf(k).on IN
  /\ Awaits(k, "state", "read")
  /\ grantCall' = [grantCall EXCEPT ![k] = [@ EXCEPT !.pc = "write", !.on = r, !.read = revision[r].status]]
  /\ UNCHANGED <<revision, consent, leases, past>>

StateWrites(k) ==
  LET r == CallOf(k).on
      to == CallOf(k).to
  IN
  /\ Awaits(k, "state", "write")
  /\ revision' = [revision EXCEPT ![r] =
       [@ EXCEPT !.desired = to, !.status = IF to = "revoked" THEN "revoked" ELSE CallOf(k).read]]
  /\ IF to = "revoked" THEN grantCall' = [grantCall EXCEPT ![k].pc = "consents"] ELSE GrantEnds(k)
  /\ past' = [past EXCEPT !.withdrawn = IF to = "revoked" THEN @ \cup {r} ELSE @,
                         !.word = IF r = CurrentRevision THEN to ELSE @]
  /\ UNCHANGED <<consent, leases>>

StateRevokes(k) ==
  /\ Awaits(k, "state", "consents")
  /\ RevokeConsents
  /\ past' = [past EXCEPT !.silent = TRUE]
  /\ GrantEnds(k)
  /\ UNCHANGED <<revision, leases>>

\* PATCH /v1/proactive/sources/:id: the grant of one revision, and with a revocation the
\* consent of the source, whichever revision it is of.
SourceWrites(k) ==
  /\ Awaits(k, "source", "read")
  /\ revision' = [revision EXCEPT ![CallOf(k).on].source = CallOf(k).to]
  /\ IF CallOf(k).to = "revoked" THEN grantCall' = [grantCall EXCEPT ![k].pc = "consents"] ELSE GrantEnds(k)
  /\ UNCHANGED <<consent, leases, past>>

SourceRevokes(k) ==
  /\ Awaits(k, "source", "consents")
  /\ RevokeConsents
  /\ GrantEnds(k)
  /\ UNCHANGED <<revision, leases, past>>

-----------------------------------------------------------------------------
\* createActivationLease: the active lease of the device ends, then the new one is inserted.
LeaseSupersedes(k) ==
  LET gone == {l \in DOMAIN leases : leases[l].device = CallOf(k).to /\ leases[l].status = "active"} IN
  /\ Awaits(k, "activate", "read")
  /\ leases' = [l \in DOMAIN leases |-> IF l \in gone THEN [leases[l] EXCEPT !.status = "ended"] ELSE leases[l]]
  /\ past' = [past EXCEPT !.ended = @ \cup gone]
  /\ grantCall' = [grantCall EXCEPT ![k].pc = "write"]
  /\ UNCHANGED <<revision, consent>>

\* Of one device two leases of one epoch are refused, after the first was ended.
LeaseInserts(k) ==
  /\ Awaits(k, "activate", "write")
  /\ \/ /\ Len(leases) < MaxLeases
        /\ leases' = Append(leases, [revision |-> CallOf(k).on, device |-> CallOf(k).to, status |-> "active", overdue |-> FALSE])
     \/ (\E l \in DOMAIN leases : leases[l].device = CallOf(k).to) /\ UNCHANGED leases
  /\ GrantEnds(k)
  /\ UNCHANGED <<revision, consent, past>>

\* heartbeatActivationLease
HeartbeatReads(k) ==
  LET l == CallOf(k).on IN
  /\ Awaits(k, "heartbeat", "read")
  /\ IF leases[l].status # "active" THEN GrantEnds(k)
     ELSE grantCall' = [grantCall EXCEPT ![k] =
            [@ EXCEPT !.pc = "write", !.read = IF leases[l].overdue THEN "revoked" ELSE "active"]]
  /\ UNCHANGED <<revision, consent, leases, past>>

\* The lease is renewed if it is still active; what was read as overdue is marked expired.
HeartbeatWrites(k) ==
  LET l == CallOf(k).on IN
  /\ Awaits(k, "heartbeat", "write")
  /\ leases' = [leases EXCEPT ![l] =
       IF CallOf(k).read = "revoked" THEN [@ EXCEPT !.status = "expired"]
       ELSE IF @.status = "active" THEN [@ EXCEPT !.overdue = FALSE] ELSE @]
  /\ past' = [past EXCEPT !.ended = IF CallOf(k).read = "revoked" THEN @ \cup {l} ELSE @]
  /\ GrantEnds(k)
  /\ UNCHANGED <<revision, consent>>

EndLease(l) ==
  /\ leases[l].status = "active"
  /\ leases' = [leases EXCEPT ![l].status = "ended"]
  /\ past' = [past EXCEPT !.ended = @ \cup {l}]
  /\ UNCHANGED <<revision, consent, grantCall>>

LeaseRunsOut(l) ==
  /\ leases[l].status = "active" /\ ~leases[l].overdue
  /\ leases' = [leases EXCEPT ![l].overdue = TRUE]
  /\ UNCHANGED <<revision, consent, grantCall, past>>

GrantsNext ==
  \/ \E k \in GrantCall :
       \/ AskGrant(k) \/ ConfirmProfile(k) \/ DraftReads(k) \/ DraftInserts(k)
       \/ StateReads(k) \/ StateWrites(k) \/ StateRevokes(k) \/ SourceWrites(k) \/ SourceRevokes(k)
       \/ LeaseSupersedes(k) \/ LeaseInserts(k) \/ HeartbeatReads(k) \/ HeartbeatWrites(k)
  \/ \E l \in DOMAIN leases : EndLease(l) \/ LeaseRunsOut(l)

GrantsSpec == GrantsInit /\ [][GrantsNext]_grantVars

-----------------------------------------------------------------------------
\* getEffectiveStatus is "active": what the host asks before it observes or acts.
IsActive ==
  /\ revision # <<>>
  /\ revision[CurrentRevision].desired = "enabled" /\ revision[CurrentRevision].status # "revoked"
  /\ revision[CurrentRevision].source = "granted"
  /\ \E l \in DOMAIN leases : leases[l].revision = CurrentRevision /\ leases[l].status = "active" /\ ~leases[l].overdue

\* Of one device no two revisions have a number, however drafts and confirmations meet,
\* and of one source one consent at most stands, of whatever device.
NumbersAndConsentsAreUnique ==
  /\ \A r, s \in Revisions : revision[r].device = revision[s].device /\ revision[r].number = revision[s].number => r = s
  /\ Cardinality(ActiveConsents) <= 1

\* As long as no two requests met, a device has one active revision at most, a revision
\* superseded or revoked is not active again and does not make the mode active, and the
\* mode is not active after the user paused the revision that counted, whatever is then
\* said of others: a draft, an older one or that of another device, which a request may
\* name and does not make count.  (A pause of such a one leaves the mode as it is.  A change
\* of state that met a confirmation writes the status it had read, and of two that met the
\* first may be the last to write.)
WithdrawnStaysWithdrawn ==
  ~past.met =>
    /\ past.word = "paused" => ~IsActive
    /\ IsActive => CurrentRevision \notin past.withdrawn
    /\ \A r \in past.withdrawn : revision[r].status # "active"
    /\ \A r, s \in Revisions : revision[r].status = "active" /\ revision[s].status = "active"
                               /\ revision[r].device = revision[s].device => r = s

\* Nor after the user revoked that revision.  False for the code with two devices, whose revisions
\* count up each on its own: of two with one number the index puts the one that is still
\* active before the one revoked, and the mode goes on under it.
RevokedIsInactive == ~past.met /\ past.word = "revoked" => ~IsActive

\* After a revocation no consent stands until the user authorises again, whatever else
\* was under way.
RevokedIsSilent == past.silent => ActiveConsents = {}

\* A lease that ended, was superseded or expired is never active again: a heartbeat that
\* was under way cannot bring it back.
EndedLeaseStaysEnded == \A l \in past.ended : leases[l].status # "active"

\* In every state of the authorisation.
GrantsInvariant ==
  /\ GrantsTypeOK /\ NumbersAndConsentsAreUnique /\ WithdrawnStaysWithdrawn
  /\ RevokedIsSilent /\ EndedLeaseStaysEnded
=============================================================================
