-------------------------- MODULE HouseholdBrowser --------------------------
(***************************************************************************)
(* Browser pages that change the shared household                          *)
(* (app/planner-client.tsx, app/planner-api.ts,                            *)
(* app/authority-operation-journal.ts) against the planner ledger.         *)
(*                                                                         *)
(* journal is the page's recovery store in sessionStorage: it survives a   *)
(* reload, everything else about the page does not.  post is the change    *)
(* being posted (plannerMutationInFlight).  wire holds the copies of       *)
(* envelopes under way: the network may deliver a copy late or never, and  *)
(* the authority decides the first copy of a request that it handles.      *)
(*                                                                         *)
(* The revision a page shows lags the authority's by any amount, so a page *)
(* composes against any version there has been.                            *)
(***************************************************************************)
EXTENDS PlannerLedger, FiniteSetsExt

CONSTANTS
    Browsers,
    Patient,           \* the pages whose users keep pressing Resolve
    MaxCopies          \* bound: copies of one envelope under way at a time

VARIABLES
    journal,   \* per page, the pending operations: [request, state]
    post,      \* per page, the exchange under way: [request, copy, attempt], or NoPost
    wire,      \* the copies of envelopes that may still arrive: [request, copy]
    sent,      \* the requests that ever left a page
    told,      \* the requests a page was told are accepted
    givenUp,   \* the requests a page replaced under a new ID or discarded
    unsure     \* the requests a page was told the authority was unavailable for

browserVars == <<journal, post, wire, sent, told, givenUp, unsure>>
vars == <<ledgerVars, browserVars>>

JournalStates == {"prepared", "ambiguous", "resolved_conflict"}
NoPost == [attempt |-> 0]

\* One planner operation is pending per page at most, as a page composes no
\* further change before it has settled, discarded or replaced that one.
TypeOK ==
    /\ journal \in [Browsers -> SUBSET [request : Requests, state : JournalStates]]
    /\ \A b \in Browsers : Cardinality(journal[b]) <= 1
    /\ post \in [Browsers -> [request : Requests, copy : 1..MaxCopies, attempt : {1, 2}] \cup {NoPost}]
    /\ wire \subseteq [request : sent, copy : 1..MaxCopies]
    /\ sent \subseteq Requests
    /\ told \subseteq sent
    /\ givenUp \subseteq sent
    /\ unsure \subseteq sent

\* The household is set up by one of these pages, or was before, under an ID
\* that is none of RequestIds.
Init ==
    /\ \/ LedgerInit
       \/ /\ ledger = <<>> /\ verdicts = [k \in Keys |-> Undecided]
          /\ current \in {r.install : r \in {q \in Asked : q.kind = "workspace_bootstrap"}}
    /\ journal = [b \in Browsers |-> {}]
    /\ post = [b \in Browsers |-> NoPost]
    /\ wire = {} /\ sent = {} /\ told = {} /\ givenUp = {} /\ unsure = {}

-----------------------------------------------------------------------------
Idle(b) == post[b] = NoPost

\* createRequestId: an ID no page has used.
Fresh(r) == \A q \in sent : q.id # r.id
\* A version the page may be showing; a view that lags may still show no
\* household at all.
Composable(r) == r.kind # "workspace_bootstrap" => current # NoState /\ r.base <= Version

Pending(b) == {op.request : op \in journal[b]}

\* Fault: an update leaves the old entry beside the new one.
FaultJournalAppends(b, r, state) ==
    journal' = [journal EXCEPT ![b] = @ \cup {[request |-> r, state |-> state]}]

\* The page's one entry is written: appended, updated in place or replaced.
Journal(b, r, state) == journal' = [journal EXCEPT ![b] = {[request |-> r, state |-> state]}]
Settle(b) == journal' = [journal EXCEPT ![b] = {}]

\* One more copy of r leaves page b.
Free(r) == {c \in 1..MaxCopies : [request |-> r, copy |-> c] \notin wire}
Send(b, r, attempt) ==
    /\ Free(r) # {}
    /\ LET fresh == Min(Free(r))
       IN /\ wire' = wire \cup {[request |-> r, copy |-> fresh]}
          /\ post' = [post EXCEPT ![b] = [request |-> r, copy |-> fresh, attempt |-> attempt]]
    /\ sent' = sent \cup {r}

\* mutate, runUndo, bootstrap: the envelope is journalled before it is sent.
Compose(b, r) ==
    /\ Idle(b) /\ journal[b] = {}
    /\ Fresh(r)
    /\ Composable(r)
    /\ Journal(b, r, "prepared")
    /\ Send(b, r, 1)
    /\ UNCHANGED <<ledgerVars, told, givenUp, unsure>>

\* The authority handles a copy, now or much later: the first decides the
\* request, the others replay the decision.
Serve(envelope) ==
    /\ envelope \in wire
    /\ wire' = wire \ {envelope}
    /\ \/ DecideRequest(envelope.request)
       \/ ~Open(envelope.request) /\ UNCHANGED ledgerVars
    /\ UNCHANGED <<journal, post, sent, told, givenUp, unsure>>

\* The copy whose response page b awaits.
Envelope(b) == [request |-> post[b].request, copy |-> post[b].copy]

Answered(b) == ~Idle(b) /\ Envelope(b) \notin wire
Verdict(b) == verdicts[Key(post[b].request)].decision.status

EndPost(b) == post' = [post EXCEPT ![b] = NoPost]

\* Accepted: settleAuthorityOperation.
ReceiveAccepted(b) ==
    /\ Answered(b) /\ Verdict(b) = "accepted"
    /\ Settle(b)
    /\ EndPost(b)
    /\ told' = told \cup {post[b].request}
    /\ UNCHANGED <<ledgerVars, wire, sent, givenUp, unsure>>

\* Refused: resolveAuthorityOperation keeps it for review and retry.
ReceiveRefusal(b) ==
    /\ Answered(b) /\ Verdict(b) # "accepted"
    /\ Journal(b, post[b].request, "resolved_conflict")
    /\ EndPost(b)
    /\ UNCHANGED <<ledgerVars, wire, sent, told, givenUp, unsure>>

\* A form that recomposes its draft drops a change that met a version conflict.
ReceiveConflictAndRecompose(b) ==
    /\ Answered(b) /\ Verdict(b) = "version_conflict"
    /\ post[b].request.kind \in MutationKinds
    /\ Settle(b)
    /\ EndPost(b)
    /\ givenUp' = givenUp \cup {post[b].request}
    /\ UNCHANGED <<ledgerVars, wire, sent, told, unsure>>

\* The store is busy: the authority handles the copy, stores nothing and says
\* UNAVAILABLE.  An API failure is taken for a resolution like any other.
ReceiveUnavailable(b) ==
    /\ ~Idle(b) /\ Envelope(b) \in wire
    /\ wire' = wire \ {Envelope(b)}
    /\ Journal(b, post[b].request, "resolved_conflict")
    /\ EndPost(b)
    /\ unsure' = unsure \cup {post[b].request}
    /\ UNCHANGED <<ledgerVars, sent, told, givenUp>>

\* NETWORK_ERROR: the identical envelope is sent once more, then kept.
LoseFirst(b) ==
    /\ post[b].attempt = 1
    /\ Send(b, post[b].request, 2)
    /\ UNCHANGED <<ledgerVars, journal, told, givenUp, unsure>>

\* Fault: an exchange that failed twice is taken for refused.
FaultGiveUpAfterTwo(b) ==
    /\ post[b].attempt = 2
    /\ Journal(b, post[b].request, "resolved_conflict")
    /\ EndPost(b)
    /\ UNCHANGED <<ledgerVars, wire, sent, told, givenUp, unsure>>

LoseSecond(b) ==
    /\ post[b].attempt = 2
    /\ Journal(b, post[b].request, "ambiguous")
    /\ EndPost(b)
    /\ UNCHANGED <<ledgerVars, wire, sent, told, givenUp, unsure>>

\* Fault: an unreadable response ends the operation.
FaultForgetUnreadable(b) ==
    /\ ~Idle(b)
    /\ Settle(b)
    /\ EndPost(b)
    /\ UNCHANGED <<ledgerVars, wire, sent, told, givenUp, unsure>>

\* A response that is no valid answer: markAuthorityOperationAmbiguous.
ReceiveUnreadable(b) ==
    /\ ~Idle(b)
    /\ Journal(b, post[b].request, "ambiguous")
    /\ EndPost(b)
    /\ UNCHANGED <<ledgerVars, wire, sent, told, givenUp, unsure>>

\* Fault: an unresolved operation can no longer be replayed after a reload.
FaultReplayAmbiguousOnly(b, op) ==
    /\ Idle(b) /\ op \in journal[b] /\ op.state = "ambiguous"
    /\ Send(b, op.request, 1)
    /\ UNCHANGED <<ledgerVars, journal, told, givenUp, unsure>>

\* retryPendingOperation, unresolved: the same envelope under the same ID.
ReplayPending(b, op) ==
    /\ Idle(b) /\ op \in journal[b] /\ op.state # "resolved_conflict"
    /\ Send(b, op.request, 1)
    /\ UNCHANGED <<ledgerVars, journal, told, givenUp, unsure>>

\* retryPendingOperation, resolved: a new ID at the version now shown, with the
\* draft as edited since (replaceResolvedAuthorityOperation).
ReplaceResolved(b, op, r) ==
    /\ Idle(b) /\ op \in journal[b] /\ op.state = "resolved_conflict"
    /\ Fresh(r) /\ r.kind = op.request.kind
    /\ Composable(r)
    /\ Journal(b, r, "prepared")
    /\ Send(b, r, 1)
    /\ givenUp' = givenUp \cup {op.request}
    /\ UNCHANGED <<ledgerVars, told, unsure>>

\* discardPendingOperation is offered for a resolved operation only.
Discard(b, op) ==
    /\ Idle(b) /\ op \in journal[b] /\ op.state = "resolved_conflict"
    /\ Settle(b)
    /\ givenUp' = givenUp \cup {op.request}
    /\ UNCHANGED <<ledgerVars, post, wire, sent, told, unsure>>

\* The page is reloaded, with or without an exchange under way.
Reload(b) ==
    /\ EndPost(b)
    /\ UNCHANGED <<ledgerVars, journal, wire, sent, told, givenUp, unsure>>

Resolve(b) == ReceiveAccepted(b) \/ ReceiveRefusal(b) \/ ReceiveConflictAndRecompose(b)

Next ==
    \/ \E envelope \in wire : Serve(envelope)
    \/ \E b \in Browsers :
          \/ \E r \in Asked : Compose(b, r)
          \/ ReceiveAccepted(b) \/ ReceiveRefusal(b) \/ ReceiveConflictAndRecompose(b)
          \/ ReceiveUnavailable(b) \/ ReceiveUnreadable(b)
          \/ LoseFirst(b) \/ LoseSecond(b) \/ Reload(b)
          \/ \E op \in journal[b] :
                ReplayPending(b, op) \/ Discard(b, op) \/ \E r \in Asked : ReplaceResolved(b, op, r)

Spec == Init /\ [][Next]_vars

-----------------------------------------------------------------------------
(* What a page promises its user.                                          *)

TookEffect(r) == \E i \in DOMAIN ledger : ledger[i].request = r

\* "An ambiguous shared request cannot be discarded before exact replay
\* resolves it": what a page discarded, or sent again under a new ID, after the
\* authority refused it has had no effect and never will, so no intent takes
\* effect twice, however late an envelope arrives.
RefusedHadNoEffect == \A r \in givenUp \ unsure : ~TookEffect(r)

\* The same of every operation a page may give up: also of one the authority
\* was unavailable for when the page asked again (retryPendingOperation).
GivenUpHadNoEffect == \A r \in givenUp : ~TookEffect(r)

\* Every change that took effect is either known to have or still pending on
\* some page, ready for exact replay, through any reload and any lost answer.
NothingForgotten ==
    \A r \in sent : TookEffect(r) =>
        r \in told \cup givenUp \cup UNION {Pending(b) : b \in Browsers}

\* No change is forgotten while it may have taken effect, nor made twice.
ChangesAccounted == RefusedHadNoEffect /\ NothingForgotten

\* A pending operation gets out of the unresolved states: if its user keeps
\* pressing Resolve and the network does not lose every answer, the page learns
\* what became of it.
Unresolved(b) == \E op \in journal[b] : op.state # "resolved_conflict"
PendingResolves == \A b \in Patient : []<>~Unresolved(b)

\* What that takes: of the copies a patient page sent, and of the answers given
\* to it, not all are lost, and its user does not stop.  Nothing is assumed of
\* reloads, of the other pages or of what gets lost in between.
Deliver(b) == \E envelope \in wire : envelope.request \in Pending(b) /\ Serve(envelope)
Persistence ==
  \A b \in Patient :
    /\ WF_vars(Deliver(b))
    /\ SF_vars(~Idle(b) /\ Serve(Envelope(b)))
    /\ SF_vars(Resolve(b))
    /\ SF_vars(\E op \in journal[b] : ReplayPending(b, op))

PersistentSpec == Spec /\ Persistence
=============================================================================
