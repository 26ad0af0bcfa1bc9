--------------------------- MODULE WorkspaceView ---------------------------
(***************************************************************************)
(* What one page shows of the shared workspace (app/planner-client.tsx,    *)
(* app/planner-api.ts, server/http/application-router.ts): a conditional   *)
(* GET every two seconds, the readbacks of the page's own changes, forced  *)
(* refreshes and the browser's offline event.                              *)
(*                                                                         *)
(* A workspace is its sync revision; 0 is a household not set up yet.      *)
(* The query library runs one read at a time and forgets the data of a     *)
(* read it cancels, but the read itself runs on to its end.                *)
(***************************************************************************)
EXTENDS Integers, FiniteSets

CONSTANTS
    MaxRevision,   \* bound: changes to the workspace
    ReadSlots      \* bound: reads under way at a time, cancelled ones included

ASSUME ViewAssumption == MaxRevision \in Nat /\ ReadSlots # {}

VARIABLES
    syncRevision, \* the authority's sync revision
    reads,      \* per slot, a GET under way
    paused,     \* a fetch waits for the browser to come online
    online,     \* what the browser says of the network
    etag,       \* etagRef
    cache,      \* the workspace in the query cache, which the page shows
    ref,        \* workspaceRef, which the page composes against
    ownChange   \* the page's own change under way

viewVars == <<syncRevision, reads, paused, online, etag, cache, ref, ownChange>>

NoRevision == -1
Revisions == 0..MaxRevision
NoRead == [live |-> FALSE]
NoChange == [accepted |-> FALSE]
Unanswered == [answer |-> NoRevision, accepted |-> FALSE]

Fetching == \E s \in ReadSlots : reads[s].live

\* The query library runs one fetch at most, and none while one is paused.
ViewTypeOK ==
    /\ syncRevision \in Revisions
    /\ reads \in [ReadSlots ->
         [live : BOOLEAN, etag : Revisions \cup {NoRevision}, seen : Revisions \cup {NoRevision}] \cup {NoRead}]
    /\ paused \in BOOLEAN /\ online \in BOOLEAN
    /\ {etag, cache, ref} \subseteq Revisions \cup {NoRevision}
    /\ ownChange \in {NoChange} \cup [answer : Revisions \cup {NoRevision}, accepted : BOOLEAN]
    /\ Cardinality({s \in ReadSlots : reads[s].live}) <= 1
    /\ paused => ~Fetching

ViewInit ==
    /\ syncRevision \in {0, 1}
    /\ reads = [s \in ReadSlots |-> NoRead]
    /\ paused = FALSE /\ online = TRUE
    /\ etag = NoRevision /\ cache = NoRevision /\ ref = NoRevision
    /\ ownChange = NoChange

-----------------------------------------------------------------------------
(* The query library.                                                      *)

Busy(s) == reads[s] # NoRead

\* Every read is cancelled for the library: only its data is forgotten.
Cancelled == [s \in ReadSlots |-> IF Busy(s) THEN [reads[s] EXCEPT !.live = FALSE] ELSE NoRead]

\* A read leaves with the validator it finds.
StartRead(from, validator) ==
    \E s \in ReadSlots :
        /\ ~Busy(s)
        /\ reads' = [from EXCEPT ![s] = [live |-> TRUE, etag |-> validator, seen |-> NoRevision]]

\* Fault: a refetch does not cancel the fetch under way.
FaultRefetchTwice(validator, connected) ==
    IF connected THEN StartRead(reads, validator) /\ paused' = FALSE
                 ELSE reads' = Cancelled /\ paused' = TRUE

\* invalidateQueries: a fetch under way is replaced, unless it is the first.
\* A fetch that starts while the browser is offline pauses instead.
Refetch(validator, connected) ==
    IF Fetching /\ cache = NoRevision
    THEN UNCHANGED <<reads, paused>>
    ELSE IF connected
         THEN StartRead(Cancelled, validator) /\ paused' = FALSE
         ELSE reads' = Cancelled /\ paused' = TRUE

-----------------------------------------------------------------------------
(* The page.                                                               *)

\* refetchInterval, or the window got the focus.
Poll ==
    /\ ~Fetching /\ ~paused
    /\ Refetch(etag, online)
    /\ UNCHANGED <<syncRevision, online, etag, cache, ref, ownChange>>

\* The browser's offline event: refresh(false).
GoOffline ==
    /\ online
    /\ online' = FALSE
    /\ Refetch(etag, FALSE)
    /\ UNCHANGED <<syncRevision, etag, cache, ref, ownChange>>

\* Fault: a paused fetch is not resumed.
FaultStayPaused ==
    /\ ~online
    /\ online' = TRUE
    /\ UNCHANGED <<syncRevision, reads, paused, etag, cache, ref, ownChange>>

\* The online event: a paused fetch runs, with the validator of that moment.
GoOnline ==
    /\ ~online
    /\ online' = TRUE
    /\ IF paused THEN StartRead(reads, etag) /\ paused' = FALSE
                 ELSE UNCHANGED <<reads, paused>>
    /\ UNCHANGED <<syncRevision, etag, cache, ref, ownChange>>

\* refresh(true): the validator is dropped, so that the read is unconditional.
ForceRefresh ==
    /\ etag' = NoRevision
    /\ Refetch(NoRevision, online)
    /\ UNCHANGED <<syncRevision, online, cache, ref, ownChange>>

\* GET /api/workspace is answered, with 304 if the validator is current.
ServeRead(s) ==
    /\ Busy(s) /\ reads[s].seen = NoRevision
    /\ reads' = [reads EXCEPT ![s].seen = syncRevision]
    /\ UNCHANGED <<syncRevision, paused, online, etag, cache, ref, ownChange>>

NotModified(s) == reads[s].etag = reads[s].seen

Later(i, j) == IF i > j THEN i ELSE j

\* Fault: a read replaces what is shown, newer or not.
FaultShowRead(s) == IF NotModified(s) THEN cache ELSE reads[s].seen

\* The data a finished read leaves: a 304 keeps what there is, and a workspace
\* older than the cached one is dropped (shouldAcceptWorkspace).
ShowRead(s) == IF NotModified(s) THEN cache ELSE Later(cache, reads[s].seen)

\* The response is read: the validator is kept, cancelled or not.
FinishRead(s) ==
    /\ Busy(s) /\ reads[s].seen # NoRevision
    /\ etag' = reads[s].seen
    /\ cache' = IF reads[s].live THEN ShowRead(s) ELSE cache
    /\ reads' = [reads EXCEPT ![s] = NoRead]
    /\ UNCHANGED <<syncRevision, paused, online, ref, ownChange>>

LoseRead(s) ==
    /\ Busy(s)
    /\ reads' = [reads EXCEPT ![s] = NoRead]
    /\ UNCHANGED <<syncRevision, paused, online, etag, cache, ref, ownChange>>

\* The effect that follows a render with new query data.
SyncRef ==
    /\ ref # cache
    /\ ref' = cache
    /\ UNCHANGED <<syncRevision, reads, paused, online, etag, cache, ownChange>>

\* The page posts a change of its own.
PostChange ==
    /\ ownChange = NoChange /\ ref # NoRevision
    /\ ownChange' = Unanswered
    /\ UNCHANGED <<syncRevision, reads, paused, online, etag, cache, ref>>

\* The authority decides it and reads the workspace back.
ServePost ==
    /\ ownChange = Unanswered
    /\ \/ /\ syncRevision < MaxRevision
          /\ syncRevision' = syncRevision + 1
          /\ ownChange' = [answer |-> syncRevision + 1, accepted |-> TRUE]
       \/ /\ UNCHANGED syncRevision
          /\ ownChange' = [answer |-> syncRevision, accepted |-> FALSE]
    /\ UNCHANGED <<reads, paused, online, etag, cache, ref>>

\* acceptWorkspace, and refresh(true) if the change was accepted.
FinishPost ==
    /\ ownChange # NoChange /\ ownChange.answer # NoRevision
    /\ IF ownChange.answer >= ref
       THEN ref' = ownChange.answer /\ cache' = ownChange.answer
       ELSE UNCHANGED <<ref, cache>>
    /\ IF ownChange.accepted
       THEN etag' = NoRevision /\ Refetch(NoRevision, online)
       ELSE UNCHANGED <<etag, reads, paused>>
    /\ ownChange' = NoChange
    /\ UNCHANGED <<syncRevision, online>>

LosePost ==
    /\ ownChange # NoChange
    /\ ownChange' = NoChange
    /\ UNCHANGED <<syncRevision, reads, paused, online, etag, cache, ref>>

\* Another device, Codex or the global ingress changes the household.
OthersChange ==
    /\ syncRevision < MaxRevision
    /\ syncRevision' = syncRevision + 1
    /\ UNCHANGED <<reads, paused, online, etag, cache, ref, ownChange>>

ViewNext ==
    \/ Poll \/ GoOffline \/ GoOnline \/ ForceRefresh \/ SyncRef
    \/ PostChange \/ ServePost \/ FinishPost \/ LosePost \/ OthersChange
    \/ \E s \in ReadSlots : ServeRead(s) \/ FinishRead(s) \/ LoseRead(s)

ViewSpec == ViewInit /\ [][ViewNext]_viewVars

\* The two-second timer keeps polling, the browser's effects run, and the
\* network does not lose every read.
Live(s) == reads[s].live
ViewFairness ==
    /\ WF_viewVars(Poll) /\ WF_viewVars(SyncRef)
    /\ \A s \in ReadSlots : WF_viewVars(FinishRead(s) \/ LoseRead(s))
    /\ SF_viewVars(\E s \in ReadSlots : Live(s) /\ ServeRead(s))
    /\ SF_viewVars(\E s \in ReadSlots : Live(s) /\ FinishRead(s))

FairViewSpec == ViewSpec /\ ViewFairness

-----------------------------------------------------------------------------
(* What the page promises its user.                                        *)

\* The version a page composes against never goes back, and neither does what
\* it shows fall behind it: no older poll regresses a newer command readback.
NeverComposesBackwards == [][ref' >= ref /\ cache' >= ref]_viewVars

\* A page that is online shows the authority's revision, or at least holds its
\* validator.
CaughtUp == online => cache = syncRevision \/ etag = syncRevision
=============================================================================
