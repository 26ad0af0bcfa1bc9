-------------------------- MODULE PlannerAuthority --------------------------
(***************************************************************************)
(* The planner application service over its SQLite store                   *)
(* (server/application/planner-service.ts, server/store/sqlite-store.ts).  *)
(*                                                                         *)
(* db is what the file holds.  A mutation runs in one BEGIN IMMEDIATE      *)
(* transaction: txn is the writer's private copy of the file and how far   *)
(* it has come.  There is one writer at a time, whichever process it is    *)
(* in; a second BEGIN IMMEDIATE is refused as UNAVAILABLE and leaves no    *)
(* trace, so it is not an action.  Between any two statements the process  *)
(* may die or a statement may throw: both roll the copy back.              *)
(*                                                                         *)
(* The callers (browsers, the Codex effect host, the global ingress) and   *)
(* the network between are free: any request may arrive at any time, any   *)
(* number of times, and any answer may be lost.                            *)
(***************************************************************************)
EXTENDS PlannerRequests

VARIABLES
    db,       \* committed: [workspace, events, receipts]
    txn,      \* the open write transaction, or NoTxn
    answers   \* the decisions callers may have learnt

vars == <<db, txn, answers>>

-----------------------------------------------------------------------------
NoWorkspace == [state |-> NoState, version |-> 0, revision |-> 0]

Workspaces ==
    [state : States, version : 0..MaxVersion, revision : Nat] \cup {NoWorkspace}

\* One row of planner_events; reverts is the event an undo took back, or 0.
Events ==
    [request : Mutations \cup Undos, base : Nat, result : Nat,
     before : States, reverts : EventIds]

Receipts == [request : Requests, decision : Decisions]
NoReceipt == [request |-> NoState, decision |-> NoState]

Databases ==
    [workspace : Workspaces, events : Seq(Events), receipts : [Keys -> Receipts \cup {NoReceipt}]]

Initialized(d) == d.workspace # NoWorkspace

Phases == {"receipt_lookup", "read", "execute", "event", "receipt", "commit"}

NoDecision == [status |-> "none", version |-> 0]
NoTxn == [phase |-> "none"]

Transactions ==
    [phase : Phases, request : Asked, work : Databases,
     next : Nat,                             \* the operation to execute next
     candidate : States \cup {NoState},      \* the state built so far
     decision : Decisions \cup {NoDecision}]

TypeOK ==
    /\ db \in Databases
    /\ txn \in Transactions \cup {NoTxn}
    /\ answers \subseteq [request : Requests, decision : Decisions]

Init ==
    /\ db = [workspace |-> NoWorkspace, events |-> <<>>, receipts |-> [k \in Keys |-> NoReceipt]]
    /\ txn = NoTxn
    /\ answers = {}

-----------------------------------------------------------------------------
(* Statements common to every operation.                                   *)

At(phase) == txn.phase = phase

\* The receipt stored for the request the transaction serves.
Stored == txn.work.receipts[Key(txn.request)]

Latest == txn.work.events[Len(txn.work.events)]

\* store.transaction: BEGIN IMMEDIATE for one delivered request.
Begin(r) ==
    /\ txn = NoTxn
    /\ txn' = [phase |-> "receipt_lookup", request |-> r, work |-> db,
               next |-> 1, candidate |-> NoState, decision |-> NoDecision]
    /\ UNCHANGED <<db, answers>>

\* Fault: a receipt answers for its ID whatever payload arrives under it.
FaultReplayAnyPayload ==
    /\ At("receipt_lookup")
    /\ Stored # NoReceipt
    /\ txn' = [txn EXCEPT !.phase = "commit", !.decision = Stored.decision]
    /\ UNCHANGED <<db, answers>>

\* findReceipt finds the same payload: the stored decision is the answer, and
\* nothing is written.
ReplayReceipt ==
    /\ At("receipt_lookup")
    /\ Stored.request = txn.request
    /\ txn' = [txn EXCEPT !.phase = "commit", !.decision = Stored.decision]
    /\ UNCHANGED <<db, answers>>

\* Fault: the receipt table is not consulted.
FaultSkipLookup ==
    /\ At("receipt_lookup")
    /\ txn' = [txn EXCEPT !.phase = "read"]
    /\ UNCHANGED <<db, answers>>

\* No receipt: go on to read the workspace.
MissReceipt ==
    /\ At("receipt_lookup")
    /\ Stored = NoReceipt
    /\ txn' = [txn EXCEPT !.phase = "read"]
    /\ UNCHANGED <<db, answers>>

\* A thrown PlannerServiceError rolls back and decides nothing: the request ID
\* was used with another payload, there is no workspace to change, or the
\* import cannot be transformed.
Throw ==
    /\ \/ At("receipt_lookup") /\ Stored # NoReceipt /\ Stored.request # txn.request
       \/ At("read") /\ txn.request.kind # "workspace_bootstrap" /\ ~Initialized(txn.work)
       \/ /\ At("read") /\ txn.request.kind = "workspace_bootstrap"
          /\ ~Initialized(txn.work) /\ txn.request.install = NoState
    /\ txn' = NoTxn
    /\ UNCHANGED <<db, answers>>

\* Fault: the statements run outside a transaction, so a crash keeps them.
FaultAutocommit ==
    /\ txn # NoTxn
    /\ db' = txn.work
    /\ txn' = NoTxn
    /\ UNCHANGED answers

\* A failpoint, a failing statement or the death of the process.
Rollback ==
    /\ txn # NoTxn
    /\ txn' = NoTxn
    /\ UNCHANGED <<db, answers>>

Decide(decision) ==
    /\ txn' = [txn EXCEPT !.phase = "receipt", !.decision = decision]
    /\ UNCHANGED <<db, answers>>

\* The base version the caller composed against is no longer current.
VersionConflict ==
    /\ At("read") /\ txn.request.kind # "workspace_bootstrap" /\ Initialized(txn.work)
    /\ txn.request.base # txn.work.workspace.version
    /\ Decide(Conflict(txn.work.workspace.version))

\* updateWorkspace: compare and swap on the version the transaction read.
UpdateWorkspace(state) ==
    txn' = [txn EXCEPT
              !.phase = "event",
              !.candidate = txn.work.workspace.state,
              !.work.workspace = [state |-> state, version |-> @.version + 1,
                                  revision |-> @.revision + 1]]

\* Fault: the undo basis is read back after the update.
FaultBasisAfterUpdate ==
    /\ At("event")
    /\ LET reverted == IF txn.request.kind = "planner_undo" THEN txn.request.target ELSE 0
           event == [request |-> txn.request, base |-> txn.request.base,
                     result |-> txn.work.workspace.version,
                     before |-> txn.work.workspace.state, reverts |-> reverted]
       IN txn' = [txn EXCEPT !.phase = "receipt",
                             !.work.events = Append(@, event),
                             !.decision = Accepted(txn.work.workspace.version)]
    /\ UNCHANGED <<db, answers>>

\* insertPlannerEvent: candidate holds the state the event is the undo basis of.
InsertEvent ==
    /\ At("event")
    /\ LET reverted == IF txn.request.kind = "planner_undo" THEN txn.request.target ELSE 0
           event == [request |-> txn.request, base |-> txn.request.base,
                     result |-> txn.work.workspace.version,
                     before |-> txn.candidate, reverts |-> reverted]
       IN txn' = [txn EXCEPT !.phase = "receipt",
                             !.work.events = Append(@, event),
                             !.decision = Accepted(txn.work.workspace.version)]
    /\ UNCHANGED <<db, answers>>

\* insertReceipt: every decision reserves its request ID, rejections included.
InsertReceipt ==
    /\ At("receipt")
    /\ txn' = [txn EXCEPT
                 !.phase = "commit",
                 !.work.receipts[Key(txn.request)] =
                     [request |-> txn.request, decision |-> txn.decision]]
    /\ UNCHANGED <<db, answers>>

\* COMMIT, after which the decision may be told.  One that is lost on the way
\* still counts as told: no caller knows less than answers says.
Commit ==
    /\ At("commit")
    /\ db' = txn.work
    /\ txn' = NoTxn
    /\ answers' = answers \cup {[request |-> txn.request, decision |-> txn.decision]}

-----------------------------------------------------------------------------
(* applyPlannerOperations: an ordered batch, all of it or none.            *)

\* Fault: a batch is applied to whatever version is current.
FaultNoVersionCheck(phase) ==
    At(phase) /\ txn.request.kind \in MutationKinds /\ Initialized(txn.work)

CurrentMutation(phase) ==
    /\ At(phase) /\ txn.request.kind \in MutationKinds /\ Initialized(txn.work)
    /\ txn.request.base = txn.work.workspace.version

\* A canonical-base failure or a preview-only command refuses the whole batch.
RejectBase ==
    /\ CurrentMutation("read")
    /\ BaseRefused(txn.work.workspace.state, txn.request.ops)
    /\ Decide(DomainRejected)

StartBatch ==
    /\ CurrentMutation("read")
    /\ ~BaseRefused(txn.work.workspace.state, txn.request.ops)
    /\ txn' = [txn EXCEPT !.phase = "execute", !.candidate = txn.work.workspace.state]
    /\ UNCHANGED <<db, answers>>

\* domain.execute for the next operation, against the candidate so far.
Outcome == Effect[txn.candidate][txn.request.ops[txn.next]]

\* Fault: the outcome is taken for a state without looking at ok.
FaultIgnoreOutcome ==
    /\ At("execute") /\ txn.next <= Len(txn.request.ops)
    /\ txn' = [txn EXCEPT !.next = Len(txn.request.ops) + 1, !.candidate = Outcome]
    /\ UNCHANGED <<db, answers>>

ExecuteOperation ==
    /\ At("execute") /\ txn.next <= Len(txn.request.ops)
    /\ Outcome # NoState
    /\ txn' = [txn EXCEPT !.next = @ + 1, !.candidate = Outcome]
    /\ UNCHANGED <<db, answers>>

\* Fault: the operations before the refused one are published.
FaultPublishPrefix ==
    /\ At("execute") /\ txn.next <= Len(txn.request.ops)
    /\ Outcome = NoState
    /\ UpdateWorkspace(txn.candidate)
    /\ UNCHANGED <<db, answers>>

RejectOperation ==
    /\ At("execute") /\ txn.next <= Len(txn.request.ops)
    /\ Outcome = NoState
    /\ Decide(DomainRejected)

\* Every operation produced an outcome: publish the candidate.
UpdateWithBatch ==
    /\ At("execute") /\ txn.next > Len(txn.request.ops)
    /\ UpdateWorkspace(txn.candidate)
    /\ UNCHANGED <<db, answers>>

-----------------------------------------------------------------------------
(* undoLatest: take back the newest change, and only that one.             *)

IsUndo(event) == event.request.kind = "planner_undo"

HasRevert(target) ==
    \E i \in DOMAIN txn.work.events : txn.work.events[i].reverts = target

\* Fault: an undo may itself be undone.
FaultUndoAnything(target) ==
    /\ txn.work.events # <<>>
    /\ target = Len(txn.work.events)
    /\ Latest.result = txn.work.workspace.version

Undoable(target) ==
    /\ txn.work.events # <<>>
    /\ target = Len(txn.work.events)
    /\ ~IsUndo(Latest)
    /\ Latest.result = txn.work.workspace.version
    /\ ~HasRevert(target)

CurrentUndo ==
    /\ At("read") /\ txn.request.kind = "planner_undo" /\ Initialized(txn.work)
    /\ txn.request.base = txn.work.workspace.version

RejectUndo ==
    /\ CurrentUndo
    /\ ~Undoable(txn.request.target)
    /\ Decide(DomainRejected)

UpdateWithUndo ==
    /\ CurrentUndo
    /\ Undoable(txn.request.target)
    /\ UpdateWorkspace(Latest.before)
    /\ UNCHANGED <<db, answers>>

-----------------------------------------------------------------------------
(* bootstrap: the one transition from no workspace to a workspace.         *)

CurrentBootstrap == At("read") /\ txn.request.kind = "workspace_bootstrap"

RejectBootstrap ==
    /\ CurrentBootstrap
    /\ Initialized(txn.work)
    /\ Decide(AlreadyInitialized)

\* Fault: a household that is set up already is set up again.
FaultSetUpAgain ==
    /\ CurrentBootstrap
    /\ txn.request.install # NoState
    /\ txn' = [txn EXCEPT
                 !.phase = "receipt",
                 !.decision = Accepted(0),
                 !.work.workspace = [state |-> txn.request.install, version |-> 0, revision |-> 1]]
    /\ UNCHANGED <<db, answers>>

InsertWorkspace ==
    /\ CurrentBootstrap
    /\ ~Initialized(txn.work)
    /\ txn.request.install # NoState
    /\ txn' = [txn EXCEPT
                 !.phase = "receipt",
                 !.decision = Accepted(0),
                 !.work.workspace = [state |-> txn.request.install, version |-> 0, revision |-> 1]]
    /\ UNCHANGED <<db, answers>>

-----------------------------------------------------------------------------
Next ==
    \/ \E r \in Asked : Begin(r)
    \/ ReplayReceipt \/ MissReceipt \/ Throw \/ Rollback
    \/ VersionConflict \/ InsertEvent \/ InsertReceipt \/ Commit
    \/ RejectBase \/ StartBatch \/ ExecuteOperation \/ RejectOperation \/ UpdateWithBatch
    \/ RejectUndo \/ UpdateWithUndo
    \/ RejectBootstrap \/ InsertWorkspace

Spec == Init /\ [][Next]_vars

-----------------------------------------------------------------------------
(* What the authority promises.                                            *)

\* The state the household is in at version v.
StateAt(d, v) == IF v = Len(d.events) THEN d.workspace.state ELSE d.events[v+1].before

\* Events are consecutive: the i-th takes version i-1 to version i, and the
\* workspace stands at the version of the newest one.
Contiguous(d) ==
    /\ d.workspace.version = Len(d.events)
    /\ \A i \in DOMAIN d.events : d.events[i].base = i - 1 /\ d.events[i].result = i
    /\ d.events # <<>> => Initialized(d)

\* Optimistic concurrency: every accepted change was composed against the
\* version it replaced, so of two callers who saw the same version one at most
\* got through.
VersionsContiguous == Contiguous(db)

\* A batch that took effect ran whole, from the state it replaced to the state
\* the next change started from.
RanWhole(d) ==
    \A i \in DOMAIN d.events : ~IsUndo(d.events[i]) =>
        LET ops == d.events[i].request.ops
        IN /\ RunsTo(d.events[i].before, ops, StateAt(d, i))
           /\ ~BaseRefused(d.events[i].before, ops)

\* The history explains the state: no prefix of a refused batch and nothing
\* that was later overwritten survives, whatever failed in between.
BatchesRanWhole == RanWhole(db)

TakesBackTheNewest(d) ==
    \A i \in DOMAIN d.events : IsUndo(d.events[i]) =>
        /\ i > 1
        /\ d.events[i].reverts = i - 1
        /\ ~IsUndo(d.events[i-1])
        /\ StateAt(d, i) = d.events[i-1].before

\* An undo took back the change right before it, which was no undo itself, and
\* brought back exactly the state that change had replaced, so nothing accepted
\* in between is lost with it.
UndoRestores == TakesBackTheNewest(db)

ReceiptOf(d, i) == [request |-> d.events[i].request, decision |-> Accepted(i)]

EffectsHaveReceipts(d) ==
    \A i \in DOMAIN d.events : d.receipts[Key(d.events[i].request)] = ReceiptOf(d, i)

ReceiptsHaveEffects(d) ==
    \A k \in Keys :
        /\ k[1] # "workspace_bootstrap"
        /\ d.receipts[k] # NoReceipt
        /\ d.receipts[k].decision.status = "accepted"
        => \E i \in DOMAIN d.events : d.receipts[k] = ReceiptOf(d, i)

\* A receipt says "accepted at version v" exactly when event v is that very
\* request's: a crash never leaves one without the other, and no request,
\* however often it is delivered, takes effect twice.
EffectMatchesReceipt == EffectsHaveReceipts(db) /\ ReceiptsHaveEffects(db)

Births(d) ==
    {k \in Keys : /\ k[1] = "workspace_bootstrap"
                  /\ d.receipts[k] # NoReceipt
                  /\ d.receipts[k].decision.status = "accepted"}

\* The workspace is born once: it exists exactly when one bootstrap request
\* holds the accepted receipt, and no second one ever does.
BornOnce ==
    /\ Initialized(db) <=> Births(db) # {}
    /\ \A j, k \in Births(db) : j = k

\* No answer runs ahead of the file or disagrees with it: what any caller was
\* ever told is the stored decision of that request, so two deliveries of one
\* request are told the same.
AnswersStored ==
    \A answer \in answers : db.receipts[Key(answer.request)] = answer

\* e continues d: a version of d names the same household state in e, and no
\* stored decision of d is rewritten or dropped.
Continues(d, e) ==
    /\ Initialized(d) =>
          /\ Len(e.events) >= Len(d.events)
          /\ \A v \in 0..Len(d.events) : StateAt(e, v) = StateAt(d, v)
    /\ \A k \in Keys : d.receipts[k] # NoReceipt => e.receipts[k] = d.receipts[k]

\* A caller who read version v, and a caller who was told a decision, can rely
\* on both for good.
HistoryImmutable == [][Continues(db, db')]_vars

-----------------------------------------------------------------------------
(* The committed file implements the ledger: what the open transaction has *)
(* written is invisible until COMMIT, and COMMIT is one ledger step.       *)

Ledger == INSTANCE PlannerLedger WITH
    ledger <- [i \in DOMAIN db.events |->
                 [request |-> db.events[i].request, before |-> db.events[i].before,
                  after |-> StateAt(db, i)]],
    current <- db.workspace.state,
    verdicts <- db.receipts

\* Seen from outside, every behaviour of the service, with its replays, crashes
\* and half-done transactions, is one of the ledger's: each request is decided
\* at most once, in one indivisible step, against the current version.
ImplementsLedger == Ledger!LedgerSpec
=============================================================================
