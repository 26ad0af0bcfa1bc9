---------------------------- MODULE PlannerLedger ----------------------------
(***************************************************************************)
(* What the planner authority promises its callers, with no transaction,   *)
(* phase, row or crash in sight: an append-only ledger of the changes that *)
(* took effect, and one verdict per request key, given once and for all.   *)
(* PlannerAuthority is shown to implement it; HouseholdBrowser is composed *)
(* with it.                                                                *)
(***************************************************************************)
EXTENDS PlannerRequests

VARIABLES
    ledger,    \* the changes in effect order: [request, before, after]
    current,   \* the household state, or NoState before bootstrap
    verdicts   \* per key, the request decided under it and its decision

ledgerVars == <<ledger, current, verdicts>>

Undecided == [request |-> NoState, decision |-> NoState]

LedgerInit ==
    /\ ledger = <<>>
    /\ current = NoState
    /\ verdicts = [k \in Keys |-> Undecided]

Version == Len(ledger)

\* A verdict may be given to r now: its key is unused.
Open(r) == verdicts[Key(r)] = Undecided

Rule(r, decision) ==
    verdicts' = [verdicts EXCEPT ![Key(r)] = [request |-> r, decision |-> decision]]

\* r was composed against the current version of a household that is set up.
UpToDate(r) == current # NoState /\ Open(r) /\ r.base = Version

\* r becomes the next change, leading from the current state to after.
Extend(r, after) ==
    /\ ledger' = Append(ledger, [request |-> r, before |-> current, after |-> after])
    /\ current' = after
    /\ Rule(r, Accepted(Version + 1))

\* A batch takes effect whole, on exactly the state its caller saw.
AcceptBatch(r) ==
    /\ r.kind \in MutationKinds /\ UpToDate(r)
    /\ ~BaseRefused(current, r.ops)
    /\ \E after \in States : RunsTo(current, r.ops, after) /\ Extend(r, after)

\* The newest change can be taken back, once.
Newest == ledger[Version]
Revocable(target) ==
    /\ Version > 0 /\ target = Version
    /\ Newest.request.kind # "planner_undo"

AcceptUndo(r) ==
    /\ r.kind = "planner_undo" /\ UpToDate(r)
    /\ Revocable(r.target)
    /\ Extend(r, Newest.before)

\* A stale or impossible change is refused for good, with no effect.
RefuseStale(r) ==
    /\ r.kind # "workspace_bootstrap" /\ current # NoState /\ Open(r)
    /\ r.base # Version
    /\ Rule(r, Conflict(Version))
    /\ UNCHANGED <<ledger, current>>

RefuseBatch(r) ==
    /\ r.kind \in MutationKinds /\ UpToDate(r)
    /\ \/ BaseRefused(current, r.ops)
       \/ \A after \in States : ~RunsTo(current, r.ops, after)
    /\ Rule(r, DomainRejected)
    /\ UNCHANGED <<ledger, current>>

RefuseUndo(r) ==
    /\ r.kind = "planner_undo" /\ UpToDate(r)
    /\ ~Revocable(r.target)
    /\ Rule(r, DomainRejected)
    /\ UNCHANGED <<ledger, current>>

\* The household is set up once.
SetUp(r) ==
    /\ r.kind = "workspace_bootstrap" /\ Open(r)
    /\ current = NoState /\ r.install # NoState
    /\ current' = r.install
    /\ Rule(r, Accepted(0))
    /\ UNCHANGED ledger

RefuseSetUp(r) ==
    /\ r.kind = "workspace_bootstrap" /\ Open(r)
    /\ current # NoState
    /\ Rule(r, AlreadyInitialized)
    /\ UNCHANGED <<ledger, current>>

DecideRequest(r) ==
    \/ AcceptBatch(r) \/ AcceptUndo(r) \/ SetUp(r)
    \/ RefuseStale(r) \/ RefuseBatch(r) \/ RefuseUndo(r) \/ RefuseSetUp(r)

LedgerNext == \E r \in Asked : DecideRequest(r)

LedgerSpec == LedgerInit /\ [][LedgerNext]_ledgerVars
=============================================================================
