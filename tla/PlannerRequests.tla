--------------------------- MODULE PlannerRequests ---------------------------
(***************************************************************************)
(* The vocabulary of the household planner's mutation contract: what a     *)
(* caller may ask of the planner authority, how a request is identified    *)
(* and what the authority may decide.  Shared by the abstract ledger, the  *)
(* transactional authority and the browser.                                *)
(*                                                                         *)
(* A household state, a command and a request ID are opaque.  The domain   *)
(* reducer enters as the table Effect: Effect[s][c] is the state command c *)
(* produces in s, or NoState where the reducer answers ok: false.          *)
(***************************************************************************)
EXTENDS Integers, Sequences

CONSTANTS
    RequestIds,     \* client-generated request IDs
    MutationKinds,  \* operation kinds that carry a batch of commands, one per ingress
    Commands,       \* household commands
    PreviewOnly,    \* the commands only a preview may carry
    States,         \* canonical household states
    NoState,        \* "the reducer refused" / "no workspace row"
    Effect,         \* the domain reducer
    BaseEligible,   \* per state, the commands the canonical base check lets through
    MaxBatch,       \* operations in one request (16; 256 for an approved week)
    MaxVersion,     \* bound: base versions a request may name are below it
    Asked           \* bound: the requests callers issue

ASSUME RequestsAssumption ==
    /\ NoState \notin States
    /\ PreviewOnly \subseteq Commands
    /\ Effect \in [States -> [Commands -> States \cup {NoState}]]
    /\ BaseEligible \in [States -> SUBSET Commands]
    /\ MaxBatch \in Nat \ {0}
    /\ MaxVersion \in Nat
    /\ {"planner_undo", "workspace_bootstrap"} \cap MutationKinds = {}

-----------------------------------------------------------------------------
Kinds == MutationKinds \cup {"planner_undo", "workspace_bootstrap"}

\* A receipt is identified by the operation kind and the request ID together.
Keys == Kinds \X RequestIds

Batches == UNION {[1..n -> Commands] : n \in 1..MaxBatch}

\* An event is named by its place in the history; 0 names no event.
EventIds == 0..MaxVersion

Mutations  == [kind : MutationKinds, id : RequestIds, base : 0..MaxVersion-1, ops : Batches]
Undos      == [kind : {"planner_undo"}, id : RequestIds, base : 0..MaxVersion-1, target : EventIds]
\* The state a seed or a transformed v2 import would install; NoState when the
\* import cannot be transformed.
Bootstraps == [kind : {"workspace_bootstrap"}, id : RequestIds, install : States \cup {NoState}]

Requests == Mutations \cup Undos \cup Bootstraps

Key(r) == <<r.kind, r.id>>

ASSUME AskedAssumption == Asked \subseteq Requests /\ NoState \notin Requests

-----------------------------------------------------------------------------
Accepted(v)      == [status |-> "accepted", version |-> v]
Conflict(v)      == [status |-> "version_conflict", version |-> v]
DomainRejected   == [status |-> "domain_rejected", version |-> 0]
AlreadyInitialized == [status |-> "ALREADY_INITIALIZED", version |-> 0]

Decisions ==
    [status : {"accepted", "version_conflict", "domain_rejected", "ALREADY_INITIALIZED"},
     version : 0..MaxVersion]

\* A batch is refused before any of it runs when one operation is a preview
\* query or a sourced replacement the base state is not eligible for.
BaseRefused(s, ops) ==
    \E i \in DOMAIN ops : ops[i] \in PreviewOnly \/ ops[i] \notin BaseEligible[s]

\* The first n of ops, run one after the other from before, all succeed and end
\* in after.
Reaches(before, ops, n, after) ==
    \E path \in [0..n -> States] :
        /\ path[0] = before
        /\ path[n] = after
        /\ \A i \in 1..n : path[i] = Effect[path[i-1]][ops[i]]

RunsTo(before, ops, after) == Reaches(before, ops, Len(ops), after)
=============================================================================
