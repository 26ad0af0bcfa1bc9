---------------------------- MODULE CodexThreads ----------------------------
(***************************************************************************)
(* Conversations of the household with Codex: the native thread service    *)
(* over its admissions, receipts and selection in SQLite, and the Codex    *)
(* app-server that holds the conversations.                                *)
(*                                                                         *)
(* A native call can time out and still take effect, and the app-server    *)
(* and the planner can stop at any point.  A message or a new conversation *)
(* is therefore admitted durably before its call; what became of an        *)
(* ambiguous call is read from the native history; the receipt and the     *)
(* end of the admission are one transaction.                               *)
(*                                                                         *)
(* All service operations run one at a time under the lock "selection",    *)
(* except the end of listThreads.  One planner runs at a time and adopts   *)
(* the admissions it finds, so that owner identities are left out.         *)
(***************************************************************************)
EXTENDS Integers, Sequences, FiniteSetsExt

CONSTANTS
  Sends,        \* send requests a browser may post: [id, thread, client, base]
  News,         \* new-conversation requests: [id, base]
  MaxThreads,   \* bound: conversations ever created
  Existing,     \* conversations in the native history at the start
  MaxCalls,     \* bound: native mutations ever called
  MaxRevision,  \* bound: selection revisions
  MaxFailures,  \* bound: app-server failures and planner restarts
  MaxReceipts   \* NATIVE_MUTATION_RECEIPT_LIMIT

ASSUME CodexAssumption ==
  /\ {MaxThreads, MaxCalls, MaxRevision, MaxFailures} \subseteq Nat
  /\ Existing \in 0..MaxThreads /\ MaxReceipts \in Nat \ {0}
  /\ \A s \in Sends : s.thread \in 1..MaxThreads /\ \A n \in News : s.id # n.id

VARIABLES
  selection,  \* the selected thread and its revision
  starting,   \* the admission of a new conversation
  admitted,   \* the admission of a message, for each thread
  receipts,   \* the receipts of settled requests, oldest first
  fence,      \* in memory: what became of each request ID
  op,         \* in memory: the operation that holds the lock
  listing,    \* in memory: the selection a listThreads is probing
  status,     \* of each native thread
  maker,      \* the request a native thread was created for
  active,     \* the turn in progress on each native thread
  history,    \* the messages of the native history
  wire,       \* native mutations called and not settled by the app-server
  calls, failures,
  answered    \* what callers were told, for the properties

store == <<selection, starting, admitted, receipts>>
memory == <<fence, op, listing>>
native == <<status, maker, active, history>>
bounds == <<calls, failures>>
vars == <<store, memory, native, wire, bounds, answered>>

Threads == 1..MaxThreads    \* in the order of their creation
NoThread == 0
NoTurn == 0
None == [id |-> "none"]
Idle == [kind |-> "idle"]
Requests == Sends \cup News
Ids == {r.id : r \in Requests}

Receipt == [request : Requests, thread : Threads, turn : 0..MaxCalls]
Message == [thread : Threads, client : {s.client : s \in Sends}, turn : 1..MaxCalls, call : 1..MaxCalls]
Stages == {"start", "turn", "act", "admitted", "called", "accepted", "archived"}

TypeOK ==
  /\ selection \in [thread : 0..MaxThreads, revision : 0..MaxRevision]
  /\ starting \in {None} \cup [request : News, before : SUBSET Threads]
  /\ admitted \in [Threads -> {None} \cup [request : Sends, turn : 0..MaxCalls]]
  /\ receipts \in Seq(Receipt) /\ Len(receipts) <= MaxReceipts
  /\ fence \in [Ids -> {None} \cup
       [request : Requests, status : {"pending", "fulfilled", "rejected", "identity", "retryable"}]]
  /\ op # Idle => op.kind \in {"send", "new", "select", "archive", "read", "list"} /\ op.stage \in Stages
  /\ listing \in {None} \cup [thread : Threads, revision : 0..MaxRevision, missing : BOOLEAN]
  /\ status \in [Threads -> {"absent", "blank", "stranded", "listed", "archived"}]
  /\ maker \in [Threads -> {None} \cup News]
  /\ active \in [Threads -> 0..MaxCalls]
  /\ history \subseteq Message
  /\ wire \subseteq [call : 1..MaxCalls, kind : {"start", "steer", "thread"}, request : Requests,
                     turn : 0..MaxCalls, done : 0..MaxCalls \cup Threads, live : BOOLEAN]
  /\ calls \in 0..MaxCalls /\ failures \in 0..MaxFailures
  /\ answered \subseteq Receipt

Init ==
  /\ selection = [thread |-> NoThread, revision |-> 0]
  /\ starting = None
  /\ admitted = [t \in Threads |-> None]
  /\ receipts = <<>>
  /\ fence = [i \in Ids |-> None]
  /\ op = Idle
  /\ listing = None
  /\ status = [t \in Threads |-> IF t <= Existing THEN "listed" ELSE "absent"]
  /\ maker = [t \in Threads |-> None]
  /\ active = [t \in Threads |-> NoTurn]
  /\ history = {}
  /\ wire = {}
  /\ calls = 0 /\ failures = 0
  /\ answered = {}

-----------------------------------------------------------------------------
(* The fence and the lock. *)

At(stage) == op # Idle /\ op.stage = stage
Goto(stage) == op' = [op EXCEPT !.stage = stage]
Settled(r) == {receipts[i] : i \in {j \in DOMAIN receipts : receipts[j].request = r}}
Remember(r, s) == fence' = [fence EXCEPT ![r.id] = [request |-> r, status |-> s]]

\* #replay runs a request that is new, was refused for its identity, or failed ambiguously.
MayRun(r) ==
  LET entry == fence[r.id] IN
  entry # None => entry.status = "identity" \/ (entry.request = r /\ entry.status = "retryable")

\* The operation ends; the fence keeps how.
End(s) ==
  /\ op' = Idle
  /\ IF op.kind \in {"send", "new"} THEN Remember(op.request, s) ELSE UNCHANGED fence

Answer(r, thread, turn) == answered' = answered \cup {[request |-> r, thread |-> thread, turn |-> turn]}

OtherPayload(r) ==
  \/ \E i \in DOMAIN receipts : receipts[i].request.id = r.id /\ receipts[i].request # r
  \/ \E t \in Threads : admitted[t] # None /\ admitted[t].request.id = r.id /\ admitted[t].request # r
  \/ starting # None /\ starting.request.id = r.id /\ starting.request # r

\* A request that was already settled is answered from its receipt.
ReplayReceipt(r) ==
  /\ op = Idle /\ MayRun(r)
  /\ \E receipt \in Settled(r) : Answer(r, receipt.thread, receipt.turn)
  /\ Remember(r, "fulfilled")
  /\ UNCHANGED <<store, op, listing, native, wire, bounds>>

RefuseReuse(r) ==
  /\ op = Idle /\ MayRun(r) /\ OtherPayload(r)
  /\ Remember(r, "identity")
  /\ UNCHANGED <<store, op, listing, native, wire, bounds, answered>>

Enter(kind, request, thread, stage) ==
  op' = [kind |-> kind, request |-> request, thread |-> thread, stage |-> stage,
         call |-> 0, turn |-> NoTurn, ambiguous |-> FALSE]

Submit(r, kind, thread) ==
  /\ op = Idle /\ MayRun(r) /\ Settled(r) = {} /\ ~OtherPayload(r)
  /\ r.base <= selection.revision
  /\ Enter(kind, r, thread, "start")
  /\ Remember(r, "pending")
  /\ UNCHANGED <<store, listing, native, wire, bounds, answered>>

SubmitSend(r) == Submit(r, "send", r.thread)
SubmitNew(r) == Submit(r, "new", NoThread)

\* selectThread, archiveThread, readThread and listThreads carry fresh request IDs.
Start(kind, thread, stage) ==
  /\ op = Idle
  /\ Enter(kind, [id |-> "fresh", base |-> selection.revision], thread, stage)
  /\ UNCHANGED <<store, fence, listing, native, wire, bounds, answered>>

Select(t) == Start("select", t, "start")
Archive(t) == Start("archive", t, "start")
Read(t) == Start("read", t, "turn")
List == Start("list", NoThread, "start")

\* The fence drops settled entries when it is full.
Evict(i) ==
  /\ fence[i] # None /\ fence[i].status # "pending"
  /\ fence' = [fence EXCEPT ![i] = None]
  /\ UNCHANGED <<store, op, listing, native, wire, bounds, answered>>

-----------------------------------------------------------------------------
(* The native history as the service reads it. *)

\* thread/read of a thread the app-server does not have, or of an archived one.
Missing(t) == status[t] \in {"absent", "stranded", "archived"}
Listed == {t \in Threads : status[t] = "listed"}
Newest(S) == Max(S \cup {NoThread})

\* #findCreatedRootsAfter: what the list holds beyond the cohort of the admission.
Candidates == {t \in Listed : t \notin starting.before /\ t > Newest(starting.before)}

\* clientMessageTurnMapping
Mappings(t, client) ==
  IF status[t] = "listed" THEN {m \in history : m.thread = t /\ m.client = client} ELSE {}

FaultPruneNothing(s) == s
Prune(s) == IF Len(s) > MaxReceipts THEN Tail(s) ELSE s
Settle(r, thread, turn) ==
  receipts' = Prune(Append(receipts, [request |-> r, thread |-> thread, turn |-> turn]))

\* completeThreadStartAdmission: selection, receipt and admission move together.
Publish(t) ==
  /\ selection.revision < MaxRevision
  /\ selection' = [thread |-> t, revision |-> selection.revision + 1]
  /\ Settle(starting.request, t, NoTurn)
  /\ starting' = None

MayPublish == selection.revision = starting.request.base

-----------------------------------------------------------------------------
(* Reconciliation comes first in every operation. *)

StartReconciled == IF op.kind = "list" THEN End("fulfilled") ELSE Goto("turn") /\ UNCHANGED fence

NothingStarting ==
  /\ At("start") /\ starting = None
  /\ StartReconciled
  /\ UNCHANGED <<store, listing, native, wire, bounds, answered>>

\* No new thread in the list: the call is taken to have had no effect.
ClearStart ==
  /\ At("start") /\ starting # None
  /\ \/ Candidates = {}
     \/ Cardinality(Candidates) = 1 /\ ~MayPublish
  /\ starting' = None
  /\ StartReconciled
  /\ UNCHANGED <<selection, admitted, receipts, listing, native, wire, bounds, answered>>

\* One new thread: it is the admitted one.
PublishCandidate ==
  /\ At("start") /\ starting # None
  /\ \E t \in Threads :
       /\ Candidates = {t} /\ MayPublish
       /\ Publish(t)
       /\ IF starting.request = op.request
          THEN End("fulfilled") /\ Answer(op.request, t, NoTurn)
          ELSE StartReconciled /\ UNCHANGED answered
  /\ UNCHANGED <<admitted, listing, native, wire, bounds>>

\* Several: the user has to select one.
AmbiguousStart ==
  /\ At("start") /\ starting # None /\ Cardinality(Candidates) > 1
  /\ IF op.kind = "select"
     THEN op' = [op EXCEPT !.stage = "turn", !.ambiguous = TRUE] /\ UNCHANGED fence
     ELSE IF op.kind = "list" THEN End("fulfilled") ELSE End("retryable")
  /\ UNCHANGED <<store, listing, native, wire, bounds, answered>>

TurnReconciled == IF op.kind = "read" THEN End("fulfilled") ELSE Goto("act") /\ UNCHANGED fence
Pending == IF op.thread = NoThread THEN None ELSE admitted[op.thread]
Clear(t) == admitted' = [admitted EXCEPT ![t] = None]

NothingAdmitted ==
  /\ At("turn") /\ Pending = None
  /\ TurnReconciled
  /\ UNCHANGED <<store, listing, native, wire, bounds, answered>>

FaultExpectTurn(t, admission) ==
  \E m \in history :
    /\ Mappings(t, admission.request.client) = {m} /\ m.turn = admission.turn
    /\ Settle(admission.request, t, m.turn)

\* The history holds the message once, under the turn it was admitted for.
Confirms(t, admission) ==
  \E m \in history :
    /\ Mappings(t, admission.request.client) = {m}
    /\ admission.turn # NoTurn => m.turn = admission.turn
    /\ Settle(admission.request, t, m.turn)

FaultKeepAdmission ==
  /\ At("turn") /\ Pending # None
  /\ Confirms(op.thread, Pending)
  /\ TurnReconciled
  /\ UNCHANGED <<selection, starting, admitted, listing, native, wire, bounds, answered>>

CompleteAdmission ==
  /\ At("turn") /\ Pending # None
  /\ Confirms(op.thread, Pending)
  /\ Clear(op.thread)
  /\ TurnReconciled
  /\ UNCHANGED <<selection, starting, listing, native, wire, bounds, answered>>

\* The thread is gone: so is its admission.
ClearAdmission ==
  /\ At("turn") /\ Pending # None /\ Missing(op.thread)
  /\ Clear(op.thread)
  /\ TurnReconciled
  /\ UNCHANGED <<selection, starting, receipts, listing, native, wire, bounds, answered>>

\* The history lacks the message after the wait, or holds it otherwise than it
\* was admitted: the operation fails and the admission stays.
HistoryDisagrees ==
  /\ At("turn") /\ Pending # None /\ ~Missing(op.thread)
  /\ LET found == Mappings(op.thread, Pending.request.client) IN
       Cardinality(found) = 1 => Pending.turn # NoTurn /\ \E m \in found : m.turn # Pending.turn
  /\ End("retryable")
  /\ UNCHANGED <<store, listing, native, wire, bounds, answered>>

\* A native read fails, or the connection is gone before the call: what the
\* operation has done so far stays as it is.
Unavailable ==
  /\ op # Idle /\ op.stage \in {"start", "turn", "act", "admitted"}
  /\ End("retryable")
  /\ UNCHANGED <<store, listing, native, wire, bounds, answered>>

-----------------------------------------------------------------------------
(* sendTurn *)

\* Reconciliation settled this very request.
AnswerReconciled ==
  /\ At("act") /\ op.kind = "send"
  /\ \E receipt \in Settled(op.request) : Answer(op.request, receipt.thread, receipt.turn)
  /\ End("fulfilled")
  /\ UNCHANGED <<store, listing, native, wire, bounds>>

Unsettled == op.kind = "send" /\ Settled(op.request) = {}
Selected == selection = [thread |-> op.thread, revision |-> op.request.base]

RefuseSend ==
  /\ At("act") /\ Unsettled
  /\ ~Selected \/ Missing(op.thread) \/ active[op.thread] # NoTurn  \* waitingOnUserInput
  /\ End("rejected")
  /\ UNCHANGED <<store, listing, native, wire, bounds, answered>>

RefuseKnownMessage ==
  /\ At("act") /\ Unsettled /\ Selected
  /\ Mappings(op.thread, op.request.client) # {}
  /\ End("identity")
  /\ UNCHANGED <<store, listing, native, wire, bounds, answered>>

FaultTrustReceipts == TRUE
NotYetKnown == Mappings(op.thread, op.request.client) = {}

\* beginTurnAdmission: steer the turn in progress, or start one.
Admit ==
  /\ At("act") /\ Unsettled /\ Selected /\ ~Missing(op.thread) /\ NotYetKnown
  /\ admitted' = [admitted EXCEPT ![op.thread] =
       [request |-> op.request, turn |-> active[op.thread]]]
  /\ Goto("admitted")
  /\ UNCHANGED <<selection, starting, receipts, fence, listing, native, wire, bounds, answered>>

Call(kind, turn) ==
  /\ calls < MaxCalls
  /\ calls' = calls + 1
  /\ wire' = wire \cup {[call |-> calls + 1, kind |-> kind, request |-> op.request,
                         turn |-> turn, done |-> 0, live |-> TRUE]}
  /\ op' = [op EXCEPT !.stage = "called", !.call = calls + 1]
  /\ UNCHANGED <<store, fence, listing, native, failures, answered>>

CallTurn ==
  /\ At("admitted") /\ op.kind = "send"
  /\ Call(IF Pending.turn = NoTurn THEN "start" ELSE "steer", Pending.turn)

Mine(e) == op # Idle /\ e.live /\ e.call = op.call

\* The answer names the turn; the app-server may have written the message already.
ReceiveTurn ==
  /\ At("called") /\ op.kind = "send"
  /\ \E turn \in 1..MaxCalls :
       /\ \/ \E e \in wire : Mine(e) /\ e.done = turn
          \/ \E m \in history : m.call = op.call /\ m.turn = turn
       /\ op' = [op EXCEPT !.stage = "accepted", !.turn = turn]
  /\ UNCHANGED <<store, fence, listing, native, wire, bounds, answered>>

FaultAnswerAtOnce ==
  /\ At("accepted") /\ op.kind = "send"
  /\ Settle(op.request, op.thread, op.turn)
  /\ Clear(op.thread)
  /\ Answer(op.request, op.thread, op.turn)
  /\ End("fulfilled")
  /\ UNCHANGED <<selection, starting, listing, native, wire, bounds>>

\* The message completed and the history holds it under the turn of the answer.
ConfirmTurn ==
  /\ At("accepted") /\ op.kind = "send"
  /\ \E m \in history : Mappings(op.thread, op.request.client) = {m} /\ m.turn = op.turn
  /\ Settle(op.request, op.thread, op.turn)
  /\ Clear(op.thread)
  /\ Answer(op.request, op.thread, op.turn)
  /\ End("fulfilled")
  /\ UNCHANGED <<selection, starting, listing, native, wire, bounds>>

FaultClearOnTimeout ==
  /\ At("accepted")
  /\ Clear(op.thread) /\ End("retryable")
  /\ UNCHANGED <<selection, starting, receipts, listing, native, wire, bounds, answered>>

\* A wait ends, the app-server restarts or the history disagrees; a read may
\* also find that the thread is gone, which the fence keeps.
GiveUp ==
  /\ At("accepted")
  /\ \E s \in {"retryable", "rejected"} : (s = "rejected" => Missing(op.thread)) /\ End(s)
  /\ UNCHANGED <<store, listing, native, wire, bounds, answered>>

-----------------------------------------------------------------------------
(* newThread *)

RefuseNew ==
  /\ At("act") /\ op.kind = "new" /\ selection.revision # op.request.base
  /\ End("rejected")
  /\ UNCHANGED <<store, listing, native, wire, bounds, answered>>

AdmitNew ==
  /\ At("act") /\ op.kind = "new" /\ selection.revision = op.request.base
  /\ starting' = [request |-> op.request, before |-> Listed]
  /\ Goto("admitted")
  /\ UNCHANGED <<selection, admitted, receipts, fence, listing, native, wire, bounds, answered>>

CallNew == At("admitted") /\ op.kind = "new" /\ Call("thread", NoTurn)

ReceiveThread ==
  /\ At("called") /\ op.kind = "new"
  /\ \E e \in wire :
       /\ Mine(e) /\ e.done # 0
       /\ wire' = wire \ {e}
       /\ IF MayPublish
          THEN Publish(e.done) /\ Answer(op.request, e.done, NoTurn) /\ End("fulfilled")
          ELSE starting' = None /\ End("rejected") /\ UNCHANGED <<selection, receipts, answered>>
  /\ UNCHANGED <<admitted, listing, native, bounds>>

-----------------------------------------------------------------------------
(* selectThread, archiveThread and the end of listThreads move the selection. *)

Point(revision, t) ==
  /\ selection.revision = revision /\ revision < MaxRevision
  /\ selection' = [thread |-> t, revision |-> revision + 1]

SetSelection ==
  /\ At("act") /\ op.kind = "select"
  /\ op.thread # NoThread => ~Missing(op.thread)
  /\ Point(op.request.base, op.thread)
  /\ starting' = IF op.ambiguous THEN None ELSE starting
  /\ End("fulfilled")
  /\ UNCHANGED <<admitted, receipts, listing, native, wire, bounds, answered>>

CallArchive ==
  /\ At("act") /\ op.kind = "archive" /\ selection.revision = op.request.base
  /\ ~Missing(op.thread)
  /\ status' = [status EXCEPT ![op.thread] = "archived"]
  /\ active' = [active EXCEPT ![op.thread] = NoTurn]
  /\ Goto("archived")
  /\ UNCHANGED <<store, fence, listing, maker, history, wire, bounds, answered>>

DeselectArchived ==
  /\ At("archived")
  /\ Point(op.request.base, IF selection.thread = op.thread THEN NoThread ELSE selection.thread)
  /\ End("fulfilled")
  /\ UNCHANGED <<starting, admitted, receipts, listing, native, wire, bounds, answered>>

\* A stale revision, a missing thread, or a call whose answer is lost.
RefuseMove ==
  /\ At("act") \/ At("archived")
  /\ op.kind \in {"select", "archive"}
  /\ \/ At("archived")
     \/ selection.revision # op.request.base
     \/ op.thread # NoThread /\ Missing(op.thread)
  /\ End("rejected")
  /\ UNCHANGED <<store, listing, native, wire, bounds, answered>>

\* #ensureDefaultSelection
SelectDefault ==
  /\ op = Idle /\ selection = [thread |-> NoThread, revision |-> 0]
  /\ \E t \in Listed : Point(0, t)
  /\ UNCHANGED <<starting, admitted, receipts, memory, native, wire, bounds, answered>>

\* listThreads does not find the selected thread in the list, and probes it.
ListMisses ==
  /\ listing = None /\ selection.thread # NoThread /\ status[selection.thread] # "listed"
  /\ listing' = [thread |-> selection.thread, revision |-> selection.revision, missing |-> FALSE]
  /\ UNCHANGED <<store, fence, op, native, wire, bounds, answered>>

ProbeSelected ==
  /\ listing # None /\ ~listing.missing
  /\ listing' = IF Missing(listing.thread) THEN [listing EXCEPT !.missing = TRUE] ELSE None
  /\ UNCHANGED <<store, fence, op, native, wire, bounds, answered>>

FaultClearUnseen ==
  /\ listing # None /\ listing.missing
  /\ selection' = [selection EXCEPT !.thread = NoThread]
  /\ listing' = None
  /\ UNCHANGED <<starting, admitted, receipts, fence, op, native, wire, bounds, answered>>

ClearMissingSelection ==
  /\ listing # None /\ listing.missing
  /\ IF selection.revision = listing.revision
     THEN Point(listing.revision, NoThread)
     ELSE UNCHANGED selection
  /\ listing' = None
  /\ UNCHANGED <<starting, admitted, receipts, fence, op, native, wire, bounds, answered>>

-----------------------------------------------------------------------------
(* The app-server: external. *)

Replace(e, f) == wire' = (wire \ {e}) \cup {f}

\* A turn is started, or the turn in progress takes the message.
AcceptTurn(e) ==
  /\ e.live /\ e.kind \in {"start", "steer"} /\ e.done = 0 /\ ~Missing(e.request.thread)
  /\ IF e.kind = "start"
     THEN /\ active[e.request.thread] = NoTurn
          /\ active' = [active EXCEPT ![e.request.thread] = e.call]
          /\ Replace(e, [e EXCEPT !.done = e.call])
     ELSE /\ active[e.request.thread] = e.turn
          /\ Replace(e, [e EXCEPT !.done = e.turn])
          /\ UNCHANGED active
  /\ UNCHANGED <<store, memory, status, maker, history, bounds, answered>>

Write(e, turn) ==
  /\ history' = history \cup
       {[thread |-> e.request.thread, client |-> e.request.client, turn |-> turn, call |-> e.call]}
  /\ status' = [status EXCEPT ![e.request.thread] = IF @ = "archived" THEN @ ELSE "listed"]
  /\ wire' = wire \ {e}
  /\ UNCHANGED <<store, memory, maker, active, bounds, answered>>

\* The history is written after the answer, and the first message of a blank
\* thread is what makes the thread durable.
WriteMessage(e) == e.live /\ e.kind # "thread" /\ e.done # 0 /\ Write(e, e.done)

\* A failed app-server may still get as far as writing the message.
WriteLate(e) ==
  /\ ~e.live /\ e.kind # "thread"
  /\ Write(e, IF e.kind = "start" THEN e.call ELSE e.turn)

EndTurn(t) ==
  /\ active[t] # NoTurn
  /\ active' = [active EXCEPT ![t] = NoTurn]
  /\ UNCHANGED <<store, memory, status, maker, history, wire, bounds, answered>>

\* A new thread may be in the list at once, or stay in the app-server's memory.
Created == {t \in Threads : status[t] # "absent"}
CreateThread(e) ==
  /\ e.kind = "thread" /\ e.done = 0 /\ Cardinality(Created) < MaxThreads
  /\ LET t == Cardinality(Created) + 1 IN
       /\ \E s \in {"listed", IF e.live THEN "blank" ELSE "stranded"} :
            status' = [status EXCEPT ![t] = s]
       /\ maker' = [maker EXCEPT ![t] = e.request]
       /\ IF e.live THEN Replace(e, [e EXCEPT !.done = t]) ELSE wire' = wire \ {e}
  /\ UNCHANGED <<store, memory, active, history, bounds, answered>>

\* A turn that has ended is not steered, and a thread that is gone takes no
\* message: nothing happened, and the service knows.
RefuseTurn ==
  /\ At("called") /\ op.kind = "send"
  /\ \E e \in wire :
       /\ Mine(e) /\ e.done = 0
       /\ Missing(op.thread) \/ (e.kind = "steer" /\ active[op.thread] # e.turn)
       /\ wire' = wire \ {e}
  /\ Clear(op.thread)
  /\ End("rejected")
  /\ UNCHANGED <<selection, starting, receipts, listing, native, bounds, answered>>

\* Any other error answer is ambiguous to the service, which keeps the admission.
RefuseCall ==
  /\ At("called")
  /\ \E e \in wire : Mine(e) /\ e.done = 0 /\ wire' = wire \ {e}
  /\ End("retryable")
  /\ UNCHANGED <<store, listing, native, bounds, answered>>

\* What a failing app-server leaves: calls that may still take effect, threads
\* only it knew, and no turn in progress.
Orphans ==
  /\ wire' = {[e EXCEPT !.live = FALSE] : e \in {f \in wire : f.kind = "thread" => f.done = 0}}
  /\ status' = [t \in Threads |-> IF status[t] = "blank" THEN "stranded" ELSE status[t]]
  /\ active' = [t \in Threads |-> NoTurn]

\* A call times out, or the app-server fails by itself.
AppServerFails ==
  /\ failures < MaxFailures /\ failures' = failures + 1
  /\ Orphans
  /\ IF At("called") THEN End("retryable") ELSE UNCHANGED <<fence, op>>
  /\ UNCHANGED <<store, listing, maker, history, calls, answered>>

\* The planner stops, and a new one adopts the admissions.
Restart ==
  /\ failures < MaxFailures /\ failures' = failures + 1
  /\ Orphans
  /\ op' = Idle /\ listing' = None
  /\ fence' = [i \in Ids |-> None]
  /\ UNCHANGED <<store, maker, history, calls, answered>>

\* A failed app-server stops before it does what it was asked.
Vanish(e) ==
  /\ ~e.live
  /\ wire' = wire \ {e}
  /\ UNCHANGED <<store, memory, native, bounds, answered>>

-----------------------------------------------------------------------------

Reconcile ==
  \/ NothingStarting \/ ClearStart \/ PublishCandidate \/ AmbiguousStart
  \/ NothingAdmitted \/ CompleteAdmission \/ ClearAdmission \/ HistoryDisagrees

Next ==
  \/ \E r \in Requests : ReplayReceipt(r) \/ RefuseReuse(r)
  \/ \E r \in Sends : SubmitSend(r)
  \/ \E r \in News : SubmitNew(r)
  \/ \E t \in Threads : Select(t) \/ Archive(t) \/ Read(t) \/ EndTurn(t)
  \/ Select(NoThread) \/ List
  \/ \E i \in Ids : Evict(i)
  \/ Reconcile \/ Unavailable
  \/ AnswerReconciled \/ RefuseSend \/ RefuseKnownMessage \/ Admit \/ CallTurn
  \/ ReceiveTurn \/ ConfirmTurn \/ GiveUp
  \/ RefuseNew \/ AdmitNew \/ CallNew \/ ReceiveThread
  \/ SetSelection \/ CallArchive \/ DeselectArchived \/ RefuseMove
  \/ SelectDefault \/ ListMisses \/ ProbeSelected \/ ClearMissingSelection
  \/ \E e \in wire : AcceptTurn(e) \/ WriteMessage(e) \/ WriteLate(e) \/ CreateThread(e) \/ Vanish(e)
  \/ RefuseTurn \/ RefuseCall
  \/ AppServerFails \/ Restart

Spec == Init /\ [][Next]_vars

\* What an operation that holds the lock does next.
Proceed ==
  \/ Reconcile \/ Unavailable
  \/ AnswerReconciled \/ RefuseSend \/ RefuseKnownMessage \/ Admit \/ CallTurn
  \/ ReceiveTurn \/ ConfirmTurn \/ GiveUp \/ RefuseTurn \/ RefuseCall
  \/ RefuseNew \/ AdmitNew \/ CallNew \/ ReceiveThread
  \/ SetSelection \/ CallArchive \/ DeselectArchived \/ RefuseMove

\* The operation that holds the lock goes on (every native call has a timeout);
\* a page that keeps reading its conversation, or sending its message, gets the
\* lock (its queue is first in, first out) and not a failed read every time.
Fairness ==
  /\ WF_vars(Proceed)
  /\ \A t \in Threads : SF_vars(Read(t))
  /\ \A r \in Sends : SF_vars(SubmitSend(r))
  /\ SF_vars(CompleteAdmission) /\ SF_vars(HistoryDisagrees)

FairSpec == Spec /\ Fairness

-----------------------------------------------------------------------------
(* Properties. *)

\* A message of the user is written to the native history at most once, however
\* often it is sent, refused, lost or reconciled (sendTurn, #reconcileTurnAdmission).
LandsOnce ==
  \A m, n \in history : m.thread = n.thread /\ m.client = n.client => m = n

\* A caller is told of a turn that holds its message in the history
\* (#waitForCompletedClientMessage, #confirmAdmittedTurnHistory).
AnswersTruthful ==
  \A a \in answered : a.request \in Sends =>
    \E m \in history : m.thread = a.thread /\ m.client = a.request.client /\ m.turn = a.turn

\* A settled request has no admission: the receipt and the end of the admission
\* are one transaction (completeTurnAdmission, completeThreadStartAdmission).
SettledOnce ==
  \A i \in DOMAIN receipts :
    /\ starting # None => starting.request # receipts[i].request
    /\ \A t \in Threads : admitted[t] # None => admitted[t].request # receipts[i].request

\* While the app-server works on a message, the thread is fenced by its admission.
MessagesFenced ==
  \A e \in wire :
    e.live /\ e.kind # "thread" /\ ~Missing(e.request.thread)
      => admitted[e.request.thread] # None /\ admitted[e.request.thread].request = e.request

\* A list that found the selected conversation missing never drops another one
\* that was selected meanwhile (listThreads is outside the lock).
ListSparesSelected ==
  [][op' = op /\ selection.thread # NoThread /\ selection'.thread = NoThread
       => selection.thread = listing.thread]_vars

\* A message that the history holds as it was admitted does not keep its thread
\* fenced: it is settled and the thread is free (#reconcileTurnAdmission).
Landed(t) ==
  /\ admitted[t] # None /\ ~Missing(t)
  /\ \E m \in history :
       /\ Mappings(t, admitted[t].request.client) = {m}
       /\ admitted[t].turn # NoTurn => m.turn = admitted[t].turn
LandedSettles == \A t \in Threads : []<>~Landed(t)

\* A message that the history does not hold, and that nobody is working on any
\* more, does not keep its thread fenced for good: it may be sent again.
Absent(t) ==
  /\ admitted[t] # None /\ ~Missing(t) /\ Mappings(t, admitted[t].request.client) = {}
  /\ \A e \in wire : e.request # admitted[t].request
AbsentIsFreed == \A t \in Threads : []<>~Absent(t)

=============================================================================
