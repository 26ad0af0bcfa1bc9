---------------------------- MODULE NativeSession ----------------------------
(***************************************************************************)
(* The planner's connection to the Codex app-server                        *)
(* (server/codex/native-session.ts, app-server-client.ts,                  *)
(* interaction-registry.ts): one child process at a time, opened on        *)
(* demand, whose frames arrive in order, and which asks the planner for    *)
(* tools and for answers of the household.                                 *)
(*                                                                         *)
(* The planner is one thread.  The frames of one chunk are handled one     *)
(* after the other; what waits for a response goes on after them           *)
(* (`resume'), and before anything else happens.  What the frames hold     *)
(* besides, materialisation, sub-agent threads and the bindings of         *)
(* completed client messages are left out; the event feed is ThreadFeed.   *)
(***************************************************************************)
EXTENDS Integers, Sequences, FiniteSets

CONSTANTS
    MaxChildren,   \* bound: app-servers ever spawned
    RpcIds,           \* protocol request ids; every app-server starts over
    Own, Foreign,  \* conversations of the planner and of other programs
    SessionTurns,  \* their turns
    MaxDeferred,   \* MAX_DEFERRED_INBOUND_EVENTS
    MaxQueued,     \* MAX_DEFERRED_SERVER_REQUESTS
    MaxQuestions,  \* the registry's maxPending
    MaxPages,      \* MAX_ELIGIBILITY_PAGES
    MaxEvents      \* bound: frames that are no response, failures and calls

ASSUME SessionAssumption ==
    /\ {MaxChildren, MaxQuestions, MaxPages} \subseteq Nat \ {0}
    /\ {MaxDeferred, MaxQueued, MaxEvents} \subseteq Nat
    /\ SessionTurns \subseteq Nat \ {0}

VARIABLES
    child,    \* per process: "none", "spawning", "running" or "ended"
    link,     \* per process, its client: "none", "open", "failed", "closed"
    clients,  \* #client and #openingClient
    opening,  \* #openClient under way
    deferred, \* deferredInboundEvents of that opening
    session,  \* the maps, the registries and the requests of the app-servers
    closing,  \* close(): "no", "begun", "done"
    events    \* bounded events so far

sessionVars == <<child, link, clients, opening, deferred, session, closing, events>>

Children == 1..MaxChildren
None == 0
Threads == Own \cup Foreign
NoOpening == [stage |-> "idle", child |-> None, resume |-> "no"]
Waiting == {"initialize", "list", "read"}

-----------------------------------------------------------------------------
(* Eligibility.                                                            *)

\* Fault: a projection without a source is taken for the planner's.
FaultIsRoot(s, t, source) == source # "other"
\* A lossy projection is a root only if the conversation is known as one.
IsRoot(s, t, source) == source = "planner" \/ (source = "lossy" /\ t \in s.roots)

\* #observeThread, of one projection and of those of a page.
ObservedAll(s, items) ==
    [s EXCEPT !.roots = @ \cup {i.thread : i \in
        {j \in items : j.thread \notin s.archived /\ IsRoot(s, j.thread, j.source)}}]
Observed(s, t, source) == ObservedAll(s, {[thread |-> t, source |-> source]})

\* #syncActiveRootTurn: the turn a projection shows running, or shows ended.
Synced(s, t, turn, status) ==
    IF t \notin s.roots \/ turn = 0 THEN s
    ELSE IF status = "inProgress" THEN [s EXCEPT !.active[t] = turn]
    ELSE IF s.active[t] = turn THEN [s EXCEPT !.active[t] = 0] ELSE s

\* forgetThread.
Forgotten(s, t) ==
    IF t \in s.roots \cup s.archived
    THEN [s EXCEPT !.archived = @ \cup {t}, !.roots = @ \ {t}, !.active[t] = 0] ELSE s

\* A projection that has to be read in full to be told.
Unclear(s, item) == item.source = "lossy" /\ item.thread \notin s.roots \cup s.archived

\* isEligibleRootTurn.
MayAct(s, e) == e.thread \in s.roots /\ s.active[e.thread] = e.turn

-----------------------------------------------------------------------------
(* Answers to the app-server, and its questions.                           *)

\* respond and respondError: they throw once the client failed or closed.
Reply(s, c, id) ==
    IF link[c] # "open" THEN [s EXCEPT !.thrown = TRUE]
    ELSE IF id \in s.owed[c] THEN [s EXCEPT !.owed[c] = @ \ {id}]
    ELSE [s EXCEPT !.stray = TRUE]

Quietly(s) == [s EXCEPT !.thrown = FALSE]

\* register. A full registry refuses, and a pending id may not be used again.
Register(s, c, e) ==
    IF Cardinality(s.entries[c]) >= MaxQuestions THEN Reply(s, c, e.id)
    ELSE IF \E q \in s.entries[c] : q.id = e.id THEN [s EXCEPT !.thrown = TRUE]
    ELSE [s EXCEPT !.entries[c] = @ \cup {[id |-> e.id, thread |-> e.thread]}]

\* Fault: the entry outlives its answer.
FaultSettle(s, c, q) == Reply(s, c, q.id)
\* answer and expire: the entry goes first, then the answer leaves.
Settle(s, c, q) == Reply([s EXCEPT !.entries[c] = @ \ {q}], c, q.id)

\* resolveProtocolRequest on the registry the session uses.
Resolved(s, e) ==
    LET c == s.interactions
        found == IF c = None THEN {} ELSE {q \in s.entries[c] : q.id = e.id}
    IN  IF found = {} THEN s
        ELSE IF \E q \in found : q.thread # e.thread THEN [s EXCEPT !.thrown = TRUE]
        ELSE [s EXCEPT !.entries[c] = @ \ found, !.owed[c] = @ \ {e.id}]

\* InteractionRegistry.close: every question is settled, if that still works.
Shut(s, c) ==
    LET ids == IF c = None THEN {} ELSE {q.id : q \in s.entries[c]}
        refused == [s EXCEPT !.entries[c] = {}, !.thrown = FALSE]
    IN  IF c = None THEN s
        ELSE IF link[c] # "open" THEN refused
        ELSE [refused EXCEPT !.owed[c] = @ \ ids, !.stray = @ \/ ~(ids \subseteq s.owed[c])]

-----------------------------------------------------------------------------
(* Frames.                                                                 *)

ChildRequests ==
    [kind : {"tool", "question"}, id : RpcIds, thread : Own, turn : SessionTurns]
    \cup [kind : {"approval"}, id : RpcIds]
Notifications ==
    [kind : {"started"}, thread : Own, source : {"planner"}]
    \cup [kind : {"started"}, thread : Foreign, source : {"lossy"}]
    \cup [kind : {"archived"}, thread : Own]
    \cup [kind : {"turnStarted", "turnCompleted"}, thread : Own, turn : SessionTurns]
    \cup [kind : {"resolved"}, id : RpcIds, thread : Threads]
    \cup {[kind |-> "malformed"]}
IsRequest(e) == e.kind \in {"tool", "question", "approval"}

\* #handleServerRequest.
HandleRequest(s, c, e) ==
    CASE e.kind = "tool" /\ MayAct(s, e) -> [s EXCEPT !.calls = @ \cup {[child |-> c, id |-> e.id]}]
      [] e.kind = "question" /\ MayAct(s, e) -> Register(s, c, e)
      [] OTHER -> Reply(s, c, e.id)

\* #handleNotification.
HandleNotification(s, e) ==
    CASE e.kind = "started" -> Observed(s, e.thread, e.source)
      [] e.kind = "archived" -> Forgotten(s, e.thread)
      [] e.kind = "turnStarted" /\ e.thread \in s.roots -> [s EXCEPT !.active[e.thread] = e.turn]
      [] e.kind = "turnCompleted" /\ s.active[e.thread] = e.turn -> [s EXCEPT !.active[e.thread] = 0]
      [] e.kind = "resolved" -> Resolved(s, e)
      [] e.kind = "malformed" -> [s EXCEPT !.thrown = TRUE]
      [] OTHER -> s

Handle(s, c, e) == IF IsRequest(e) THEN HandleRequest(s, c, e) ELSE HandleNotification(s, e)

-----------------------------------------------------------------------------
(* Failure.                                                                *)

\* What #handleFailure forgets, if the client is one of the session's.
Cleared(s) ==
    [Shut(s, s.interactions) EXCEPT
        !.interactions = None, !.roots = {}, !.archived = {}, !.active = [t \in Threads |-> 0]]
HandleFailure(s, c) ==
    /\ session' = IF c \in {clients.client, clients.openingClient} THEN Cleared(s) ELSE s
    /\ clients' = [f \in DOMAIN clients |-> IF clients[f] = c THEN None ELSE clients[f]]

\* #rejectPending: the opening learns of it when it goes on.
Rejected(c) ==
    IF opening.child = c /\ opening.stage \in Waiting /\ opening.resume = "no"
    THEN [opening EXCEPT !.resume = "error"] ELSE opening

\* #signalFailure, from a state the failing handler left; SIGTERM is sent.
\* The answers of Shut are refused, as the client has failed by then.
SignalFailure(c, s) ==
    /\ link' = [link EXCEPT ![c] = "failed"]
    /\ opening' = Rejected(c)
    /\ HandleFailure(Quietly([s EXCEPT !.entries[c] = {}]), c)

\* The catch of #openClient: the client is closed, and its end awaited.
Abort(c, s) ==
    /\ HandleFailure(Shut(Quietly(s), c), c)
    /\ link' = [link EXCEPT ![c] = "closed"]
    /\ opening' = [stage |-> "closing", child |-> c, resume |-> "no"]
    /\ deferred' = <<>>

-----------------------------------------------------------------------------
(* Opening.                                                                *)

\* Nothing is left to run of the task that is under way.
Rested == opening.resume = "no"

Healthy == clients.client # None /\ link[clients.client] = "open"

\* Fault: every caller opens an app-server of its own.
FaultMustOpen == ~Healthy
\* Nobody has a healthy client, nor an opening to join.
MustOpen == ~Healthy /\ opening = NoOpening

\* ensureConnected.
EnsureConnected ==
    /\ closing = "no" /\ MustOpen
    /\ \E c \in Children : child[c] = "none" /\ (\A d \in 1..c-1 : child[d] # "none")
          /\ child' = [child EXCEPT ![c] = "spawning"]
          /\ opening' = [stage |-> "spawning", child |-> c, resume |-> "no"]
    /\ UNCHANGED <<link, clients, deferred, session, closing, events>>

\* spawnAppServer ends; initialize is sent.
Spawned ==
    /\ opening.stage = "spawning"
    /\ \/ /\ child' = [child EXCEPT ![opening.child] = "running"]
          /\ link' = [link EXCEPT ![opening.child] = "open"]
          /\ clients' = [clients EXCEPT !.openingClient = opening.child]
          /\ opening' = [opening EXCEPT !.stage = "initialize"]
       \/ /\ child' = [child EXCEPT ![opening.child] = "ended"]
          /\ opening' = NoOpening /\ UNCHANGED <<link, clients>>
    /\ UNCHANGED <<deferred, session, closing, events>>

Items == {[thread |-> t, source |-> "planner"] : t \in Own} \cup {[thread |-> t, source |-> "lossy"] : t \in Threads}

\* The response the opening waits for, or an error in its place.
Respond ==
    /\ opening.stage \in Waiting /\ opening.resume = "no" /\ link[opening.child] = "open"
    /\ \/ opening.stage = "initialize" /\ opening' = [opening EXCEPT !.resume = "ok"]
       \/ /\ opening.stage = "list"
          /\ \E items \in {i \in SUBSET Items : Cardinality(i) <= 1}, more \in BOOLEAN :
                opening' = [opening EXCEPT !.resume = "ok", !.items = items, !.more = more]
       \/ /\ opening.stage = "read"
          /\ \E source \in {"lossy"} \cup (IF opening.thread \in Own THEN {"planner"} ELSE {"other"}) :
             \E turn \in SessionTurns \cup {0} :
                opening' = [opening EXCEPT !.resume = "ok", !.source = source, !.turn = turn]
    /\ UNCHANGED <<child, link, clients, deferred, session, closing, events>>

RefuseOpening ==
    /\ opening.stage \in Waiting /\ opening.resume = "no" /\ link[opening.child] = "open"
    /\ opening' = [opening EXCEPT !.resume = "error"]
    /\ UNCHANGED <<child, link, clients, deferred, session, closing>>

List(c, pages) ==
    [stage |-> "list", child |-> c, resume |-> "no", pages |-> pages, items |-> {}, more |-> FALSE,
     thread |-> None, tries |-> 0, source |-> "none", turn |-> 0]

\* Fault: what was asked during the opening is dropped.
FaultReplayDeferred(s, c) ==
    LET after[k \in 0..Len(deferred)] ==
            IF k = 0 THEN s
            ELSE IF after[k-1].thrown \/ IsRequest(deferred[k]) THEN after[k-1]
            ELSE Handle(after[k-1], c, deferred[k])
    IN  after[Len(deferred)]
\* The deferred events are replayed in order, until one of them throws.
ReplayDeferred(s, c) ==
    LET after[k \in 0..Len(deferred)] ==
            IF k = 0 THEN s
            ELSE IF after[k-1].thrown THEN after[k-1]
            ELSE Handle(after[k-1], c, deferred[k])
    IN  after[Len(deferred)]

\* Hydration is over. Every deferred notification is validated first. The
\* client becomes the session's although it may have failed in this chunk.
FinishOpening(c, s) ==
    LET valid == closing = "no" /\ \A k \in DOMAIN deferred : deferred[k].kind # "malformed"
        replayed == ReplayDeferred([Shut(s, s.interactions) EXCEPT !.interactions = c], c)
    IN  IF valid /\ ~replayed.thrown
        THEN /\ session' = replayed
             /\ clients' = [client |-> c, openingClient |-> None]
             /\ opening' = NoOpening /\ deferred' = <<>>
             /\ UNCHANGED link
        ELSE IF valid
        THEN /\ session' = Cleared(Quietly(replayed)) /\ clients' = [client |-> None, openingClient |-> None]
             /\ link' = [link EXCEPT ![c] = "closed"]
             /\ opening' = [stage |-> "closing", child |-> c, resume |-> "no"] /\ deferred' = <<>>
        ELSE Abort(c, s)

\* The items of a page: those that are unclear are read one by one.
Hydrate(c, s, items) ==
    LET known == ObservedAll(s, {i \in items : ~Unclear(s, i)})
        unclear == {i \in items : Unclear(s, i)}
    IN  IF unclear # {} /\ link[c] = "open"
        THEN \E i \in unclear :
                /\ opening' = [opening EXCEPT !.stage = "read", !.resume = "no", !.thread = i.thread,
                                              !.tries = 1, !.items = unclear \ {i}]
                /\ session' = known /\ UNCHANGED <<link, clients, deferred>>
        ELSE IF unclear = {} /\ ~opening.more THEN FinishOpening(c, known)
        ELSE IF unclear = {} /\ link[c] = "open" /\ opening.pages < MaxPages
        THEN /\ opening' = List(c, opening.pages + 1)
             /\ session' = known /\ UNCHANGED <<link, clients, deferred>>
        ELSE Abort(c, known)

\* What waited for the response goes on.
Resume ==
    /\ opening.resume # "no"
    /\ LET c == opening.child IN
       CASE opening.resume = "error" -> Abort(c, session)
         [] opening.resume = "ok" /\ opening.stage = "initialize" ->
              IF link[c] = "open"
              THEN /\ opening' = List(c, 1)
                   /\ session' = [session EXCEPT !.roots = {}, !.active = [t \in Threads |-> 0]]
                   /\ UNCHANGED <<link, clients, deferred>>
              ELSE Abort(c, session)
         [] opening.resume = "ok" /\ opening.stage = "list" -> Hydrate(c, session, opening.items)
         [] OTHER ->
              IF opening.source = "lossy" /\ opening.tries < 2
              THEN IF link[c] = "open"
                   THEN /\ opening' = [opening EXCEPT !.resume = "no", !.tries = @ + 1]
                        /\ UNCHANGED <<session, link, clients, deferred>>
                   ELSE Abort(c, session)
              ELSE Hydrate(c, Synced(Observed(session, opening.thread, opening.source),
                                     opening.thread, opening.turn, "inProgress"), opening.items)
    /\ UNCHANGED <<child, closing, events>>

-----------------------------------------------------------------------------
(* Events.                                                                 *)

Ready(c) == clients.client = c

\* A frame that is no response. Until the opening is over it is deferred; a
\* full queue refuses a request and fails on a notification.
Deliver(c, e) ==
    /\ link[c] = "open"
    /\ IsRequest(e) => e.id \notin session.owed[c]
    /\ LET s == IF IsRequest(e) THEN [session EXCEPT !.owed[c] = @ \cup {e.id}] ELSE session
           queued == Len(SelectSeq(deferred, IsRequest))
           full == Len(deferred) >= MaxDeferred \/ (IsRequest(e) /\ queued >= MaxQueued)
           handled == IF Ready(c) THEN Handle(s, c, e) ELSE Reply(s, c, e.id)
       IN  IF ~Ready(c) /\ ~full
           THEN /\ deferred' = Append(deferred, e) /\ session' = s
                /\ UNCHANGED <<link, clients, opening>>
           ELSE /\ UNCHANGED deferred
                /\ IF ~Ready(c) /\ ~IsRequest(e) THEN SignalFailure(c, s)
                   ELSE IF handled.thrown THEN SignalFailure(c, handled)
                   ELSE session' = handled /\ UNCHANGED <<link, clients, opening>>
    /\ UNCHANGED <<child, closing>>

\* observeThread: the thread service passes on what it reads.
ObserveThread ==
    /\ Rested /\ Healthy
    /\ \E t \in Own, turn \in SessionTurns, status \in {"inProgress", "completed"} :
          session' = Synced(Observed(session, t, "planner"), t, turn, status)
    /\ UNCHANGED <<child, link, clients, opening, deferred, closing>>

\* A frame that is none, or an end of the process.
Fail(c) ==
    /\ link[c] = "open"
    /\ SignalFailure(c, session)
    /\ \/ UNCHANGED child
       \/ Rested /\ child' = [child EXCEPT ![c] = "ended"]
    /\ UNCHANGED <<deferred, closing>>

\* The timer of the request the opening waits for.
Timeout ==
    /\ opening.stage \in Waiting /\ Rested /\ link[opening.child] = "open"
    /\ SignalFailure(opening.child, session)
    /\ UNCHANGED <<child, deferred, closing, events>>

\* The effect host is done with a tool; whether the answer leaves or throws.
ToolDone ==
    /\ Rested
    /\ \E call \in session.calls :
          session' = Quietly(Reply([session EXCEPT !.calls = @ \ {call}], call.child, call.id))
    /\ UNCHANGED <<child, link, clients, opening, deferred, closing, events>>

\* The household answers a question it is shown.
AnswerInteraction ==
    /\ Rested /\ session.interactions # None
    /\ \E q \in session.entries[session.interactions] :
          session' = Quietly(Settle(session, session.interactions, q))
    /\ UNCHANGED <<child, link, clients, opening, deferred, closing, events>>

\* The timer of a question.
Expire ==
    /\ Rested
    /\ \E c \in Children : \E q \in session.entries[c] : session' = Quietly(Settle(session, c, q))
    /\ UNCHANGED <<child, link, clients, opening, deferred, closing, events>>

\* close: both clients are closed at once.
Close ==
    /\ Rested /\ closing = "no" /\ closing' = "begun"
    /\ session' = [Shut(session, session.interactions) EXCEPT !.interactions = None]
    /\ LET held == {clients.client, clients.openingClient} \ {None} IN
       /\ link' = [c \in Children |-> IF c \in held THEN "closed" ELSE link[c]]
       /\ opening' = IF opening.child \in held THEN Rejected(opening.child) ELSE opening
    /\ clients' = [client |-> None, openingClient |-> None]
    /\ UNCHANGED <<child, deferred, events>>

\* A process that was told to end does; a closed one is killed in the end.
Ends(c) ==
    /\ child[c] = "running" /\ link[c] \in {"failed", "closed"}
    /\ child' = [child EXCEPT ![c] = "ended"]
    /\ UNCHANGED <<link, clients, opening, deferred, session, closing, events>>

\* client.close has returned, and the opening is rejected.
Rejects ==
    /\ opening.stage = "closing" /\ child[opening.child] = "ended"
    /\ opening' = NoOpening
    /\ UNCHANGED <<child, link, clients, deferred, session, closing, events>>

\* Fault: close does not wait for an opening.
FaultCloses ==
    /\ closing = "begun" /\ \A c \in Children : link[c] = "closed" => child[c] = "ended"
    /\ closing' = "done"
    /\ UNCHANGED <<child, link, clients, opening, deferred, session, events>>
\* close returns.
Closes ==
    /\ closing = "begun" /\ opening = NoOpening
    /\ \A c \in Children : link[c] = "closed" => child[c] = "ended"
    /\ closing' = "done"
    /\ UNCHANGED <<child, link, clients, opening, deferred, session, events>>

-----------------------------------------------------------------------------
SessionInit ==
    /\ child = [c \in Children |-> "none"] /\ link = [c \in Children |-> "none"]
    /\ clients = [client |-> None, openingClient |-> None]
    /\ opening = NoOpening /\ deferred = <<>>
    /\ session = [roots |-> {}, archived |-> {}, active |-> [t \in Threads |-> 0],
                  interactions |-> None, entries |-> [c \in Children |-> {}], calls |-> {},
                  owed |-> [c \in Children |-> {}],
                  thrown |-> FALSE, stray |-> FALSE]
    /\ closing = "no" /\ events = 0

Happens ==
    /\ events < MaxEvents /\ events' = events + 1
    /\ \/ RefuseOpening \/ ObserveThread
       \/ \E c \in Children : Fail(c) \/ \E e \in ChildRequests \cup Notifications : Deliver(c, e)

SessionProceeds ==
    \/ EnsureConnected \/ AnswerInteraction \/ Expire \/ Close
    \/ Spawned \/ Respond \/ Resume \/ Timeout \/ ToolDone \/ Rejects \/ Closes
    \/ \E c \in Children : Ends(c)

SessionNext == Happens \/ SessionProceeds

SessionSpec == SessionInit /\ [][SessionNext]_sessionVars

-----------------------------------------------------------------------------
(* Properties.                                                             *)

\* No answer is written to an app-server that does not wait for it: whether
\* the household, the timer, the app-server or a closing comes first, and
\* though the next app-server uses the same ids.
NoStrayAnswers == ~session.stray

\* However callers, failures and closings interleave, one app-server at most
\* is connected, and a closed session leaves none but those that failed.
OneAppServer ==
    /\ Cardinality({c \in Children : link[c] = "open"}) <= 1
    /\ closing = "done" =>
         \A c \in Children : child[c] \in {"none", "ended"} \/ link[c] = "failed"

\* Lossy lists, late notifications and restarts never give a conversation of
\* another program the planner's tools.
OnlyOwnRoots == session.roots \subseteq Own /\ \A t \in Threads \ session.roots : session.active[t] = 0

\* What a connected app-server asks is never lost between its arrival, the
\* replay of what was deferred, a restart and the answer: it is deferred by
\* the opening, in the hands of a tool, or shown to the household.
NoRequestLost ==
    \A c \in Children, id \in RpcIds : link[c] = "open" /\ id \in session.owed[c] =>
        \/ opening.child = c /\ \E k \in DOMAIN deferred : IsRequest(deferred[k]) /\ deferred[k].id = id
        \/ [child |-> c, id |-> id] \in session.calls
        \/ session.interactions = c /\ \E q \in session.entries[c] : q.id = id
=============================================================================
