----------------------------- MODULE ThreadFeed -----------------------------
(***************************************************************************)
(* How a page follows the shared Codex selection: the planner's event feed *)
(* (server/codex/native-session.ts: epoch, revision, bounded history, long *)
(* polls) and the page's thread source (app/codex-thread-source.ts: loads, *)
(* the subscription loop and the mutations with their retries).            *)
(*                                                                         *)
(* What the conversations hold is left out, and so are interrupting,       *)
(* archiving and answering, which share the path of the other mutations    *)
(* and end in a load.                                                      *)
(***************************************************************************)
EXTENDS Integers, Sequences, FiniteSets, SequencesExt

CONSTANTS
    Roots,          \* conversations with a history
    Blanks,         \* conversations this page's New may create
    Slots,          \* bound: loads of the page under way at a time
    MaxHistory,     \* MAX_EVENT_HISTORY
    MaxAttempts,    \* MAX_CONSISTENT_LOAD_ATTEMPTS
    MaxDisturbances \* bound: events of the environment, all kinds together

ASSUME FeedAssumption ==
    /\ {MaxHistory, MaxAttempts} \subseteq Nat \ {0}
    /\ MaxDisturbances \in Nat

VARIABLES
    epoch, revision, events,   \* the feed: #epoch, #revision, #events
    selection,                 \* the selection in the store
    blank, gone,               \* conversations without a message; lost ones
    replays,                   \* the answer of a request that was decided
    page,                      \* the snapshot the page shows
    cursor,                    \* pollEpoch and pollRevision
    generation,                \* lifecycleGeneration: odd while running
    loop, poll,                \* the subscription and its long poll
    loads,                     \* the loads under way
    op, attempts,              \* the mutation under way; those kept for retry
    disturbances, effects      \* events so far; effects of an unresolved wish

serverVars == <<epoch, revision, events, selection, blank, gone, replays>>
pageVars == <<page, cursor, generation, loop, poll, loads, op, attempts>>
feedVars == <<serverVars, pageVars, disturbances, effects>>

None == "none"
Conversations == Roots \cup Blanks
Families == {"new", "select", "send"}
NoEpoch == -1
Vacant == [stage |-> "idle"]
NoAttempt == [id |-> <<>>]

Running == generation % 2 = 1

-----------------------------------------------------------------------------
(* The feed.                                                               *)

Latest(n, s) == SubSeq(s, (IF Len(s) > n THEN Len(s) - n ELSE 0) + 1, Len(s))

\* mark: several at once, as [reason, thread].
Marked(new) ==
    Latest(MaxHistory, events \o [k \in DOMAIN new |-> [revision |-> revision + k] @@ new[k]])

Reason(why, thread) == [reason |-> why, thread |-> thread]

Concerns(event, thread) ==
    thread = None \/ event.thread \in {None, thread} \/ event.reason = "selection"

\* Fault: a gap in the history goes unnoticed.
FaultBehind(after, rev, history) == after > rev
\* The request is ahead of the feed, or behind what the history still holds.
Behind(after, rev, history) ==
    \/ after > rev
    \/ after < (IF history = <<>> THEN rev + 1 ELSE history[1].revision) - 1

\* #eventResponse at an epoch, a revision and a history.
EventResponse(request, e, rev, history) ==
    LET resync == request.epoch # e \/ Behind(request.after, rev, history)
        reasons == {k \in DOMAIN history :
                      history[k].revision > request.after /\ Concerns(history[k], request.thread)}
    IN  [epoch |-> e, revision |-> rev, resync |-> resync, changed |-> resync \/ reasons # {}]

\* A waiter is settled by a change, a resync or a revision that moved on.
Settles(request, answer) == answer.changed \/ request.after # answer.revision

Woken(e, rev, history) ==
    LET answer == EventResponse(poll, e, rev, history) IN
    IF poll.stage = "waiting" /\ Settles(poll, answer)
    THEN [stage |-> "answered", answer |-> answer] ELSE poll

\* The feed moves on by these marks, and wakes the waiter.
Mark(new) ==
    /\ revision' = revision + Len(new) /\ events' = Marked(new) /\ UNCHANGED epoch
    /\ poll' = Woken(epoch, revision', events')

Coordinates == [epoch |-> epoch, revision |-> revision]

\* Another page selects, under the lock of the selection.
OthersSelect(t) ==
    /\ t \notin gone /\ t # selection.thread
    /\ selection' = [thread |-> t, revision |-> selection.revision + 1]
    /\ Mark(<<Reason("selection", t)>>)
    /\ UNCHANGED <<blank, gone, replays, page, cursor, generation, loop, loads, op, attempts, effects>>

\* A notification of the app-server about a conversation.
Notified(t) ==
    /\ t # None /\ Mark(<<Reason("thread", t)>>)
    /\ UNCHANGED <<selection, blank, gone, replays, page, cursor, generation, loop, loads, op, attempts, effects>>

\* #handleFailure and #resetEpoch: blank conversations die with the process.
AppServerFails ==
    /\ epoch' = epoch + 1 /\ revision' = 0 /\ events' = <<>>
    /\ gone' = gone \cup blank /\ blank' = {}
    /\ poll' = Woken(epoch', 0, <<>>)
    /\ UNCHANGED <<selection, replays, page, cursor, generation, loop, loads, op, attempts, effects>>

-----------------------------------------------------------------------------
(* The page: what it shows.                                                *)

Larger(i, j) == IF i > j THEN i ELSE j

\* commit: the cursor follows the epoch, and never goes back in one.
Cursor(p) ==
    [epoch |-> p.epoch,
     revision |-> IF p.epoch # cursor.epoch THEN p.revision ELSE Larger(cursor.revision, p.revision)]

CommitPage(p) == page' = p /\ cursor' = Cursor(p)
KeepPage == UNCHANGED <<page, cursor>>

Showing(status, coordinates, sel) ==
    [status |-> status, epoch |-> coordinates.epoch, revision |-> coordinates.revision, selection |-> sel]

\* unavailableSnapshot over the newest list the load has seen.
Unavailable(load) ==
    IF load.list = Vacant THEN [page EXCEPT !.status = "runtime_unavailable"]
    ELSE Showing("runtime_unavailable", load.list, load.list.selection)

\* A load starts: it is the newest, and only the newest may commit.
Outdated == [s \in Slots |-> IF loads[s] = Vacant THEN Vacant ELSE [loads[s] EXCEPT !.newest = FALSE]]
NewLoad(by) ==
    [stage |-> "listing", by |-> by, generation |-> generation, newest |-> TRUE, tries |-> 1,
     list |-> Vacant, read |-> Vacant]

BeginLoad(s, from, by) == loads[s] = Vacant /\ loads' = [from EXCEPT ![s] = NewLoad(by)]

\* commitIfCurrent.
MayCommit(load) == load.newest /\ (load.by = "user" \/ load.generation = generation)

\* A load ends with a snapshot; its caller goes on.
EndLoad(s, p) ==
    /\ IF MayCommit(loads[s]) THEN CommitPage(p) ELSE KeepPage
    /\ loads' = [loads EXCEPT ![s] = Vacant]
    /\ loop' = IF loads[s].by = "loop" /\ loads[s].generation = generation /\ Running THEN "top" ELSE loop

\* GET /api/codex/threads. A selection whose conversation died is cleared.
ListThreads(s) ==
    /\ loads[s].stage = "listing"
    /\ LET dead == selection.thread \in gone IN
       /\ IF dead
          THEN selection' = [thread |-> None, revision |-> selection.revision + 1]
               /\ Mark(<<Reason("selection", None)>>)
          ELSE UNCHANGED <<epoch, revision, events, selection, poll>>
       /\ loads' = [loads EXCEPT ![s].stage = "listed",
             ![s].list = [epoch |-> epoch, revision |-> revision', selection |-> selection',
                          blank |-> selection'.thread \in blank]]
    /\ UNCHANGED <<blank, gone, replays, page, cursor, generation, loop, op, attempts, disturbances, effects>>

TakeList(s) ==
    /\ loads[s].stage = "listed"
    /\ LET list == loads[s].list IN
       CASE list.selection.thread = None -> EndLoad(s, Showing("empty", list, list.selection))
         [] list.blank -> EndLoad(s, Showing("selected_unmaterialized", list, list.selection))
         [] OTHER -> /\ loads' = [loads EXCEPT ![s].stage = "reading"]
                     /\ UNCHANGED <<page, cursor, loop>>
    /\ UNCHANGED <<serverVars, generation, poll, op, attempts, disturbances, effects>>

\* GET /api/codex/threads/read: the selection and the coordinates of its end.
ReadThread(s) ==
    /\ loads[s].stage = "reading"
    /\ loads' = [loads EXCEPT ![s].stage = "read",
          ![s].read = [epoch |-> epoch, revision |-> revision, selection |-> selection,
                       found |-> loads[s].list.selection.thread \notin gone]]
    /\ UNCHANGED <<serverVars, page, cursor, generation, loop, poll, op, attempts, disturbances, effects>>

Consistent(list, read) ==
    /\ read.epoch = list.epoch
    /\ read.selection.thread = list.selection.thread
    /\ read.selection.revision >= list.selection.revision

TakeRead(s) ==
    /\ loads[s].stage = "read"
    /\ LET list == loads[s].list
           read == loads[s].read
       IN CASE ~read.found -> EndLoad(s, Showing("selected_unavailable", list, list.selection))
            [] read.found /\ Consistent(list, read) -> EndLoad(s, Showing("ready", read, read.selection))
            [] OTHER -> IF loads[s].tries < MaxAttempts
                        THEN /\ loads' = [loads EXCEPT ![s].stage = "listing", ![s].tries = @ + 1]
                             /\ UNCHANGED <<page, cursor, loop>>
                        ELSE EndLoad(s, Unavailable(loads[s]))
    /\ UNCHANGED <<serverVars, generation, poll, op, attempts, disturbances, effects>>

\* A request of the load fails.
LoseLoad(s) ==
    /\ loads[s] # Vacant
    /\ EndLoad(s, Unavailable(loads[s]))
    /\ UNCHANGED <<serverVars, generation, poll, op, attempts, effects>>

-----------------------------------------------------------------------------
(* The page: the subscription.                                             *)

StartPage ==
    /\ ~Running
    /\ generation' = generation + 1 /\ loop' = "loading"
    /\ \E s \in Slots : loads[s] = Vacant
          /\ loads' = [Outdated EXCEPT ![s] = [NewLoad("loop") EXCEPT !.generation = generation + 1]]
    /\ UNCHANGED <<serverVars, page, cursor, poll, op, attempts, effects>>

\* The poll is aborted; a load under way ends without effect.
StopPage ==
    /\ Running
    /\ generation' = generation + 1 /\ loop' = "off" /\ poll' = Vacant
    /\ UNCHANGED <<serverVars, page, cursor, loads, op, attempts, effects>>

Recovers == page.epoch = NoEpoch \/ page.status = "runtime_unavailable"

\* The top of runSubscription: wait half a second, or send a long poll.
SendPoll ==
    /\ loop = "top"
    /\ IF Recovers THEN loop' = "delay" /\ UNCHANGED poll
       ELSE /\ loop' = "polling"
            /\ poll' = [stage |-> "sent", epoch |-> cursor.epoch, after |-> cursor.revision,
                        thread |-> page.selection.thread]
    /\ UNCHANGED <<serverVars, page, cursor, generation, loads, op, attempts, disturbances, effects>>

\* waitForEvents: an answer at once, or a waiter.
WaitForEvents ==
    /\ poll.stage = "sent"
    /\ LET answer == EventResponse(poll, epoch, revision, events) IN
       poll' = IF Settles(poll, answer) THEN [stage |-> "answered", answer |-> answer]
               ELSE [poll EXCEPT !.stage = "waiting"]
    /\ UNCHANGED <<serverVars, page, cursor, generation, loop, loads, op, attempts, disturbances, effects>>

\* waitMs passes.
WaitEnds ==
    /\ poll.stage = "waiting"
    /\ poll' = [stage |-> "answered", answer |-> EventResponse(poll, epoch, revision, events)]
    /\ UNCHANGED <<serverVars, page, cursor, generation, loop, loads, op, attempts, disturbances, effects>>

LoopLoads == loop' = "loading" /\ \E s \in Slots : BeginLoad(s, Outdated, "loop")

\* The cursor moves before the load, whatever becomes of that.
TakeEvents ==
    /\ poll.stage = "answered" /\ poll' = Vacant
    /\ LET answer == poll.answer IN
       /\ cursor' = IF answer.epoch = cursor.epoch
                    THEN [cursor EXCEPT !.revision = Larger(@, answer.revision)] ELSE cursor
       /\ IF answer.epoch # page.epoch \/ answer.changed THEN LoopLoads
          ELSE loop' = "top" /\ UNCHANGED loads
    /\ UNCHANGED <<serverVars, page, generation, op, attempts, disturbances, effects>>

LosePoll ==
    /\ poll # Vacant
    /\ poll' = Vacant /\ loop' = "delay"
    /\ UNCHANGED <<serverVars, page, cursor, generation, loads, op, attempts, effects>>

DelayEnds ==
    /\ loop = "delay" /\ LoopLoads
    /\ UNCHANGED <<serverVars, page, cursor, generation, poll, op, attempts, disturbances, effects>>

-----------------------------------------------------------------------------
(* The page: mutations. The rail has one of them under way at a time.      *)

FreshBody(family, thread) ==
    [id |-> <<family, Cardinality({id \in DOMAIN replays : id[1] = family})>>, thread |-> thread,
     expected |-> page.selection.revision]

\* Fault: a retry is sent as a new request.
FaultBody(family, thread) == FreshBody(family, thread)
\* runMutation: an attempt whose fate is unknown is sent again as it was.
Body(family, thread) ==
    IF attempts[family] # NoAttempt THEN attempts[family] ELSE FreshBody(family, thread)

\* A different wish of a family whose attempt is unresolved is refused at once.
Press(family, thread) ==
    /\ op = Vacant /\ attempts[family] # NoAttempt => attempts[family].thread = thread
    /\ CASE family = "new" -> thread = None
         [] family = "select" -> thread \in Roots
         [] OTHER -> thread = page.selection.thread /\ page.status \in {"ready", "selected_unmaterialized"}
    /\ attempts' = [attempts EXCEPT ![family] = Body(family, thread)]
    /\ op' = [stage |-> "sent", family |-> family, body |-> Body(family, thread), shown |-> page]
    /\ UNCHANGED <<serverVars, page, cursor, generation, loop, poll, loads, effects>>

Reply(status, thread) ==
    [status |-> status, thread |-> thread, epoch |-> epoch, revision |-> revision', selection |-> selection']

\* The answer reaches the page.
AnswerWish(reply) ==
    op' = [stage |-> "answered", family |-> op.family, body |-> op.body, shown |-> op.shown, reply |-> reply]

\* It is remembered under the request ID.
Decided(status, thread) ==
    LET reply == Reply(status, thread) IN
    /\ AnswerWish(reply)
    /\ replays' = [id \in DOMAIN replays \cup {op.body.id} |->
                     IF id = op.body.id THEN reply ELSE replays[id]]

\* The planner decides, once per request: #replay keeps the first answer.
DecideMutation ==
    /\ op.stage = "sent" /\ op.body.id \notin DOMAIN replays
    /\ LET valid == op.body.expected = selection.revision /\ op.body.thread \notin gone IN
       \/ /\ ~valid
          /\ UNCHANGED <<epoch, revision, events, selection, blank, gone, poll, effects>>
          /\ Decided("refused", None)
       \/ /\ valid /\ op.family # "send"
          /\ \E t \in IF op.family = "new" THEN Blanks \ (blank \cup gone) ELSE {op.body.thread} :
                /\ selection' = [thread |-> t, revision |-> selection.revision + 1]
                /\ blank' = blank \cup (IF op.family = "new" THEN {t} ELSE {})
                /\ Mark(IF op.family = "new"
                        THEN <<Reason("thread", t), Reason("selection", t)>> ELSE <<Reason("selection", t)>>)
                /\ Decided("done", t)
          /\ effects' = [effects EXCEPT ![op.family] = @ + 1] /\ UNCHANGED gone
       \/ /\ valid /\ op.family = "send" /\ op.body.thread = selection.thread
          /\ blank' = blank \ {op.body.thread} /\ UNCHANGED <<selection, gone>>
          /\ Mark(<<Reason("thread", op.body.thread)>>)
          /\ Decided("done", op.body.thread)
          /\ effects' = [effects EXCEPT ![op.family] = @ + 1]
    /\ UNCHANGED <<page, cursor, generation, loop, loads, attempts, disturbances>>

ReplayMutation ==
    /\ op.stage = "sent" /\ op.body.id \in DOMAIN replays
    /\ AnswerWish(replays[op.body.id])
    /\ UNCHANGED <<serverVars, page, cursor, generation, loop, poll, loads, attempts, disturbances, effects>>

\* The user knows what became of the wish.
ResolveWish ==
    /\ op' = Vacant /\ attempts' = [attempts EXCEPT ![op.family] = NoAttempt]
    /\ effects' = [effects EXCEPT ![op.family] = 0]

UserLoads(from) == \E s \in Slots : BeginLoad(s, from, "user")

\* acceptThreadMutation: a blank conversation is shown as the answer has it;
\* all else ends in a load. send shows `materializing' before its load.
TakeReply ==
    /\ op.stage = "answered" /\ ResolveWish
    /\ LET reply == op.reply
           shown == op.family = "new" /\ reply.selection.thread = reply.thread
       IN CASE reply.status = "refused" -> UNCHANGED <<page, cursor, loads>>
            [] reply.status = "done" /\ shown ->
                 /\ loads' = Outdated
                 /\ CommitPage(Showing("selected_unmaterialized", reply, reply.selection))
            [] OTHER ->
                 /\ UserLoads(Outdated)
                 /\ IF op.family = "send" /\ op.shown.status = "selected_unmaterialized"
                    THEN CommitPage([op.shown EXCEPT !.status = "materializing"]) ELSE KeepPage
    /\ UNCHANGED <<serverVars, generation, loop, poll, disturbances>>

\* The request or its answer is lost: the attempt is kept as it is.
LoseMutation ==
    /\ op # Vacant
    /\ op' = Vacant
    /\ UNCHANGED <<serverVars, page, cursor, generation, loop, poll, loads, attempts, effects>>

-----------------------------------------------------------------------------
FeedInit ==
    /\ epoch = 0 /\ revision = 0 /\ events = <<>>
    /\ selection \in [thread : Roots \cup {None}, revision : {0}]
    /\ blank = {} /\ gone = {} /\ replays = <<>>
    /\ page = [status |-> "loading", epoch |-> NoEpoch, revision |-> 0,
               selection |-> [thread |-> None, revision |-> 0]]
    /\ cursor = [epoch |-> NoEpoch, revision |-> 0]
    /\ generation = 0 /\ loop = "off" /\ poll = Vacant
    /\ loads = [s \in Slots |-> Vacant]
    /\ op = Vacant /\ attempts = [f \in Families |-> NoAttempt]
    /\ disturbances = 0 /\ effects = [f \in Families |-> 0]

Disturbs ==
    /\ disturbances < MaxDisturbances /\ disturbances' = disturbances + 1
    /\ \/ \E t \in Roots \cup {None} : OthersSelect(t) \/ Notified(t)
       \/ AppServerFails \/ StartPage \/ StopPage
       \/ \E f \in Families, t \in Conversations \cup {None} : Press(f, t)
       \/ LosePoll \/ LoseMutation \/ \E s \in Slots : LoseLoad(s)

Load(s) == ListThreads(s) \/ TakeList(s) \/ ReadThread(s) \/ TakeRead(s)
FeedProgress ==
    \/ SendPoll \/ WaitForEvents \/ WaitEnds \/ TakeEvents \/ DelayEnds
    \/ DecideMutation \/ ReplayMutation \/ TakeReply
    \/ \E s \in Slots : Load(s)

FeedNext == Disturbs \/ FeedProgress

\* Timers fire, the planner answers what reaches it, and the page goes on.
FeedFairness ==
    /\ WF_feedVars(SendPoll) /\ WF_feedVars(WaitForEvents) /\ WF_feedVars(WaitEnds)
    /\ WF_feedVars(TakeEvents) /\ WF_feedVars(DelayEnds)
    /\ WF_feedVars(DecideMutation) /\ WF_feedVars(ReplayMutation) /\ WF_feedVars(TakeReply)
    /\ \A s \in Slots : WF_feedVars(Load(s))

FeedSpec == FeedInit /\ [][FeedNext]_feedVars /\ FeedFairness

-----------------------------------------------------------------------------
(* Properties.                                                             *)

\* A page that stays open comes to show the shared selection, through lost
\* polls, failed loads, restarts of the app-server and quiet or forgotten
\* events; only a page that shows a blank conversation may stay behind.
TabsConverge ==
    []<>(Running => page.selection = selection \/ page.status = "selected_unmaterialized")

\* However often the user presses again while the answer is unknown, a wish
\* takes effect once.
WishLandsOnce == \A f \in Families : effects[f] <= 1

\* Violated. app/codex-thread-source.ts:620: the selected projection wins over
\* the answer to a replayed thread start; but the planner replays the first
\* answer, with the selection of that time, and the page shows it.
NewerSelectionWins ==
    [][op # Vacant /\ op.family = "new" => page'.selection.revision >= page.selection.revision]_feedVars
=============================================================================
