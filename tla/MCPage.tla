------------------------------- MODULE MCPage -------------------------------
(* The browser's three protocols with the planner, for TLC: the workspace a  *)
(* page polls, the Codex selection it follows, and the household changes it  *)
(* sends, with a second page for the latter.  They share no state and no     *)
(* request, so a behaviour moves one of them.                                *)
EXTENDS ThreadFeed, WorkspaceView, MCHouseholdBrowser

VARIABLE part   \* the protocol that moves: "view", "feed" or "changes"

changeVars == vars
pageAllVars == <<part, feedVars, viewVars, changeVars>>

\* The others wait in one initial state.
PageInit ==
    /\ part \in {"view", "feed", "changes"}
    /\ ViewInit /\ FeedInit /\ Init
    /\ part = "view" \/ syncRevision = 0
    /\ part = "feed" \/ selection.thread = None
    /\ part = "changes" \/ current = Nothing

MoveView == part = "view" /\ ViewNext /\ UNCHANGED <<part, feedVars, changeVars>>
MoveFeed == part = "feed" /\ FeedNext /\ UNCHANGED <<part, viewVars, changeVars>>
MoveChanges == part = "changes" /\ Next /\ UNCHANGED <<part, feedVars, viewVars>>

\* The fairness of each protocol.  As one of them moves, a condition on the
\* actions of two stands for one on each of them.
Polling(action) == part = "view" /\ action /\ UNCHANGED changeVars
Changing(action) == part = "changes" /\ action /\ UNCHANGED viewVars
fairVars == <<viewVars, changeVars>>
PageFairness ==
    /\ \A b \in Patient :
          /\ WF_fairVars(Polling(Poll) \/ Changing(Deliver(b)))
          /\ SF_fairVars(\/ Polling(\E s \in ReadSlots : Live(s) /\ ServeRead(s))
                         \/ Changing(~Idle(b) /\ Serve(Envelope(b))))
          /\ SF_fairVars(\/ Polling(\E s \in ReadSlots : Live(s) /\ FinishRead(s))
                         \/ Changing(Resolve(b)))
          /\ SF_changeVars(Changing(\E entry \in journal[b] : ReplayPending(b, entry)))
    /\ WF_viewVars(Polling(SyncRef))
    /\ \A s \in ReadSlots : WF_viewVars(Polling(FinishRead(s) \/ LoseRead(s)))

\* No fair step of the feed is enabled before it moves.
PageSpec ==
    PageInit /\ [][MoveView \/ MoveFeed \/ MoveChanges]_pageAllVars /\ PageFairness /\ FeedFairness

\* On a page that stays online, polling reaches the authority's last revision.
\* A view that waits is not polled.
PollingCatchesUp == []<>(part = "view" => CaughtUp)
=============================================================================
