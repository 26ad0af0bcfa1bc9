------------------------------ MODULE PageProofs ------------------------------
(***************************************************************************)
(* Proofs about a browser page, for any conversations, requests, pages,    *)
(* copies and bounds.                                                      *)
(*                                                                         *)
(* A wish lands once because its retry is the same request until its fate  *)
(* is known, and the planner decides a request once.                       *)
(***************************************************************************)
EXTENDS ThreadFeed, WorkspaceView, HouseholdBrowser, PlannerLedgerProofs

-----------------------------------------------------------------------------
(* The page's wishes. *)

\* Of each family, an attempt whose fate is unknown, which has had one effect
\* at most; the planner remembers the request of one that had it.
WishInv ==
  /\ effects \in [Families -> {0, 1}]
  /\ attempts = [f \in Families |-> attempts[f]]
  /\ \A f \in Families :
       /\ attempts[f] = NoAttempt => effects[f] = 0
       /\ effects[f] = 1 => attempts[f].id \in DOMAIN replays
  /\ op # Vacant => /\ op.family \in Families
                    /\ op.body = attempts[op.family] /\ op.body # NoAttempt

LEMMA WishStarts == FeedInit => WishInv
BY DEF FeedInit, WishInv, Vacant

\* What leaves the mutation alone.
LEMMA WishRests ==
  WishInv /\ UNCHANGED <<effects, attempts, op, replays>> => WishInv'
BY DEF WishInv

LEMMA PressKeepsWish ==
  ASSUME WishInv, NEW f \in Families, NEW t, Press(f, t)
  PROVE  WishInv'
<1>1. Body(f, t) # NoAttempt /\ (attempts[f] # NoAttempt => Body(f, t) = attempts[f])
  BY DEF Body, FreshBody, NoAttempt
<1>2. attempts' = [attempts EXCEPT ![f] = Body(f, t)] /\ UNCHANGED <<effects, replays>>
  BY DEF Press, serverVars
<1>3. op'.family = f /\ op'.body = Body(f, t) /\ attempts'[f] = Body(f, t)
  BY <1>2 DEF Press, WishInv
<1> QED BY <1>1, <1>2, <1>3 DEF WishInv

LEMMA DecideKeepsWish ==
  ASSUME WishInv, DecideMutation
  PROVE  WishInv'
<1>1. op # Vacant /\ op.body.id \notin DOMAIN replays /\ UNCHANGED attempts
  BY DEF DecideMutation, Vacant
<1>2. PICK status, thread : Decided(status, thread)
  BY DEF DecideMutation
<1>3. DOMAIN replays' = {op.body.id} \cup DOMAIN replays
  BY <1>2 DEF Decided
<1>4. op'.family = op.family /\ op'.body = op.body
  BY <1>2 DEF Decided, AnswerWish
<1>5. effects' = effects \/ effects' = [effects EXCEPT ![op.family] = @ + 1]
  BY DEF DecideMutation
<1>6. effects[op.family] = 0
  BY <1>1 DEF WishInv
<1>7. op.family \in Families /\ attempts[op.family] = op.body /\ op.body # NoAttempt
  BY <1>1 DEF WishInv
<1>8. effects' \in [Families -> {0, 1}]
      /\ \A f \in Families : f # op.family => effects'[f] = effects[f]
  BY <1>5, <1>6, <1>7 DEF WishInv
<1> QED BY <1>1, <1>3, <1>4, <1>7, <1>8 DEF WishInv

LEMMA ReplyKeepsWish ==
  ASSUME WishInv, ReplayMutation \/ TakeReply \/ LoseMutation
  PROVE  WishInv'
<1>1. CASE ReplayMutation
  <2>1. UNCHANGED <<effects, attempts, replays>> /\ op # Vacant
    BY <1>1 DEF ReplayMutation, serverVars, Vacant
  <2>2. op'.family = op.family /\ op'.body = op.body
    BY <1>1 DEF ReplayMutation, AnswerWish
  <2> QED BY <2>1, <2>2 DEF WishInv
<1>2. CASE TakeReply
  BY <1>2 DEF TakeReply, ResolveWish, serverVars, WishInv, Vacant
<1>3. CASE LoseMutation
  BY <1>3 DEF LoseMutation, serverVars, WishInv
<1> QED BY <1>1, <1>2, <1>3

LEMMA WishStep == WishInv /\ [FeedNext]_feedVars => WishInv'
<1> SUFFICES ASSUME WishInv, [FeedNext]_feedVars PROVE WishInv'
  OBVIOUS
<1>1. CASE UNCHANGED feedVars
  BY <1>1, WishRests DEF feedVars, serverVars, pageVars
<1>2. CASE Disturbs
  <2>1. CASE \E t \in Roots \cup {None} : OthersSelect(t) \/ Notified(t)
    BY <2>1, WishRests DEF OthersSelect, Notified
  <2>2. CASE AppServerFails \/ StartPage \/ StopPage \/ LosePoll
    BY <2>2, WishRests DEF AppServerFails, StartPage, StopPage, LosePoll, serverVars
  <2>3. CASE \E f \in Families, t \in Conversations \cup {None} : Press(f, t)
    BY <2>3, PressKeepsWish
  <2>4. CASE \E s \in Slots : LoseLoad(s)
    BY <2>4, WishRests DEF LoseLoad, serverVars
  <2> QED BY <1>2, <2>1, <2>2, <2>3, <2>4, ReplyKeepsWish DEF Disturbs
<1>3. CASE FeedProgress
  <2>1. CASE \E s \in Slots : Load(s)
    BY <2>1, WishRests DEF Load, ListThreads, TakeList, ReadThread, TakeRead, serverVars
  <2>2. CASE SendPoll \/ WaitForEvents \/ WaitEnds \/ TakeEvents \/ DelayEnds
    BY <2>2, WishRests DEF SendPoll, WaitForEvents, WaitEnds, TakeEvents, DelayEnds, serverVars
  <2> QED BY <1>3, <2>1, <2>2, DecideKeepsWish, ReplyKeepsWish DEF FeedProgress
<1> QED BY <1>1, <1>2, <1>3 DEF FeedNext

\* However often a wish is pressed again, lost and answered late, it takes
\* effect once.
THEOREM WishesLandOnce == FeedSpec => []WishLandsOnce
<1>1. WishInv => WishLandsOnce
  BY DEF WishInv, WishLandsOnce
<1> QED BY <1>1, WishStarts, WishStep, PTL DEF FeedSpec

-----------------------------------------------------------------------------
(* The page's view of the workspace. *)

ReadsUnderWay == [live : BOOLEAN, etag : Int, seen : Int]

\* What the page composes against is never newer than what it shows: so what
\* may not go back may be compared with either.
ViewInv ==
  /\ syncRevision \in Int
  /\ etag \in Int /\ cache \in Int /\ ref \in Int /\ cache >= ref
  /\ reads \in [ReadSlots -> ReadsUnderWay \cup {NoRead}]
  /\ ownChange # NoChange => ownChange.answer \in Int

Forward == ref' >= ref /\ cache' >= ref

LEMMA ViewStarts == ViewInit => ViewInv
BY DEF ViewInit, ViewInv, NoRevision

\* A fetch that is replaced, paused or left alone leaves reads.
LEMMA RefetchReads ==
  ASSUME ViewInv, NEW validator \in Int, NEW connected,
         Refetch(validator, connected)
  PROVE  reads' \in [ReadSlots -> ReadsUnderWay \cup {NoRead}]
<1>1. Cancelled \in [ReadSlots -> ReadsUnderWay \cup {NoRead}]
  <2>1. ASSUME NEW s \in ReadSlots, Busy(s)
        PROVE  [reads[s] EXCEPT !.live = FALSE] \in ReadsUnderWay
    BY <2>1 DEF Busy, ViewInv, ReadsUnderWay
  <2> QED BY <2>1 DEF Cancelled
<1>2. [live |-> TRUE, etag |-> validator, seen |-> NoRevision] \in ReadsUnderWay
  BY DEF ReadsUnderWay, NoRevision
<1> QED BY <1>1, <1>2 DEF Refetch, StartRead, ViewInv

LEMMA ViewStep == ViewInv /\ [ViewNext]_viewVars => ViewInv' /\ Forward
<1> SUFFICES ASSUME ViewInv, [ViewNext]_viewVars PROVE ViewInv' /\ Forward
  OBVIOUS
<1>1. ASSUME UNCHANGED <<cache, ref>>,
             UNCHANGED ownChange, syncRevision' \in Int, etag' \in Int,
             reads' \in [ReadSlots -> ReadsUnderWay \cup {NoRead}]
      PROVE  ViewInv' /\ Forward
  BY <1>1 DEF ViewInv, Forward
<1>2. etag \in Int /\ NoRevision \in Int
  BY DEF ViewInv, NoRevision
<1>3. CASE UNCHANGED viewVars
  BY <1>3 DEF viewVars, ViewInv, Forward
<1>4. CASE Poll \/ GoOffline \/ ForceRefresh
  <2>1. reads' \in [ReadSlots -> ReadsUnderWay \cup {NoRead}]
    BY <1>2, <1>4, RefetchReads DEF Poll, GoOffline, ForceRefresh
  <2> QED BY <1>1, <1>2, <1>4, <2>1 DEF Poll, GoOffline, ForceRefresh, ViewInv
<1>5. CASE GoOnline
  <2>1. [live |-> TRUE, etag |-> etag, seen |-> NoRevision] \in ReadsUnderWay
    BY <1>2 DEF ReadsUnderWay
  <2>2. reads' \in [ReadSlots -> ReadsUnderWay \cup {NoRead}]
    BY <1>5, <2>1 DEF GoOnline, StartRead, ViewInv
  <2> QED BY <1>1, <1>2, <1>5, <2>2 DEF GoOnline, ViewInv
<1>6. CASE SyncRef
  BY <1>6 DEF SyncRef, ViewInv, Forward
<1>7. CASE PostChange \/ ServePost \/ LosePost \/ OthersChange
  BY <1>7 DEF PostChange, ServePost, LosePost, OthersChange, Unanswered, NoRevision, ViewInv, Forward
<1>8. CASE FinishPost
  <2>1. ownChange.answer \in Int
    BY <1>8 DEF FinishPost, ViewInv
  <2>2. /\ cache' \in Int /\ ref' \in Int /\ cache' >= ref' /\ Forward
    BY <1>8, <2>1 DEF FinishPost, ViewInv, Forward
  <2>3. etag' \in Int /\ reads' \in [ReadSlots -> ReadsUnderWay \cup {NoRead}]
    BY <1>2, <1>8, RefetchReads DEF FinishPost, ViewInv
  <2> QED BY <1>8, <2>2, <2>3 DEF FinishPost, ViewInv
<1>9. CASE \E s \in ReadSlots : ServeRead(s) \/ FinishRead(s) \/ LoseRead(s)
  <2>1. PICK s \in ReadSlots : ServeRead(s) \/ FinishRead(s) \/ LoseRead(s)
    BY <1>9
  <2>2. reads[s] \in ReadsUnderWay
    BY <2>1 DEF ServeRead, FinishRead, LoseRead, Busy, ViewInv
  <2>3. CASE ServeRead(s)
    <3>1. [reads[s] EXCEPT !.seen = syncRevision] \in ReadsUnderWay
      BY <2>2 DEF ReadsUnderWay, ViewInv
    <3>2. reads' \in [ReadSlots -> ReadsUnderWay \cup {NoRead}]
      BY <2>3, <3>1 DEF ServeRead, ViewInv
    <3> QED BY <1>1, <2>3, <3>2 DEF ServeRead, ViewInv
  <2>4. CASE FinishRead(s)
    <3>1. reads[s].seen \in Int
      BY <2>2 DEF ReadsUnderWay
    <3>2. reads' \in [ReadSlots -> ReadsUnderWay \cup {NoRead}]
      BY <2>4 DEF FinishRead, ViewInv
    <3>3. cache' \in Int /\ cache' >= cache
      BY <2>4, <3>1 DEF FinishRead, ShowRead, Later, ViewInv
    <3> QED BY <2>4, <3>1, <3>2, <3>3 DEF FinishRead, ViewInv, Forward
  <2>5. CASE LoseRead(s)
    BY <1>1, <2>5 DEF LoseRead, ViewInv
  <2> QED BY <2>1, <2>3, <2>4, <2>5
<1> QED BY <1>3, <1>4, <1>5, <1>6, <1>7, <1>8, <1>9 DEF ViewNext

\* No answer that comes late, no cancelled read and no missed event takes a page
\* back.
THEOREM NeverGoesBack == ViewSpec => NeverComposesBackwards
<1>1. ViewInv /\ [ViewNext]_viewVars => [ref' >= ref /\ cache' >= ref]_viewVars
  BY ViewStep DEF Forward
<1> QED BY <1>1, ViewStarts, ViewStep, PTL DEF ViewSpec, NeverComposesBackwards

-----------------------------------------------------------------------------
(* The page's changes. *)

\* r was decided, and not accepted: it never takes effect.
Refused(r) == ~Open(r) /\ verdicts[Key(r)].decision.status # "accepted"

\* A page has one pending change at most, and no two pages have the same one.
OneEntry == \A b \in Browsers : \A o, p \in journal[b] : o = p
OwnEntries ==
  \A b, c \in Browsers : \A o \in journal[b], p \in journal[c] : o.request = p.request => b = c

SentOnly ==
  /\ sent \subseteq Asked
  /\ \A b \in Browsers : \A o \in journal[b] : o.request \in sent
  /\ \A e \in wire : e.request \in sent

\* What is being posted is pending; its copy is under way or was handled.
Posting ==
  \A b \in Browsers : ~Idle(b) =>
    /\ \E o \in journal[b] : o.request = post[b].request
    /\ Envelope(b) \in wire \/ ~Open(post[b].request)

\* What a page may give up, and what it gave up, was refused, unless the
\* authority was unavailable for it.
ResolvedRefused ==
  \A b \in Browsers : \A o \in journal[b] :
    o.state = "resolved_conflict" => o.request \in unsure \/ Refused(o.request)
GivenUpRefused == \A r \in givenUp : r \in sent /\ (r \in unsure \/ Refused(r))

Remembered ==
  \A r \in sent : r \in told \/ r \in givenUp \/ \E b \in Browsers : \E o \in journal[b] : o.request = r

BrowserInv ==
  /\ LedgerWell
  /\ journal = [b \in Browsers |-> journal[b]] /\ post = [b \in Browsers |-> post[b]]
  /\ OneEntry /\ OwnEntries /\ SentOnly /\ Posting
  /\ ResolvedRefused /\ GivenUpRefused /\ Remembered

LEMMA BrowserStarts == Init => BrowserInv
<1> SUFFICES ASSUME Init PROVE BrowserInv
  OBVIOUS
<1>1. current \in States \cup {NoState}
  <2>1. ASSUME NEW r \in Asked, r.kind = "workspace_bootstrap"
        PROVE  r.install \in States \cup {NoState}
    BY <2>1, AskedAssumption, RequestsAssumption DEF Requests, Mutations, Undos, Bootstraps
  <2> QED BY <2>1 DEF Init, LedgerInit
<1>2. LedgerWell
  <2>1. ledger = <<>> /\ verdicts = [k \in Keys |-> Undecided]
    BY DEF Init, LedgerInit
  <2> QED BY <1>1, <2>1 DEF LedgerWell, Version
<1>3. \A b \in Browsers : Idle(b)
  BY DEF Init, Idle
<1>4. /\ journal = [b \in Browsers |-> journal[b]] /\ post = [b \in Browsers |-> post[b]]
      /\ \A b \in Browsers : journal[b] = {}
      /\ sent = {} /\ wire = {} /\ givenUp = {}
  BY DEF Init
<1> QED
  BY <1>2, <1>3, <1>4 DEF BrowserInv, OneEntry, OwnEntries, SentOnly, Posting, ResolvedRefused,
     GivenUpRefused, Remembered

\* A request that was asked has a key.
LEMMA AskedKeys == \A r \in Asked : Key(r) \in Keys
<1> SUFFICES ASSUME NEW r \in Asked PROVE Key(r) \in Keys
  OBVIOUS
<1>1. r.kind \in Kinds /\ r.id \in RequestIds
  BY AskedAssumption DEF Requests, Mutations, Undos, Bootstraps, Kinds
<1> QED BY <1>1 DEF Key, Keys

\* What a step of page b sees to, that leaves it the entry J and the exchange P.
Moves(b, J, P) ==
  /\ UNCHANGED ledgerVars
  /\ journal' = [journal EXCEPT ![b] = J] /\ post' = [post EXCEPT ![b] = P]
  /\ sent \subseteq sent' /\ sent' \subseteq Asked /\ told \subseteq told'
  /\ givenUp \subseteq givenUp' /\ unsure \subseteq unsure'
  /\ \A o, p \in J : o = p
  /\ \A o \in J :
        /\ o.request \in sent'
        /\ \A c \in Browsers \ {b} : \A p \in journal[c] : p.request # o.request
        /\ o.state = "resolved_conflict" => o.request \in unsure' \/ Refused(o.request)
  /\ P # NoPost =>
        /\ \E o \in J : o.request = P.request
        /\ [request |-> P.request, copy |-> P.copy] \in wire' \/ ~Open(P.request)
  /\ \A e \in wire' : e.request \in sent'
  /\ \A c \in Browsers \ {b} : ~Idle(c) /\ Envelope(c) \in wire => Envelope(c) \in wire'
  /\ \A r \in sent' : r \in sent \/ \E o \in J : o.request = r
  /\ \A r \in givenUp' : r \in givenUp \/ (r \in sent /\ (r \in unsure \/ Refused(r)))
  /\ \A o \in journal[b] :
        (\E p \in J : p.request = o.request) \/ o.request \in told' \/ o.request \in givenUp'

LEMMA PageMoves ==
  ASSUME BrowserInv, NEW b \in Browsers, NEW J, NEW P, Moves(b, J, P)
  PROVE  BrowserInv'
<1> USE DEF Moves
<1>1. /\ journal'[b] = J /\ \A c \in Browsers \ {b} : journal'[c] = journal[c]
      /\ post'[b] = P /\ \A c \in Browsers \ {b} : post'[c] = post[c]
      /\ journal' = [c \in Browsers |-> journal'[c]] /\ post' = [c \in Browsers |-> post'[c]]
  BY DEF BrowserInv
<1>2. \A r : (Open(r)' <=> Open(r)) /\ (Refused(r)' <=> Refused(r))
  BY DEF ledgerVars, Open, Refused
<1>3. LedgerWell'
  BY DEF BrowserInv, LedgerWell, ledgerVars, Version
<1>4. OneEntry'
  BY <1>1 DEF BrowserInv, OneEntry
<1>5. OwnEntries'
  BY <1>1 DEF BrowserInv, OwnEntries
<1>6. SentOnly'
  <2>1. ASSUME NEW c \in Browsers, NEW o \in journal'[c] PROVE o.request \in sent'
    BY <1>1, <2>1 DEF BrowserInv, SentOnly
  <2> QED BY <2>1 DEF SentOnly
<1>7. Posting'
  <2> SUFFICES ASSUME NEW c \in Browsers, post'[c] # NoPost
               PROVE  /\ \E o \in journal'[c] : o.request = post'[c].request
                      /\ Envelope(c)' \in wire' \/ ~Open(post[c].request)'
    BY DEF Posting, Idle, Envelope
  <2>1. CASE c = b
    BY <1>1, <1>2, <2>1 DEF Envelope
  <2>2. CASE c # b
    <3>1. post[c] = post'[c] /\ journal'[c] = journal[c] /\ ~Idle(c) /\ Envelope(c)' = Envelope(c)
      BY <1>1, <2>2 DEF Idle, Envelope
    <3>2. /\ \E o \in journal[c] : o.request = post[c].request
          /\ Envelope(c) \in wire \/ ~Open(post[c].request)
      BY <3>1 DEF BrowserInv, Posting
    <3> QED BY <1>2, <2>2, <3>1, <3>2
  <2> QED BY <2>1, <2>2
<1>8. ResolvedRefused'
  <2> SUFFICES ASSUME NEW c \in Browsers, NEW o \in journal'[c], o.state = "resolved_conflict"
               PROVE  o.request \in unsure' \/ Refused(o.request)'
    BY DEF ResolvedRefused
  <2>1. CASE c = b
    BY <1>1, <1>2, <2>1
  <2>2. CASE c # b
    BY <1>1, <1>2, <2>2 DEF BrowserInv, ResolvedRefused
  <2> QED BY <2>1, <2>2
<1>9. GivenUpRefused'
  BY <1>2 DEF BrowserInv, GivenUpRefused
<1>10. Remembered'
  <2> SUFFICES ASSUME NEW r \in sent', r \notin told', r \notin givenUp'
               PROVE  \E c \in Browsers : \E o \in journal'[c] : o.request = r
    BY DEF Remembered
  <2>1. CASE \E o \in J : o.request = r
    BY <1>1, <2>1
  <2>2. CASE r \in sent
    <3>1. PICK c \in Browsers : \E o \in journal[c] : o.request = r
      BY <2>2 DEF BrowserInv, Remembered
    <3> QED BY <1>1, <3>1
  <2> QED BY <2>1, <2>2
<1> QED BY <1>1, <1>3, <1>4, <1>5, <1>6, <1>7, <1>8, <1>9, <1>10 DEF BrowserInv

\* What an exchange has to do with the page's entry.
LEMMA PostedEntry ==
  ASSUME BrowserInv, NEW b \in Browsers, ~Idle(b)
  PROVE  /\ post[b].request \in sent
         /\ \A o \in journal[b] : o.request = post[b].request
         /\ \A c \in Browsers \ {b} : \A p \in journal[c] : p.request # post[b].request
         /\ Answered(b) => ~Open(post[b].request)
<1>1. PICK o \in journal[b] : o.request = post[b].request
  BY DEF BrowserInv, Posting
<1> QED BY <1>1 DEF BrowserInv, OneEntry, OwnEntries, SentOnly, Posting, Answered

\* An exchange ends: its change is settled, or kept in a state.
Ends(b, state) ==
  /\ ~Idle(b) /\ EndPost(b)
  /\ UNCHANGED <<ledgerVars, sent>>
  /\ wire' \in {wire, wire \ {Envelope(b)}}
  /\ told \subseteq told' /\ givenUp \subseteq givenUp' /\ unsure \subseteq unsure'
  /\ \/ Settle(b) /\ post[b].request \in told' \cup givenUp'
     \/ /\ Journal(b, post[b].request, state)
        /\ state = "resolved_conflict" =>
              post[b].request \in unsure' \/ Refused(post[b].request)
  /\ \A r \in givenUp' : r \in givenUp \/ (r = post[b].request /\ Refused(r))

LEMMA ExchangeEnds ==
  ASSUME BrowserInv, NEW b \in Browsers, NEW state, Ends(b, state)
  PROVE  BrowserInv'
<1> DEFINE J == IF Settle(b) THEN {} ELSE {[request |-> post[b].request, state |-> state]}
<1>1. journal' = [journal EXCEPT ![b] = J] /\ post' = [post EXCEPT ![b] = NoPost]
  BY DEF Ends, Settle, Journal, EndPost
<1>2. \A o, p \in J : o = p
  OBVIOUS
<1>3. \A o \in J : o.request = post[b].request /\ o.state = state /\ ~Settle(b)
  OBVIOUS
<1>4. \A o \in journal[b] :
         (\E p \in J : p.request = o.request) \/ o.request \in told' \/ o.request \in givenUp'
  <2>1. \A o \in journal[b] : o.request = post[b].request
    BY PostedEntry DEF Ends
  <2>2. ASSUME Settle(b) PROVE post[b].request \in told' \cup givenUp'
    <3>1. ~Journal(b, post[b].request, state)
      <4>1. journal' = [journal EXCEPT ![b] = {}] /\ b \in DOMAIN journal
        BY <2>2 DEF Settle, BrowserInv
      <4>2. journal'[b] = {}
        BY <4>1
      <4> QED BY <4>1, <4>2 DEF Journal
    <3> QED BY <3>1 DEF Ends
  <2>3. ~Settle(b) => \E p \in J : p.request = post[b].request
    OBVIOUS
  <2> QED BY <2>1, <2>2, <2>3
<1> HIDE DEF J
<1>5. \A c \in Browsers \ {b} : ~Idle(c) /\ Envelope(c) \in wire => Envelope(c) \in wire'
  <2> SUFFICES ASSUME NEW c \in Browsers \ {b}, ~Idle(c) PROVE Envelope(c) # Envelope(b)
    BY DEF Ends
  <2>1. PICK p \in journal[c] : p.request = post[c].request
    BY DEF BrowserInv, Posting
  <2>2. post[c].request # post[b].request
    BY <2>1, PostedEntry DEF Ends
  <2> QED BY <2>2 DEF Envelope
<1>6. /\ sent \subseteq Asked /\ \A e \in wire' : e.request \in sent
      /\ post[b].request \in sent
      /\ \A c \in Browsers \ {b} : \A p \in journal[c] : p.request # post[b].request
  BY PostedEntry DEF Ends, BrowserInv, SentOnly
<1>7. \A o \in J :
         /\ o.request \in sent
         /\ \A c \in Browsers \ {b} : \A p \in journal[c] : p.request # o.request
         /\ o.state = "resolved_conflict" => o.request \in unsure' \/ Refused(o.request)
  BY <1>3, <1>6 DEF Ends
<1>8. \A r \in givenUp' : r \in givenUp \/ (r \in sent /\ (r \in unsure \/ Refused(r)))
  BY <1>6 DEF Ends
<1>9. /\ UNCHANGED ledgerVars /\ sent' = sent
      /\ told \subseteq told' /\ givenUp \subseteq givenUp' /\ unsure \subseteq unsure'
  BY DEF Ends
<1>10. Moves(b, J, NoPost)
  BY <1>1, <1>2, <1>4, <1>5, <1>6, <1>7, <1>8, <1>9 DEF Moves
<1> QED BY <1>10, PageMoves

\* A copy of r leaves page b, whose entry J it is then.
Leaves(b, r, attempt, J) ==
  /\ Send(b, r, attempt)
  /\ UNCHANGED <<ledgerVars, told, unsure>> /\ givenUp \subseteq givenUp'
  /\ journal' = [journal EXCEPT ![b] = J]
  /\ J # {} /\ \A o, p \in J : o = p
  /\ \A o \in J :
        /\ o.request = r
        /\ o.state = "resolved_conflict" => o.request \in unsure \/ Refused(o.request)
  /\ \A c \in Browsers \ {b} : \A p \in journal[c] : p.request # r
  /\ \A x \in givenUp' : x \in givenUp \/ (x \in sent /\ (x \in unsure \/ Refused(x)))
  /\ \A o \in journal[b] : o.request = r \/ o.request \in givenUp'

LEMMA CopyLeaves ==
  ASSUME BrowserInv, NEW b \in Browsers, NEW r \in Asked, NEW attempt, NEW J,
         Leaves(b, r, attempt, J)
  PROVE  BrowserInv'
<1> DEFINE copy == Min(Free(r))
           P == [request |-> r, copy |-> copy, attempt |-> attempt]
<1>1. /\ wire' = wire \cup {[request |-> r, copy |-> copy]}
      /\ post' = [post EXCEPT ![b] = P] /\ sent' = sent \cup {r}
  BY DEF Leaves, Send
<1> HIDE DEF copy
<1>2. P.request = r /\ P.copy = copy
  OBVIOUS
<1> HIDE DEF P
<1>3. /\ sent' \subseteq Asked /\ \A e \in wire' : e.request \in sent'
      /\ \A x \in sent' : x \in sent \/ \E o \in J : o.request = x
  BY <1>1 DEF Leaves, BrowserInv, SentOnly
<1>4. \A o \in J :
         /\ o.request \in sent'
         /\ \A c \in Browsers \ {b} : \A p \in journal[c] : p.request # o.request
         /\ o.state = "resolved_conflict" => o.request \in unsure' \/ Refused(o.request)
  BY <1>1 DEF Leaves
<1>5. /\ \E o \in J : o.request = P.request
      /\ [request |-> P.request, copy |-> P.copy] \in wire'
  BY <1>1, <1>2 DEF Leaves
<1>6. \A o \in journal[b] :
         (\E p \in J : p.request = o.request) \/ o.request \in told' \/ o.request \in givenUp'
  BY DEF Leaves
<1>7. /\ sent \subseteq sent' /\ told \subseteq told' /\ unsure \subseteq unsure'
      /\ UNCHANGED ledgerVars
      /\ \A c \in Browsers \ {b} : ~Idle(c) /\ Envelope(c) \in wire => Envelope(c) \in wire'
  BY <1>1 DEF Leaves
<1>8. Moves(b, J, P)
  BY <1>1, <1>3, <1>4, <1>5, <1>6, <1>7 DEF Leaves, Moves
<1> QED BY <1>8, PageMoves

\* A new change, under an ID no page has used.
LEMMA NewChange ==
  ASSUME BrowserInv, NEW b \in Browsers, NEW r \in Asked, Fresh(r),
         Journal(b, r, "prepared"), Send(b, r, 1), UNCHANGED <<ledgerVars, told, unsure>>,
         givenUp \subseteq givenUp',
         \A x \in givenUp' : x \in givenUp \/ (x \in sent /\ (x \in unsure \/ Refused(x))),
         \A o \in journal[b] : o.request \in givenUp'
  PROVE  BrowserInv'
<1> DEFINE J == {[request |-> r, state |-> "prepared"]}
<1>1. /\ J # {} /\ \A o, p \in J : o = p
      /\ \A o \in J : o.request = r /\ o.state # "resolved_conflict"
  OBVIOUS
<1>2. journal' = [journal EXCEPT ![b] = J]
  BY DEF Journal
<1> HIDE DEF J
<1>3. \A c \in Browsers \ {b} : \A p \in journal[c] : p.request # r
  BY DEF Fresh, BrowserInv, SentOnly
<1>4. Leaves(b, r, 1, J)
  BY <1>1, <1>2, <1>3 DEF Leaves
<1> QED BY <1>4, CopyLeaves

\* The entry as it is goes out once more.
LEMMA SameChange ==
  ASSUME BrowserInv, NEW b \in Browsers, NEW entry \in journal[b], NEW attempt \in {1, 2},
         Send(b, entry.request, attempt), UNCHANGED <<ledgerVars, journal, told, givenUp, unsure>>
  PROVE  BrowserInv'
<1>1. journal' = [journal EXCEPT ![b] = journal[b]]
  BY DEF BrowserInv
<1>2. \A o \in journal[b] : o = entry
  BY DEF BrowserInv, OneEntry
<1>3. /\ entry.request \in Asked
      /\ \A c \in Browsers \ {b} : \A p \in journal[c] : p.request # entry.request
  BY DEF BrowserInv, SentOnly, OwnEntries
<1>4. \A o \in journal[b] : o.state = "resolved_conflict" => o.request \in unsure \/ Refused(o.request)
  BY DEF BrowserInv, ResolvedRefused
<1>5. Leaves(b, entry.request, attempt, journal[b])
  BY <1>1, <1>2, <1>3, <1>4 DEF Leaves
<1> QED BY <1>3, <1>5, CopyLeaves

LEMMA ServeKeeps ==
  ASSUME BrowserInv, NEW e \in wire, Serve(e)
  PROVE  BrowserInv'
<1>1. e.request \in Asked /\ sent \subseteq Asked
  BY DEF BrowserInv, SentOnly
<1>2. /\ wire' = wire \ {e} /\ UNCHANGED <<journal, post, sent, told, givenUp, unsure>>
      /\ DecideRequest(e.request) \/ (~Open(e.request) /\ UNCHANGED ledgerVars)
  BY DEF Serve
<1>3. /\ LedgerWell'
      /\ \A r \in Asked : ~Open(r) => ~Open(r)' /\ (Refused(r) => Refused(r)')
      /\ ~Open(e.request)'
  <2>1. CASE DecideRequest(e.request)
    <3>1. /\ LedgerWell' /\ Open(e.request) /\ verdicts'[Key(e.request)] # Undecided
          /\ \A k \in Keys : k # Key(e.request) => verdicts'[k] = verdicts[k]
      BY <1>1, <2>1, DecideStep DEF BrowserInv
    <3>2. \A r \in Asked : ~Open(r) => verdicts'[Key(r)] = verdicts[Key(r)]
      BY <3>1, AskedKeys DEF Open
    <3> QED BY <3>1, <3>2 DEF Open, Refused
  <2>2. CASE ~Open(e.request) /\ UNCHANGED ledgerVars
    BY <2>2 DEF ledgerVars, Open, Refused, BrowserInv, LedgerWell, Version
  <2> QED BY <1>2, <2>1, <2>2
<1>4. Posting'
  <2> SUFFICES ASSUME NEW b \in Browsers, ~Idle(b)
               PROVE  /\ \E o \in journal[b] : o.request = post[b].request
                      /\ Envelope(b) \in wire' \/ ~Open(post[b].request)'
    BY <1>2 DEF Posting, Idle, Envelope
  <2>1. /\ \E o \in journal[b] : o.request = post[b].request
        /\ Envelope(b) \in wire \/ ~Open(post[b].request)
    BY DEF BrowserInv, Posting
  <2>2. post[b].request \in Asked
    BY <1>1, <2>1 DEF BrowserInv, SentOnly
  <2>3. Envelope(b).request = post[b].request
    BY DEF Envelope
  <2> QED BY <1>2, <1>3, <2>1, <2>2, <2>3
<1>5. ResolvedRefused'
  BY <1>1, <1>2, <1>3 DEF BrowserInv, ResolvedRefused, SentOnly, Refused
<1>6. GivenUpRefused'
  BY <1>1, <1>2, <1>3 DEF BrowserInv, GivenUpRefused, SentOnly, Refused
<1>7. SentOnly'
  BY <1>2 DEF BrowserInv, SentOnly
<1> QED BY <1>2, <1>3, <1>4, <1>5, <1>6, <1>7 DEF BrowserInv, OneEntry, OwnEntries, Remembered

LEMMA BrowserStep == BrowserInv /\ [Next]_vars => BrowserInv'
<1> SUFFICES ASSUME BrowserInv, [Next]_vars PROVE BrowserInv'
  OBVIOUS
<1>1. CASE UNCHANGED vars
  BY <1>1 DEF vars, ledgerVars, browserVars, BrowserInv, LedgerWell, Version, OneEntry, OwnEntries,
     SentOnly, Posting, Idle, Envelope, Open, ResolvedRefused, GivenUpRefused, Refused, Remembered
<1>2. CASE \E e \in wire : Serve(e)
  BY <1>2, ServeKeeps
<1> SUFFICES ASSUME NEW b \in Browsers,
        \/ \E r \in Asked : Compose(b, r)
        \/ ReceiveAccepted(b) \/ ReceiveRefusal(b) \/ ReceiveConflictAndRecompose(b)
        \/ ReceiveUnavailable(b) \/ ReceiveUnreadable(b)
        \/ LoseFirst(b) \/ LoseSecond(b) \/ Reload(b)
        \/ \E o \in journal[b] :
              ReplayPending(b, o) \/ Discard(b, o) \/ \E r \in Asked : ReplaceResolved(b, o, r)
             PROVE  BrowserInv'
  BY <1>1, <1>2 DEF Next
<1>3. CASE \E r \in Asked : Compose(b, r)
  <2>1. PICK r \in Asked : Compose(b, r)
    BY <1>3
  <2> QED BY <2>1, NewChange DEF Compose
<1>4. CASE ReceiveAccepted(b)
  <2>1. Ends(b, "prepared")
    BY <1>4 DEF Ends, ReceiveAccepted, Answered
  <2> QED BY <2>1, ExchangeEnds
<1>5. CASE ReceiveRefusal(b)
  <2>1. Refused(post[b].request) /\ ~Idle(b)
    BY <1>5, PostedEntry DEF ReceiveRefusal, Refused, Verdict, Answered
  <2>2. Ends(b, "resolved_conflict")
    BY <1>5, <2>1 DEF Ends, ReceiveRefusal
  <2> QED BY <2>2, ExchangeEnds
<1>6. CASE ReceiveConflictAndRecompose(b)
  <2>1. Refused(post[b].request) /\ ~Idle(b)
    BY <1>6, PostedEntry DEF ReceiveConflictAndRecompose, Refused, Verdict, Answered
  <2>2. Ends(b, "prepared")
    BY <1>6, <2>1 DEF Ends, ReceiveConflictAndRecompose
  <2> QED BY <2>2, ExchangeEnds
<1>7. CASE ReceiveUnavailable(b)
  <2>1. Ends(b, "resolved_conflict")
    BY <1>7 DEF Ends, ReceiveUnavailable
  <2> QED BY <2>1, ExchangeEnds
<1>8. CASE ReceiveUnreadable(b)
  <2>1. Ends(b, "ambiguous")
    BY <1>8 DEF Ends, ReceiveUnreadable
  <2> QED BY <2>1, ExchangeEnds
<1>9. CASE LoseFirst(b)
  <2>1. ~Idle(b)
    BY <1>9 DEF LoseFirst, Idle, NoPost
  <2>2. PICK o \in journal[b] : o.request = post[b].request
    BY <2>1 DEF BrowserInv, Posting
  <2> QED BY <1>9, <2>2, SameChange DEF LoseFirst
<1>10. CASE LoseSecond(b)
  <2>1. ~Idle(b)
    BY <1>10 DEF LoseSecond, Idle, NoPost
  <2>2. Ends(b, "ambiguous")
    BY <1>10, <2>1 DEF Ends, LoseSecond
  <2> QED BY <2>2, ExchangeEnds
<1>11. CASE Reload(b)
  <2>1. UNCHANGED <<ledgerVars, journal, wire, sent, told, givenUp, unsure>> /\ EndPost(b)
    BY <1>11 DEF Reload
  <2>2. /\ journal' = [journal EXCEPT ![b] = journal[b]] /\ post' = [post EXCEPT ![b] = NoPost]
    BY <2>1 DEF BrowserInv, EndPost
  <2>3. \A o, p \in journal[b] : o = p
    BY DEF BrowserInv, OneEntry
  <2>4. \A o \in journal[b] :
           /\ o.request \in sent
           /\ \A c \in Browsers \ {b} : \A p \in journal[c] : p.request # o.request
           /\ o.state = "resolved_conflict" => o.request \in unsure \/ Refused(o.request)
    BY DEF BrowserInv, SentOnly, OwnEntries, ResolvedRefused
  <2>5. sent \subseteq Asked /\ \A e \in wire : e.request \in sent
    BY DEF BrowserInv, SentOnly
  <2>6. Moves(b, journal[b], NoPost)
    BY <2>1, <2>2, <2>3, <2>4, <2>5 DEF Moves
  <2> QED BY <2>6, PageMoves
<1>12. CASE \E o \in journal[b] : ReplayPending(b, o)
  BY <1>12, SameChange DEF ReplayPending
<1>13. CASE \E o \in journal[b] : Discard(b, o) \/ \E r \in Asked : ReplaceResolved(b, o, r)
  <2>1. PICK o \in journal[b] : Discard(b, o) \/ \E r \in Asked : ReplaceResolved(b, o, r)
    BY <1>13
  <2>2. /\ givenUp' = givenUp \cup {o.request} /\ o.state = "resolved_conflict"
        /\ UNCHANGED <<ledgerVars, told, unsure>> /\ Idle(b)
    BY <2>1 DEF Discard, ReplaceResolved
  <2>3. /\ o.request \in sent /\ (o.request \in unsure \/ Refused(o.request))
        /\ \A p \in journal[b] : p = o
    BY <2>2 DEF BrowserInv, SentOnly, ResolvedRefused, OneEntry
  <2>4. /\ \A x \in givenUp' : x \in givenUp \/ (x \in sent /\ (x \in unsure \/ Refused(x)))
        /\ \A p \in journal[b] : p.request \in givenUp'
    BY <2>2, <2>3
  <2>5. CASE \E r \in Asked : ReplaceResolved(b, o, r)
    <3>1. PICK r \in Asked : ReplaceResolved(b, o, r)
      BY <2>5
    <3> QED BY <2>2, <2>4, <3>1, NewChange DEF ReplaceResolved
  <2>6. CASE Discard(b, o)
    <3>1. /\ journal' = [journal EXCEPT ![b] = {}] /\ UNCHANGED <<post, wire, sent>>
      BY <2>6 DEF Discard, Settle
    <3>2. post' = [post EXCEPT ![b] = NoPost]
      BY <2>2, <3>1 DEF BrowserInv, Idle
    <3>3. sent \subseteq Asked /\ \A e \in wire : e.request \in sent
      BY DEF BrowserInv, SentOnly
    <3>4. Moves(b, {}, NoPost)
      BY <2>2, <2>4, <3>1, <3>2, <3>3 DEF Moves
    <3> QED BY <3>4, PageMoves
  <2> QED BY <2>1, <2>5, <2>6
<1> QED BY <1>3, <1>4, <1>5, <1>6, <1>7, <1>8, <1>9, <1>10, <1>11, <1>12, <1>13

\* Whatever copies come late, twice or never, and however pages are reloaded:
\* what a page gave up after the authority refused it never takes effect, and
\* what took effect is known to have or still pending.
THEOREM ChangesAlwaysAccounted == Spec => []ChangesAccounted
<1>1. BrowserInv => ChangesAccounted
  <2> SUFFICES ASSUME BrowserInv PROVE ChangesAccounted
    OBVIOUS
  <2>1. \A r : TookEffect(r) => ~Refused(r)
    <3> SUFFICES ASSUME NEW i \in 1..Version PROVE ~Refused(ledger[i].request)
      BY DEF TookEffect, BrowserInv, LedgerWell, Version
    <3>1. verdicts[Key(ledger[i].request)] = Ruling(ledger[i].request, Accepted(i))
      BY DEF BrowserInv, LedgerWell
    <3> QED BY <3>1 DEF Refused, Ruling, Accepted
  <2>2. RefusedHadNoEffect
    BY <2>1 DEF RefusedHadNoEffect, BrowserInv, GivenUpRefused
  <2>3. NothingForgotten
    <3> SUFFICES ASSUME NEW r \in sent, r \notin told, r \notin givenUp
                 PROVE  r \in UNION {Pending(b) : b \in Browsers}
      BY DEF NothingForgotten
    <3>1. PICK b \in Browsers : \E o \in journal[b] : o.request = r
      BY DEF BrowserInv, Remembered
    <3>2. r \in Pending(b)
      BY <3>1 DEF Pending
    <3> QED BY <3>2
  <2> QED BY <2>2, <2>3 DEF ChangesAccounted
<1> QED BY <1>1, BrowserStarts, BrowserStep, PTL DEF Spec
=============================================================================
