------------------------- MODULE CodexThreadsProofs -------------------------
(***************************************************************************)
(* Proofs about the conversations with Codex, for any number of threads,   *)
(* requests, calls, failures and receipts.                                 *)
(*                                                                         *)
(* A message is written once because a thread never has two of them on the *)
(* wire: the admission that fences the thread outlives the call, whatever  *)
(* becomes of the call, and is only ended by what proves that the call is  *)
(* over: the history holds the message, the thread is gone for good, or    *)
(* the app-server refused.                                                 *)
(***************************************************************************)
EXTENDS CodexThreads, FiniteSetTheorems, TLAPS

Kinds == {"send", "new", "select", "archive", "read", "list"}
Statuses == {"absent", "blank", "stranded", "listed", "archived"}
Fresh == [id : {"fresh"}, base : Nat]
Operation == [kind : Kinds, request : Requests \cup Fresh, thread : 0..MaxThreads, stage : Stages,
              call : Nat, turn : Nat, ambiguous : BOOLEAN]
Starting == [request : News, before : SUBSET Threads]
Admission == [request : Sends, turn : Nat]
Told == [request : Requests, thread : Nat, turn : Nat]
Probes == [thread : Nat, revision : Nat, missing : BOOLEAN]
Written == [thread : Threads, client : {s.client : s \in Sends}, turn : Nat, call : Nat]
CallRecords == [call : Nat, kind : {"start", "steer", "thread"}, request : Requests,
                turn : Nat, done : Nat, live : BOOLEAN]

Typed ==
  /\ selection \in [thread : Nat, revision : Nat]
  /\ starting \in {None} \cup Starting
  /\ admitted \in [Threads -> {None} \cup Admission]
  /\ receipts \in Seq(Told)
  /\ op \in {Idle} \cup Operation
  /\ listing \in {None} \cup Probes
  /\ status \in [Threads -> Statuses]
  /\ active \in [Threads -> Nat]
  /\ history \subseteq Written
  /\ wire \subseteq CallRecords
  /\ calls \in Nat
  /\ answered \subseteq Told

IsMessage(e) == e.kind # "thread"
Holds(t, request) == admitted[t] # None /\ admitted[t].request = request
InHistory(t, client) == \E m \in history : m.thread = t /\ m.client = client

\* What the operation that holds the lock relies on at each of its stages.
OpSound(o) ==
  o # Idle =>
    /\ o.kind = "send" => o.request \in Sends /\ o.thread = o.request.thread
    /\ o.kind = "new" => o.request \in News /\ o.thread = NoThread
    /\ o.kind = "archive" => o.thread \in Threads
    /\ o.stage = "act" /\ o.thread # NoThread => admitted[o.thread] = None
    /\ o.stage \in {"admitted", "called"} => o.kind \in {"send", "new"}
    /\ o.stage \in {"admitted", "called", "accepted"} /\ o.kind = "send" => Holds(o.thread, o.request)
    /\ o.stage = "admitted" /\ o.kind = "send" =>
         /\ status[o.thread] \in {"blank", "stranded", "listed"}
         /\ ~InHistory(o.thread, o.request.client)
         /\ \A e \in wire : IsMessage(e) => e.request.thread # o.thread
    /\ o.stage = "called" =>
         \A e \in wire : e.call = o.call => e.request = o.request /\ (IsMessage(e) <=> o.kind = "send")

\* A call for a message: its thread is fenced by it, or is only known to an app-server that is gone.
CallsFenced ==
  \A e \in wire : IsMessage(e) =>
    /\ e.request \in Sends
    /\ status[e.request.thread] \in {"blank", "stranded", "listed"}
    /\ status[e.request.thread] # "stranded" => Holds(e.request.thread, e.request)
OneCall ==
  \A e, f \in wire : IsMessage(e) /\ IsMessage(f) /\ e.request.thread = f.request.thread => e = f
Unwritten == \A e \in wire : IsMessage(e) => ~InHistory(e.request.thread, e.request.client)
HistoryListed == \A m \in history : status[m.thread] \in {"listed", "archived"}
AdmittedFits == \A t \in Threads : admitted[t] # None => admitted[t].request.thread = t
CallsCounted == \A e \in wire : e.call <= calls
BornInOrder == \E k \in 0..MaxThreads : \A t \in Threads : status[t] # "absent" <=> t <= k

FenceInv ==
  /\ Typed /\ OpSound(op)
  /\ CallsFenced /\ OneCall /\ Unwritten /\ HistoryListed
  /\ AdmittedFits /\ CallsCounted /\ BornInOrder
  /\ LandsOnce

\* A new conversation is started under its admission.
StartedUnderAdmission ==
  op # Idle /\ op.kind = "new" /\ op.stage \in {"admitted", "called"} => starting # None

\* A receipt of a message names one of the history.
Truthful(a) ==
  a.request \in Sends =>
    \E m \in history : m.thread = a.thread /\ m.client = a.request.client /\ m.turn = a.turn
ToldInv ==
  /\ \A a \in answered : Truthful(a)
  /\ \A i \in DOMAIN receipts : Truthful(receipts[i])

\* What a list probes is still selected unless the selection has moved on.
ListInv ==
  listing # None =>
    /\ listing.revision <= selection.revision
    /\ listing.revision = selection.revision => listing.thread = selection.thread

-----------------------------------------------------------------------------
(* Records and constants. *)

LEMMA Constants ==
  /\ MaxThreads \in Nat /\ MaxCalls \in Nat /\ MaxRevision \in Nat
  /\ \A s \in Sends : s.thread \in Threads /\ s \in Requests
  /\ \A n \in News : n \in Requests /\ n \notin Sends
  /\ \A s \in Sends, n \in News : s.id # n.id
  /\ NoThread \notin Threads /\ Threads \subseteq Nat
  BY CodexAssumption DEF Threads, Requests, NoThread

LEMMA Apart ==
  /\ \A o \in Operation : o # Idle
  /\ \A a \in Admission : a # None
  /\ \A l \in Probes : l # None
  /\ \A b \in Starting : b # None
  BY DEF Operation, Idle, Admission, None, Probes, Starting

\* The operation goes from one stage to another.
LEMMA StageFields ==
  ASSUME NEW o \in Operation, NEW stage \in Stages
  PROVE  /\ [o EXCEPT !.stage = stage] \in Operation
         /\ [o EXCEPT !.stage = stage].stage = stage
         /\ [o EXCEPT !.stage = stage].kind = o.kind
         /\ [o EXCEPT !.stage = stage].request = o.request
         /\ [o EXCEPT !.stage = stage].thread = o.thread
         /\ [o EXCEPT !.stage = stage].call = o.call
         /\ [o EXCEPT !.stage = stage].turn = o.turn
  BY DEF Operation

\* An operation is idle, at its first stages, or where it was, and holds no more than it did.
LEMMA EarlyIsSound ==
  ASSUME NEW o \in Operation, o.stage \in {"start", "turn", "archived"},
         o.kind = "send" => o.request \in Sends /\ o.thread = o.request.thread,
         o.kind = "new" => o.request \in News /\ o.thread = NoThread,
         o.kind = "archive" => o.thread \in Threads
  PROVE  OpSound(o)
  BY DEF OpSound

LEMMA IdleIsSound == OpSound(Idle)
  BY DEF OpSound

\* Nothing that the fence is about changes.
LEMMA FenceCalm ==
  ASSUME FenceInv, UNCHANGED <<admitted, wire, history, status, active, calls>>,
         NEW o, op' = o, o \in {Idle} \cup Operation, OpSound(o),
         selection' \in [thread : Nat, revision : Nat], starting' \in {None} \cup Starting,
         receipts' \in Seq(Told), answered' \subseteq Told, listing' \in {None} \cup Probes
  PROVE  FenceInv'
<1>1. Typed'
  BY DEF FenceInv, Typed
<1>2. OpSound(op)'
  BY DEF OpSound, Holds, InHistory, IsMessage
<1>3. CallsFenced' /\ OneCall' /\ Unwritten' /\ HistoryListed'
  BY DEF FenceInv, CallsFenced, OneCall, Unwritten, HistoryListed, Holds, InHistory, IsMessage
<1>4. AdmittedFits' /\ CallsCounted' /\ BornInOrder' /\ LandsOnce'
  BY DEF FenceInv, AdmittedFits, CallsCounted, BornInOrder, LandsOnce
<1> QED
  BY <1>1, <1>2, <1>3, <1>4 DEF FenceInv

\* The operation ends, or something else happens beside it.
LEMMA FenceRests ==
  ASSUME FenceInv, UNCHANGED <<admitted, wire, history, status, active, calls>>, op' \in {op, Idle},
         selection' \in [thread : Nat, revision : Nat], starting' \in {None} \cup Starting,
         receipts' \in Seq(Told), answered' \subseteq Told, listing' \in {None} \cup Probes
  PROVE  FenceInv'
<1>1. op \in {Idle} \cup Operation /\ OpSound(op)
  BY DEF FenceInv, Typed
<1> QED
  BY <1>1, IdleIsSound, FenceCalm

\* A settled request gets a receipt, and the oldest one may go.
LEMMA ReceiptsTyped ==
  ASSUME receipts \in Seq(Told), NEW r \in Requests, NEW thread \in Nat, NEW turn \in Nat,
         Settle(r, thread, turn)
  PROVE  receipts' \in Seq(Told)
<1> DEFINE a == [request |-> r, thread |-> thread, turn |-> turn]
           longer == Append(receipts, a)
<1>1. a \in Told
  BY DEF Told
<1> HIDE DEF a
<1>2. longer \in Seq(Told) /\ Len(longer) = Len(receipts) + 1
  BY <1>1
<1>3. receipts' = Prune(longer)
  BY DEF Settle, a
<1> HIDE DEF longer
<1>4. Tail(longer) \in Seq(Told)
  <2>1. longer # <<>>
    BY <1>2, Len(receipts) \in Nat
  <2> QED
    BY <1>2, <2>1
<1> QED
  BY <1>2, <1>3, <1>4 DEF Prune

-----------------------------------------------------------------------------
(* The steps that leave the fence alone. *)

LEMMA EndIdles ==
  ASSUME NEW s, End(s) PROVE op' = Idle
  BY DEF End

\* What is refused, or fails before its call.
LEMMA RefusalsKeepFence ==
  ASSUME FenceInv,
         \/ \E r \in Requests : RefuseReuse(r)
         \/ \E i \in Ids : Evict(i)
         \/ HistoryDisagrees \/ Unavailable \/ RefuseSend \/ RefuseKnownMessage \/ GiveUp \/ RefuseNew \/ RefuseMove
  PROVE  FenceInv'
<1>1. op' \in {op, Idle}
  BY DEF RefuseReuse, Evict, HistoryDisagrees, Unavailable, RefuseSend, RefuseKnownMessage, GiveUp,
     RefuseNew, RefuseMove, End
<1>2. UNCHANGED <<store, listing, native, wire, bounds, answered>>
  BY DEF RefuseReuse, Evict, HistoryDisagrees, Unavailable, RefuseSend, RefuseKnownMessage, GiveUp,
     RefuseNew, RefuseMove
<1>3. Typed
  BY DEF FenceInv
<1> QED
  BY <1>1, <1>2, <1>3, FenceRests DEF Typed, store, native, bounds

\* An answer from a receipt.
LEMMA ReplaysKeepFence ==
  ASSUME FenceInv, (\E r \in Requests : ReplayReceipt(r)) \/ AnswerReconciled
  PROVE  FenceInv'
<1>1. op' \in {op, Idle} /\ UNCHANGED <<store, listing, native, wire, bounds>>
  BY DEF ReplayReceipt, AnswerReconciled, End
<1>2. Typed
  BY DEF FenceInv
<1>3. PICK r : \E receipt \in Settled(r) : Answer(r, receipt.thread, receipt.turn)
  BY DEF ReplayReceipt, AnswerReconciled
<1>4. PICK receipt \in Settled(r) : Answer(r, receipt.thread, receipt.turn)
  BY <1>3
<1>5. receipt \in Told /\ receipt.request = r
  BY <1>2, <1>4 DEF Settled, Typed
<1>6. answered' \subseteq Told
  BY <1>2, <1>4, <1>5 DEF Answer, Typed, Told
<1> QED
  BY <1>1, <1>2, <1>6, FenceRests DEF Typed, store, native, bounds

\* The selection moves.
LEMMA MovesKeepFence ==
  ASSUME FenceInv,
         SetSelection \/ DeselectArchived \/ SelectDefault \/ ListMisses \/ ProbeSelected \/ ClearMissingSelection
  PROVE  FenceInv'
<1>1. Typed
  BY DEF FenceInv
<1>2. op' \in {op, Idle} /\ UNCHANGED <<admitted, receipts, native, wire, bounds, answered>>
  BY DEF SetSelection, DeselectArchived, SelectDefault, ListMisses, ProbeSelected, ClearMissingSelection, End,
     store, memory
<1>3. starting' \in {starting, None}
  BY DEF SetSelection, DeselectArchived, SelectDefault, ListMisses, ProbeSelected, ClearMissingSelection, store
<1>4. ASSUME NEW revision, NEW t \in Nat, Point(revision, t)
      PROVE  selection' \in [thread : Nat, revision : Nat]
  BY <1>1, <1>4 DEF Point, Typed
<1>5. selection' \in [thread : Nat, revision : Nat]
  <2>1. CASE SetSelection
    <3>1. op \in Operation
      BY <2>1, <1>1 DEF SetSelection, At, Typed
    <3>2. op.thread \in Nat
      BY <3>1, Constants DEF Operation
    <3> QED
      BY <2>1, <3>2, <1>4 DEF SetSelection
  <2>2. CASE DeselectArchived
    <3>1. (IF selection.thread = op.thread THEN NoThread ELSE selection.thread) \in Nat
      BY <1>1 DEF Typed, NoThread
    <3> QED
      BY <2>2, <3>1, <1>4 DEF DeselectArchived
  <2>3. CASE SelectDefault
    BY <2>3, <1>4, Constants DEF SelectDefault, Listed
  <2>4. CASE ListMisses \/ ProbeSelected
    BY <2>4, <1>1 DEF ListMisses, ProbeSelected, store, Typed
  <2>5. CASE ClearMissingSelection
    <3>1. NoThread \in Nat
      BY DEF NoThread
    <3> QED
      BY <2>5, <3>1, <1>4, <1>1 DEF ClearMissingSelection, Typed
  <2> QED
    BY <2>1, <2>2, <2>3, <2>4, <2>5
<1>6. listing' \in {None} \cup Probes
  <2>1. CASE SetSelection \/ DeselectArchived \/ SelectDefault
    BY <2>1, <1>1 DEF SetSelection, DeselectArchived, SelectDefault, memory, Typed
  <2>2. CASE ListMisses
    BY <2>2, <1>1 DEF ListMisses, Typed, Probes
  <2>3. CASE ProbeSelected
    <3>1. listing \in Probes /\ listing' \in {[listing EXCEPT !.missing = TRUE], None}
      BY <2>3, <1>1 DEF ProbeSelected, Typed
    <3> QED
      BY <3>1 DEF Probes
  <2>4. CASE ClearMissingSelection
    BY <2>4 DEF ClearMissingSelection
  <2> QED
    BY <2>1, <2>2, <2>3, <2>4
<1> QED
  BY <1>1, <1>2, <1>3, <1>5, <1>6, FenceRests DEF Typed, native, bounds

\* An operation takes the lock.
LEMMA EntersKeepFence ==
  ASSUME FenceInv,
         \/ \E r \in Sends : SubmitSend(r)
         \/ \E r \in News : SubmitNew(r)
         \/ \E t \in Threads : Select(t) \/ Archive(t) \/ Read(t)
         \/ Select(NoThread) \/ List
  PROVE  FenceInv'
<1>1. Typed
  BY DEF FenceInv
<1>2. UNCHANGED <<store, listing, native, wire, bounds, answered>>
  BY DEF SubmitSend, SubmitNew, Submit, Select, Archive, Read, List, Start
<1>3. ASSUME NEW kind \in Kinds, NEW request \in Requests \cup Fresh, NEW t \in 0..MaxThreads,
             NEW stage \in {"start", "turn"}, Enter(kind, request, t, stage),
             kind = "send" => request \in Sends /\ t = request.thread,
             kind = "new" => request \in News /\ t = NoThread,
             kind = "archive" => t \in Threads
      PROVE  FenceInv'
  <2> DEFINE o == [kind |-> kind, request |-> request, thread |-> t, stage |-> stage,
                   call |-> 0, turn |-> NoTurn, ambiguous |-> FALSE]
  <2>1. o \in Operation
    BY DEF Operation, NoTurn, Stages
  <2>2. OpSound(o)
    <3>1. o.stage \in {"start", "turn", "archived"} /\ o.kind = kind /\ o.request = request /\ o.thread = t
      OBVIOUS
    <3> HIDE DEF o
    <3> QED
      BY <2>1, <3>1, <1>3, EarlyIsSound
  <2>3. op' = o
    BY <1>3 DEF Enter
  <2> HIDE DEF o
  <2> QED
    BY <2>1, <2>2, <2>3, <1>1, <1>2, FenceCalm DEF Typed, store, native, bounds
<1>4. [id |-> "fresh", base |-> selection.revision] \in Fresh
  BY <1>1 DEF Typed, Fresh
<1>5. CASE \E r \in Sends : SubmitSend(r)
  <2>1. PICK r \in Sends : Enter("send", r, r.thread, "start")
    BY <1>5 DEF SubmitSend, Submit
  <2>2. r \in Requests /\ r.thread \in 0..MaxThreads
    BY Constants DEF Threads
  <2> QED
    BY <2>1, <2>2, <1>3 DEF Kinds
<1>6. CASE \E r \in News : SubmitNew(r)
  <2>1. PICK r \in News : Enter("new", r, NoThread, "start")
    BY <1>6 DEF SubmitNew, Submit
  <2>2. r \in Requests /\ NoThread \in 0..MaxThreads
    BY Constants DEF NoThread
  <2> QED
    BY <2>1, <2>2, <1>3 DEF Kinds
<1>7. CASE (\E t \in Threads : Select(t) \/ Archive(t) \/ Read(t)) \/ Select(NoThread) \/ List
  <2> DEFINE fresh == [id |-> "fresh", base |-> selection.revision]
  <2>1. PICK t \in Threads \cup {NoThread}, kind \in {"select", "archive", "read", "list"}, stage \in {"start", "turn"} :
          Enter(kind, fresh, t, stage) /\ (kind = "archive" => t \in Threads)
    BY <1>7 DEF Select, Archive, Read, List, Start
  <2>2. t \in 0..MaxThreads /\ kind \in Kinds
    BY Constants DEF Threads, NoThread, Kinds
  <2> HIDE DEF fresh
  <2> QED
    BY <2>1, <2>2, <1>3, <1>4 DEF fresh
<1> QED
  BY <1>5, <1>6, <1>7

-----------------------------------------------------------------------------
(* Reconciliation. *)

\* The operation goes on to a stage that needs nothing of the fence but a thread without admission.
LEMMA GoesOn ==
  ASSUME FenceInv, op \in Operation, NEW o \in Operation,
         o.kind = op.kind, o.request = op.request, o.thread = op.thread,
         \/ o.stage \in {"turn", "archived"}
         \/ o.stage = "act" /\ (o.thread # NoThread => admitted[o.thread] = None)
  PROVE  OpSound(o)
<1>1. OpSound(op) /\ op # Idle
  BY Apart DEF FenceInv
<1> QED
  BY <1>1 DEF OpSound

LEMMA StartsKeepFence ==
  ASSUME FenceInv, NothingStarting \/ ClearStart \/ PublishCandidate \/ AmbiguousStart
  PROVE  FenceInv'
<1>1. Typed
  BY DEF FenceInv
<1>2. op \in Operation
  BY <1>1 DEF NothingStarting, ClearStart, PublishCandidate, AmbiguousStart, At, Typed
<1>3. UNCHANGED <<admitted, listing, native, wire, bounds>>
  BY DEF NothingStarting, ClearStart, PublishCandidate, AmbiguousStart, store
<1>4. PICK o : op' = o /\ (o = Idle \/ (o \in Operation /\ OpSound(o)))
  <2>1. CASE op' = Idle
    BY <2>1
  <2>2. CASE op' = [op EXCEPT !.stage = "turn"]
    <3> DEFINE o == [op EXCEPT !.stage = "turn"]
    <3>1. o \in Operation /\ o.kind = op.kind /\ o.request = op.request /\ o.thread = op.thread /\ o.stage = "turn"
      BY <1>2, StageFields DEF Stages
    <3> HIDE DEF o
    <3>2. OpSound(o)
      BY <1>2, <3>1, GoesOn
    <3> QED
      BY <3>1, <3>2, <2>2 DEF o
  <2>3. CASE op' = [op EXCEPT !.stage = "turn", !.ambiguous = TRUE]
    <3> DEFINE p == [op EXCEPT !.stage = "turn"]
               o == [p EXCEPT !.ambiguous = TRUE]
    <3>1. p \in Operation /\ p.kind = op.kind /\ p.request = op.request /\ p.thread = op.thread /\ p.stage = "turn"
      BY <1>2, StageFields DEF Stages
    <3> HIDE DEF p
    <3>2. o \in Operation /\ o.kind = op.kind /\ o.request = op.request /\ o.thread = op.thread /\ o.stage = "turn"
      BY <3>1 DEF Operation
    <3>3. op' = o
      BY <2>3 DEF p
    <3> HIDE DEF o
    <3>4. OpSound(o)
      BY <1>2, <3>2, GoesOn
    <3> QED
      BY <3>2, <3>3, <3>4
  <2> QED
    BY <2>1, <2>2, <2>3
    DEF NothingStarting, ClearStart, PublishCandidate, AmbiguousStart, StartReconciled, End, Goto
<1>5. /\ selection' \in [thread : Nat, revision : Nat] /\ starting' \in {None} \cup Starting
      /\ receipts' \in Seq(Told) /\ answered' \subseteq Told
  <2>1. CASE NothingStarting \/ ClearStart \/ AmbiguousStart
    BY <2>1, <1>1 DEF NothingStarting, ClearStart, AmbiguousStart, store, Typed
  <2>2. CASE PublishCandidate
    <3>1. PICK t \in Threads :
            /\ Publish(t)
            /\ \/ starting.request = op.request /\ Answer(op.request, t, NoTurn)
               \/ answered' = answered
      BY <2>2 DEF PublishCandidate
    <3>2. t \in Nat /\ NoTurn \in Nat /\ starting.request \in Requests
      BY <2>2, <1>1, Constants DEF PublishCandidate, Typed, Starting, NoTurn
    <3>3. receipts' \in Seq(Told)
      BY <1>1, <3>1, <3>2, ReceiptsTyped DEF Publish, Typed
    <3>4. answered' \subseteq Told
      BY <1>1, <3>1, <3>2 DEF Answer, Typed, Told
    <3> QED
      BY <3>1, <3>2, <3>3, <3>4, <1>1 DEF Publish, Typed
  <2> QED
    BY <2>1, <2>2
<1> QED
  BY <1>1, <1>3, <1>4, <1>5, IdleIsSound, FenceCalm DEF Typed, native, bounds

\* The admission of a thread ends when no call for one of its messages can count on it.
LEMMA FenceFrees ==
  ASSUME FenceInv, NEW t \in Threads, Clear(t), UNCHANGED <<history, status, active, calls>>, wire' \subseteq wire,
         \A e \in wire' : IsMessage(e) /\ e.request.thread = t => status[t] = "stranded",
         NEW o, op' = o,
         \/ o = Idle
         \/ /\ o \in Operation /\ OpSound(op) /\ op \in Operation
            /\ o.stage = "act" /\ o.kind = op.kind /\ o.request = op.request
            /\ o.thread = op.thread /\ o.thread = t,
         UNCHANGED <<selection, starting, listing>>, receipts' \in Seq(Told), answered' \subseteq Told
  PROVE  FenceInv'
<1>1. Typed
  BY DEF FenceInv
<1>2. admitted' \in [Threads -> {None} \cup Admission] /\ admitted'[t] = None
      /\ \A u \in Threads \ {t} : admitted'[u] = admitted[u]
  BY <1>1 DEF Clear, Typed
<1>3. Typed'
  BY <1>1, <1>2 DEF Typed
<1>4. OpSound(op)'
  BY <1>2, Apart DEF OpSound
<1>5. CallsFenced'
  <2> SUFFICES ASSUME NEW e \in wire', IsMessage(e)
               PROVE  /\ e.request \in Sends
                      /\ status[e.request.thread] \in {"blank", "stranded", "listed"}
                      /\ status[e.request.thread] # "stranded" => Holds(e.request.thread, e.request)'
    BY DEF CallsFenced, IsMessage, Holds
  <2>1. e \in wire /\ e.request \in Sends /\ status[e.request.thread] \in {"blank", "stranded", "listed"}
        /\ (status[e.request.thread] # "stranded" => Holds(e.request.thread, e.request))
    BY DEF FenceInv, CallsFenced
  <2>2. e.request.thread \in Threads
    BY <2>1, Constants
  <2> QED
    BY <2>1, <2>2, <1>2 DEF Holds
<1>6. OneCall' /\ Unwritten' /\ HistoryListed' /\ CallsCounted' /\ BornInOrder' /\ LandsOnce'
  BY DEF FenceInv, OneCall, Unwritten, HistoryListed, CallsCounted, BornInOrder, LandsOnce, InHistory, IsMessage
<1>7. AdmittedFits'
  BY <1>2 DEF FenceInv, AdmittedFits
<1> QED
  BY <1>3, <1>4, <1>5, <1>6, <1>7 DEF FenceInv

LEMMA TurnsKeepFence ==
  ASSUME FenceInv, NothingAdmitted \/ CompleteAdmission \/ ClearAdmission
  PROVE  FenceInv'
<1>1. Typed /\ OpSound(op)
  BY DEF FenceInv
<1>2. op \in Operation /\ op # Idle
  BY <1>1 DEF NothingAdmitted, CompleteAdmission, ClearAdmission, At, Typed
<1>3. UNCHANGED <<selection, starting, listing, native, wire, bounds, answered>>
  BY DEF NothingAdmitted, CompleteAdmission, ClearAdmission, store
<1>4. PICK o : /\ op' = o
               /\ \/ o = Idle
                  \/ o \in Operation /\ o.stage = "act" /\ o.kind = op.kind /\ o.request = op.request
                     /\ o.thread = op.thread
  <2>1. op' = Idle \/ op' = [op EXCEPT !.stage = "act"]
    BY DEF NothingAdmitted, CompleteAdmission, ClearAdmission, TurnReconciled, End, Goto
  <2> DEFINE next == [op EXCEPT !.stage = "act"]
  <2>2. next \in Operation /\ next.stage = "act" /\ next.kind = op.kind /\ next.request = op.request
        /\ next.thread = op.thread
    BY <1>2, StageFields DEF Stages
  <2>3. op' = Idle \/ op' = next
    BY <2>1
  <2> HIDE DEF next
  <2> QED
    BY <2>2, <2>3
<1>5. CASE NothingAdmitted
  <2>1. Pending = None /\ UNCHANGED <<admitted, receipts>>
    BY <1>5 DEF NothingAdmitted, store
  <2>2. o = Idle \/ OpSound(o)
    BY <2>1, <1>2, <1>4, GoesOn DEF Pending
  <2> QED
    BY <1>1, <1>3, <1>4, <2>1, <2>2, IdleIsSound, FenceCalm DEF Typed, native, bounds
<1>6. CASE CompleteAdmission \/ ClearAdmission
  <2>1. op.thread # NoThread /\ Pending = admitted[op.thread] /\ admitted[op.thread] # None /\ Clear(op.thread)
    BY <1>6 DEF CompleteAdmission, ClearAdmission, Pending
  <2>2. op.thread \in Threads /\ op.thread \in Nat
    BY <1>2, <2>1 DEF Operation, Threads, NoThread
  <2>3. admitted[op.thread] \in Admission
    BY <1>1, <2>1, <2>2 DEF Typed
  <2>4. admitted[op.thread].request \in Requests
    BY <2>3, Constants DEF Admission
  <2>5. receipts' \in Seq(Told)
    <3>1. CASE CompleteAdmission
      <4>1. PICK m \in history : Settle(admitted[op.thread].request, op.thread, m.turn)
        BY <3>1, <2>1 DEF CompleteAdmission, Confirms
      <4>2. m.turn \in Nat
        BY <1>1 DEF Typed, Written
      <4> QED
        BY <1>1, <2>2, <2>4, <4>1, <4>2, ReceiptsTyped DEF Typed
    <3>2. CASE ClearAdmission
      BY <3>2, <1>1 DEF ClearAdmission, Typed
    <3> QED
      BY <1>6, <3>1, <3>2
  <2>6. ASSUME NEW e \in wire, IsMessage(e), e.request.thread = op.thread PROVE status[op.thread] = "stranded"
    <3>1. status[op.thread] \in {"blank", "stranded", "listed"}
          /\ (status[op.thread] # "stranded" => admitted[op.thread].request = e.request)
          /\ ~InHistory(op.thread, e.request.client)
      BY <2>6 DEF FenceInv, CallsFenced, Holds, Unwritten
    <3>2. CASE CompleteAdmission
      <4>1. PICK m \in history : Mappings(op.thread, admitted[op.thread].request.client) = {m}
        BY <3>2, <2>1 DEF CompleteAdmission, Confirms
      <4>2. InHistory(op.thread, admitted[op.thread].request.client)
        BY <4>1 DEF Mappings, InHistory
      <4> QED
        BY <3>1, <4>2
    <3>3. CASE ClearAdmission
      BY <3>3, <3>1 DEF ClearAdmission, Missing
    <3> QED
      BY <1>6, <3>2, <3>3
  <2>7. wire' \subseteq wire /\ answered' \subseteq Told
        /\ UNCHANGED <<history, status, active, calls, wire>> /\ UNCHANGED <<selection, starting, listing>>
    BY <1>1, <1>3 DEF Typed, native, bounds
  <2>8. \A e \in wire' : IsMessage(e) /\ e.request.thread = op.thread => status[op.thread] = "stranded"
    BY <2>6, <2>7
  <2>9. /\ op' = o
        /\ \/ o = Idle
           \/ /\ o \in Operation /\ OpSound(op) /\ op \in Operation
              /\ o.stage = "act" /\ o.kind = op.kind /\ o.request = op.request /\ o.thread = op.thread
    BY <1>1, <1>2, <1>4
  <2> QED
    BY <2>1, <2>2, <2>5, <2>7, <2>8, <2>9, FenceFrees
<1> QED
  BY <1>5, <1>6

-----------------------------------------------------------------------------
(* A message or a new conversation. *)

\* The operation that goes on with a message names a thread.
LEMMA SendFields ==
  ASSUME FenceInv, op # Idle, op.kind = "send"
  PROVE  /\ op \in Operation /\ op.request \in Sends /\ op.request \in Requests
         /\ op.thread = op.request.thread /\ op.thread \in Threads /\ op.thread \in Nat
         /\ op.thread # NoThread
<1>1. op \in Operation /\ OpSound(op)
  BY DEF FenceInv, Typed
<1> QED
  BY <1>1, Constants DEF OpSound

\* beginTurnAdmission: the thread has no call on the wire, and gets the only admission.
LEMMA AdmitKeepsFence ==
  ASSUME FenceInv, Admit
  PROVE  FenceInv'
<1> DEFINE t == op.thread
           a == [request |-> op.request, turn |-> active[t]]
           next == [op EXCEPT !.stage = "admitted"]
<1>1. Typed /\ OpSound(op)
  BY DEF FenceInv
<1>2. op # Idle /\ op.kind = "send" /\ op.stage = "act" /\ ~Missing(t) /\ Mappings(t, op.request.client) = {}
  BY DEF Admit, At, Unsettled, NotYetKnown
<1>3. /\ op \in Operation /\ op.request \in Sends /\ op.request \in Requests
      /\ t = op.request.thread /\ t \in Threads /\ t # NoThread
  BY <1>2, SendFields
<1>4. PICK o \in Operation : op' = o /\ o.stage = "admitted" /\ o.kind = "send" /\ o.request = op.request /\ o.thread = t
  <2>1. next \in Operation /\ next.stage = "admitted" /\ next.kind = "send" /\ next.request = op.request /\ next.thread = t
    BY <1>2, <1>3, StageFields DEF Stages
  <2>2. op' = next
    BY DEF Admit, Goto
  <2> HIDE DEF next
  <2> QED
    BY <2>1, <2>2
<1>5. a \in Admission /\ a.request = op.request /\ a # None
  <2>1. active[t] \in Nat
    BY <1>1, <1>3 DEF Typed
  <2>2. a \in Admission
    BY <2>1, <1>3 DEF Admission
  <2> QED
    BY <2>2, Apart
<1>6. /\ admitted' = [admitted EXCEPT ![t] = a]
      /\ UNCHANGED <<selection, starting, receipts, listing, native, wire, bounds, answered>>
  BY DEF Admit, Goto
<1> HIDE DEF a
<1>7. /\ admitted' \in [Threads -> {None} \cup Admission] /\ admitted'[t] = a
      /\ \A u \in Threads \ {t} : admitted'[u] = admitted[u]
  BY <1>1, <1>3, <1>5, <1>6 DEF Typed
<1>8. status[t] \in {"blank", "listed"}
  BY <1>1, <1>2, <1>3 DEF Typed, Missing, Statuses
<1>9. admitted[t] = None
  BY <1>1, <1>2, <1>3 DEF OpSound
<1>10. \A e \in wire : IsMessage(e) => e.request.thread # t
  BY <1>8, <1>9 DEF FenceInv, CallsFenced, Holds
<1>11. ~InHistory(t, op.request.client)
  BY <1>2, <1>8 DEF FenceInv, HistoryListed, InHistory, Mappings
<1>12. Typed'
  BY <1>1, <1>4, <1>6, <1>7 DEF Typed, native, bounds
<1>13. OpSound(op)'
  BY <1>3, <1>4, <1>5, <1>6, <1>7, <1>8, <1>10, <1>11 DEF OpSound, Holds, InHistory, IsMessage, native
<1>14. CallsFenced'
  <2> SUFFICES ASSUME NEW e \in wire, IsMessage(e)
               PROVE  /\ e.request \in Sends
                      /\ status[e.request.thread] \in {"blank", "stranded", "listed"}
                      /\ status[e.request.thread] # "stranded" => Holds(e.request.thread, e.request)'
    BY <1>6 DEF CallsFenced, IsMessage, Holds, native
  <2>1. e.request \in Sends /\ status[e.request.thread] \in {"blank", "stranded", "listed"}
        /\ (status[e.request.thread] # "stranded" => Holds(e.request.thread, e.request))
    BY DEF FenceInv, CallsFenced
  <2>2. e.request.thread \in Threads \ {t}
    BY <2>1, <1>10, Constants
  <2> QED
    BY <2>1, <2>2, <1>7 DEF Holds
<1>15. OneCall' /\ Unwritten' /\ HistoryListed' /\ CallsCounted' /\ BornInOrder' /\ LandsOnce'
  BY <1>6
  DEF native, bounds, FenceInv, OneCall, Unwritten, HistoryListed, CallsCounted, BornInOrder, LandsOnce, InHistory, IsMessage
<1>16. AdmittedFits'
  BY <1>3, <1>5, <1>7 DEF FenceInv, AdmittedFits
<1> QED
  BY <1>12, <1>13, <1>14, <1>15, <1>16 DEF FenceInv

\* The call leaves for the app-server.
LEMMA CallKeepsFence ==
  ASSUME FenceInv, CallTurn \/ CallNew
  PROVE  FenceInv'
<1>1. Typed /\ OpSound(op) /\ op \in Operation /\ op # Idle /\ op.stage = "admitted"
  BY DEF FenceInv, Typed, CallTurn, CallNew, At
<1>2. PICK kind \in {"start", "steer", "thread"}, turn \in Nat :
        Call(kind, turn) /\ (kind = "thread" <=> op.kind # "send")
  <2>1. CASE CallTurn
    <3>1. op.thread \in Threads /\ op.thread # NoThread /\ op.kind = "send"
      BY <2>1, <1>1, SendFields DEF CallTurn
    <3>2. Pending = admitted[op.thread] /\ admitted[op.thread] # None
      BY <3>1, <1>1 DEF Pending, OpSound, Holds
    <3>3. Pending.turn \in Nat
      BY <3>1, <3>2, <1>1 DEF Typed, Admission
    <3> QED
      BY <2>1, <3>1, <3>3 DEF CallTurn
  <2>2. CASE CallNew
    BY <2>2 DEF CallNew, NoTurn
  <2> QED
    BY <2>1, <2>2
<1> DEFINE e == [call |-> calls + 1, kind |-> kind, request |-> op.request, turn |-> turn, done |-> 0, live |-> TRUE]
           p == [op EXCEPT !.stage = "called"]
           next == [p EXCEPT !.call = calls + 1]
<1>3. op.kind \in {"send", "new"} /\ op.request \in Requests
  BY <1>1, Constants DEF OpSound
<1>4. calls \in Nat /\ calls + 1 \in Nat /\ ~(calls + 1 <= calls)
  BY <1>1 DEF Typed
<1>5. e \in CallRecords /\ e.call = calls + 1 /\ e.kind = kind /\ e.request = op.request
  BY <1>3, <1>4 DEF CallRecords
<1>6. p \in Operation /\ p.stage = "called" /\ p.kind = op.kind /\ p.request = op.request /\ p.thread = op.thread
  BY <1>1, StageFields DEF Stages
<1> HIDE DEF p
<1>7. PICK o \in Operation : op' = o /\ o.stage = "called" /\ o.kind = op.kind /\ o.request = op.request
                              /\ o.thread = op.thread /\ o.call = calls + 1
  <2>1. next \in Operation /\ next.stage = "called" /\ next.kind = op.kind /\ next.request = op.request
        /\ next.thread = op.thread /\ next.call = calls + 1
    BY <1>4, <1>6 DEF Operation
  <2>2. op' = next
    BY <1>2 DEF Call, p
  <2> HIDE DEF next
  <2> QED
    BY <2>1, <2>2
<1>8. /\ wire' = wire \cup {e} /\ calls' = calls + 1
      /\ UNCHANGED <<store, fence, listing, native, failures, answered>>
  BY <1>2 DEF Call
<1> HIDE DEF e
<1>9. op.kind = "send" =>
        /\ op.request \in Sends /\ op.request.thread = op.thread
        /\ Holds(op.thread, op.request) /\ status[op.thread] \in {"blank", "stranded", "listed"}
        /\ ~InHistory(op.thread, op.request.client)
        /\ \A f \in wire : IsMessage(f) => f.request.thread # op.thread
  BY <1>1 DEF OpSound
<1>10. Typed'
  BY <1>1, <1>4, <1>5, <1>7, <1>8 DEF Typed, store, native
<1>11. IsMessage(e) <=> op.kind = "send"
  BY <1>2, <1>5 DEF IsMessage
<1>12. OpSound(op)'
  <2>1. \A f \in wire' : f.call = o.call => f.request = o.request /\ (IsMessage(f) <=> o.kind = "send")
    <3>1. \A f \in wire : f.call \in Nat /\ f.call <= calls
      BY <1>1 DEF Typed, CallRecords, FenceInv, CallsCounted
    <3>2. \A f \in wire : f.call # calls + 1
      BY <3>1, <1>4
    <3> QED
      BY <3>2, <1>5, <1>7, <1>8, <1>11
  <2> QED
    BY <2>1, <1>1, <1>3, <1>7, <1>8, <1>9 DEF OpSound, Holds, IsMessage, store
<1>13. CallsFenced'
  BY <1>5, <1>8, <1>9, <1>11 DEF FenceInv, CallsFenced, Holds, IsMessage, store, native
<1>14. OneCall'
  BY <1>5, <1>8, <1>9, <1>11 DEF FenceInv, OneCall, IsMessage
<1>15. Unwritten'
  BY <1>5, <1>8, <1>9, <1>11 DEF FenceInv, Unwritten, IsMessage, InHistory, native
<1>16. CallsCounted'
  <2> SUFFICES ASSUME NEW f \in wire' PROVE f.call <= calls + 1
    BY <1>8 DEF CallsCounted
  <2>1. CASE f = e
    BY <2>1, <1>4, <1>5
  <2>2. CASE f \in wire
    <3>1. f.call \in Nat /\ f.call <= calls
      BY <2>2, <1>1 DEF Typed, CallRecords, FenceInv, CallsCounted
    <3> QED
      BY <3>1, <1>4
  <2> QED
    BY <2>1, <2>2, <1>8
<1>17. HistoryListed' /\ AdmittedFits' /\ BornInOrder' /\ LandsOnce'
  BY <1>8 DEF FenceInv, HistoryListed, AdmittedFits, BornInOrder, LandsOnce, store, native
<1> QED
  BY <1>10, <1>12, <1>13, <1>14, <1>15, <1>16, <1>17 DEF FenceInv

LEMMA ReceiveTurnKeepsFence ==
  ASSUME FenceInv, ReceiveTurn
  PROVE  FenceInv'
<1> DEFINE p == [op EXCEPT !.stage = "accepted"]
<1>1. Typed /\ OpSound(op) /\ op \in Operation /\ op # Idle /\ op.stage = "called" /\ op.kind = "send"
  BY DEF FenceInv, Typed, ReceiveTurn, At
<1>2. PICK turn \in 1..MaxCalls : op' = [op EXCEPT !.stage = "accepted", !.turn = turn]
  BY DEF ReceiveTurn
<1>3. turn \in Nat
  BY Constants
<1>4. p \in Operation /\ p.stage = "accepted" /\ p.kind = op.kind /\ p.request = op.request /\ p.thread = op.thread
  BY <1>1, StageFields DEF Stages
<1>5. op' = [p EXCEPT !.turn = turn]
  BY <1>2
<1> HIDE DEF p
<1>6. PICK o \in Operation : op' = o /\ o.stage = "accepted" /\ o.kind = op.kind /\ o.request = op.request
                              /\ o.thread = op.thread
  BY <1>3, <1>4, <1>5 DEF Operation
<1>7. OpSound(o)
  BY <1>1, <1>6 DEF OpSound
<1>8. UNCHANGED <<store, listing, native, wire, bounds, answered>>
  BY DEF ReceiveTurn
<1> QED
  BY <1>1, <1>6, <1>7, <1>8, FenceCalm DEF Typed, store, native, bounds

\* The history holds the message: the call for it is over.
LEMMA ConfirmKeepsFence ==
  ASSUME FenceInv, ConfirmTurn
  PROVE  FenceInv'
<1>1. Typed /\ op # Idle /\ op.stage = "accepted" /\ op.kind = "send"
  BY DEF FenceInv, ConfirmTurn, At
<1>2. /\ op \in Operation /\ op.request \in Sends /\ op.request \in Requests
      /\ op.thread = op.request.thread /\ op.thread \in Threads /\ op.thread \in Nat
  BY <1>1, SendFields
<1>3. op.turn \in Nat
  BY <1>2 DEF Operation
<1>4. receipts' \in Seq(Told)
  BY <1>1, <1>2, <1>3, ReceiptsTyped DEF ConfirmTurn, Typed
<1>5. answered' \subseteq Told
  BY <1>1, <1>2, <1>3 DEF ConfirmTurn, Answer, Typed, Told
<1>6. InHistory(op.thread, op.request.client)
  BY DEF ConfirmTurn, Mappings, InHistory
<1>7. Holds(op.thread, op.request)
  BY <1>1, <1>2 DEF FenceInv, OpSound
<1>8. \A e \in wire' : IsMessage(e) /\ e.request.thread = op.thread => status[op.thread] = "stranded"
  BY <1>6, <1>7 DEF ConfirmTurn, FenceInv, CallsFenced, Unwritten, Holds
<1>9. /\ Clear(op.thread) /\ wire' \subseteq wire /\ op' = Idle
      /\ UNCHANGED <<history, status, active, calls>> /\ UNCHANGED <<selection, starting, listing>>
  BY DEF ConfirmTurn, native, bounds, End
<1> QED
  BY <1>2, <1>4, <1>5, <1>8, <1>9, FenceFrees

LEMMA AdmitNewKeepsFence ==
  ASSUME FenceInv, AdmitNew
  PROVE  FenceInv'
<1> DEFINE next == [op EXCEPT !.stage = "admitted"]
<1>1. Typed /\ OpSound(op) /\ op \in Operation /\ op # Idle /\ op.kind = "new"
  BY DEF FenceInv, Typed, AdmitNew, At
<1>2. next \in Operation /\ next.stage = "admitted" /\ next.kind = op.kind /\ next.request = op.request
      /\ next.thread = op.thread
  BY <1>1, StageFields DEF Stages
<1>3. op' = next
  BY DEF AdmitNew, Goto
<1> HIDE DEF next
<1>4. PICK o \in Operation : op' = o /\ o.stage = "admitted" /\ o.kind = "new" /\ o.request = op.request
                              /\ o.thread = op.thread
  BY <1>1, <1>2, <1>3
<1>5. OpSound(o)
  BY <1>1, <1>4 DEF OpSound
<1>6. starting' \in Starting
  <2>1. op.request \in News
    BY <1>1 DEF OpSound
  <2> QED
    BY <2>1 DEF AdmitNew, Listed, Starting
<1>7. UNCHANGED <<selection, admitted, receipts, listing, native, wire, bounds, answered>>
  BY DEF AdmitNew
<1> QED
  BY <1>1, <1>4, <1>5, <1>6, <1>7, FenceCalm DEF Typed, native, bounds

\* The thread that is archived has no call on the wire: reconciliation saw to that.
LEMMA ArchiveKeepsFence ==
  ASSUME FenceInv, CallArchive
  PROVE  FenceInv'
<1> DEFINE t == op.thread
           next == [op EXCEPT !.stage = "archived"]
<1>1. Typed /\ OpSound(op) /\ op \in Operation /\ op # Idle /\ op.kind = "archive" /\ op.stage = "act" /\ ~Missing(t)
  BY DEF FenceInv, Typed, CallArchive, At
<1>2. t \in Threads /\ t # NoThread
  BY <1>1, Constants DEF OpSound
<1>3. next \in Operation /\ next.stage = "archived" /\ next.kind = "archive" /\ next.request = op.request
      /\ next.thread = t
  BY <1>1, StageFields DEF Stages
<1>4. op' = next
  BY DEF CallArchive, Goto
<1> HIDE DEF next
<1>5. PICK o \in Operation : op' = o /\ o.stage = "archived" /\ o.kind = "archive" /\ o.thread = t
  BY <1>3, <1>4
<1>6. \A e \in wire : IsMessage(e) => e.request.thread # t
  BY <1>1, <1>2 DEF FenceInv, CallsFenced, Holds, OpSound, Missing
<1>7. status' = [status EXCEPT ![t] = "archived"] /\ active' = [active EXCEPT ![t] = NoTurn]
      /\ UNCHANGED <<store, listing, maker, history, wire, bounds, answered>>
  BY DEF CallArchive
<1>8. status' \in [Threads -> Statuses] /\ status'[t] = "archived" /\ status[t] # "absent"
      /\ \A u \in Threads \ {t} : status'[u] = status[u]
  BY <1>1, <1>2, <1>7 DEF Typed, Statuses, Missing
<1>9. Typed'
  BY <1>1, <1>5, <1>7, <1>8 DEF Typed, store, bounds, NoTurn
<1>10. OpSound(op)'
  BY <1>2, <1>5 DEF OpSound
<1>11. CallsFenced'
  <2> SUFFICES ASSUME NEW e \in wire, IsMessage(e)
               PROVE  /\ e.request \in Sends
                      /\ status'[e.request.thread] \in {"blank", "stranded", "listed"}
                      /\ status'[e.request.thread] # "stranded" => Holds(e.request.thread, e.request)
    BY <1>7 DEF CallsFenced, IsMessage, Holds, store
  <2>1. e.request \in Sends /\ e.request.thread \in Threads \ {t}
    BY <1>6, Constants DEF FenceInv, CallsFenced
  <2> QED
    BY <2>1, <1>8 DEF FenceInv, CallsFenced
<1>12. HistoryListed'
  BY <1>1, <1>7, <1>8 DEF FenceInv, HistoryListed, Typed, Written
<1>13. BornInOrder'
  BY <1>8, <1>2 DEF FenceInv, BornInOrder
<1>14. OneCall' /\ Unwritten' /\ AdmittedFits' /\ CallsCounted' /\ LandsOnce'
  BY <1>7 DEF FenceInv, OneCall, Unwritten, AdmittedFits, CallsCounted, LandsOnce, InHistory, IsMessage, store, bounds
<1> QED
  BY <1>9, <1>10, <1>11, <1>12, <1>13, <1>14 DEF FenceInv

-----------------------------------------------------------------------------
(* The app-server. *)

\* Calls are lost, or change in nothing that the fence is about; threads that only a lost
\* app-server knew are stranded.
LEMMA WireChanges ==
  ASSUME FenceInv, UNCHANGED <<admitted, history, calls>>, op' \in {op, Idle},
         wire' \subseteq CallRecords,
         \A e \in wire' : \E f \in wire : e.call = f.call /\ e.kind = f.kind /\ e.request = f.request,
         OneCall', status' \in [Threads -> Statuses],
         \A t \in Threads : status'[t] = status[t] \/ (status[t] = "blank" /\ status'[t] = "stranded"),
         active' \in [Threads -> Nat],
         selection' \in [thread : Nat, revision : Nat], starting' \in {None} \cup Starting,
         receipts' \in Seq(Told), answered' \subseteq Told, listing' \in {None} \cup Probes
  PROVE  FenceInv'
<1>1. Typed /\ OpSound(op) /\ CallsFenced
  BY DEF FenceInv
<1>2. Typed'
  BY <1>1 DEF Typed
<1>3. CallsFenced'
  <2> SUFFICES ASSUME NEW e \in wire', IsMessage(e)
               PROVE  /\ e.request \in Sends
                      /\ status'[e.request.thread] \in {"blank", "stranded", "listed"}
                      /\ status'[e.request.thread] # "stranded" => Holds(e.request.thread, e.request)
    BY DEF CallsFenced, IsMessage, Holds
  <2>1. PICK f \in wire : e.kind = f.kind /\ e.request = f.request
    OBVIOUS
  <2>2. IsMessage(f) /\ e.request \in Sends /\ e.request.thread \in Threads
    BY <2>1, <1>1, Constants DEF CallsFenced, IsMessage
  <2> QED
    BY <2>1, <2>2, <1>1 DEF CallsFenced
<1>4. Unwritten'
  BY DEF FenceInv, Unwritten, InHistory, IsMessage
<1>5. HistoryListed'
  BY <1>1 DEF FenceInv, HistoryListed, Typed, Written
<1>6. AdmittedFits' /\ CallsCounted' /\ LandsOnce'
  BY DEF FenceInv, AdmittedFits, CallsCounted, LandsOnce
<1>7. BornInOrder'
  BY DEF FenceInv, BornInOrder
<1>8. OpSound(op)'
  <2>1. CASE op' = Idle
    BY <2>1 DEF OpSound
  <2>2. CASE op' = op /\ op # Idle
    <3>1. op.kind = "send" => op.thread \in Threads
      BY <1>1, <2>2, SendFields
    <3>2. op.kind = "send" /\ op.stage = "admitted" =>
            /\ status'[op.thread] \in {"blank", "stranded", "listed"}
            /\ \A e \in wire' : IsMessage(e) => e.request.thread # op.thread
      BY <1>1, <2>2, <3>1 DEF OpSound, IsMessage
    <3>3. op.stage = "called" =>
            \A e \in wire' : e.call = op.call => e.request = op.request /\ (IsMessage(e) <=> op.kind = "send")
      BY <1>1, <2>2 DEF OpSound, IsMessage
    <3> QED
      BY <1>1, <2>2, <3>2, <3>3 DEF OpSound, Holds, InHistory, IsMessage
  <2> QED
    BY <2>1, <2>2
<1> QED
  BY <1>2, <1>3, <1>4, <1>5, <1>6, <1>7, <1>8 DEF FenceInv

\* What a failing app-server leaves of its calls and threads.
LEMMA OrphansFields ==
  ASSUME FenceInv, Orphans
  PROVE  /\ wire' \subseteq CallRecords
         /\ \A e \in wire' : \E f \in wire : e.call = f.call /\ e.kind = f.kind /\ e.request = f.request
         /\ OneCall' /\ status' \in [Threads -> Statuses] /\ active' \in [Threads -> Nat]
         /\ \A t \in Threads : status'[t] = status[t] \/ (status[t] = "blank" /\ status'[t] = "stranded")
<1>1. Typed
  BY DEF FenceInv
<1>2. ASSUME NEW f \in CallRecords
      PROVE  LET e == [f EXCEPT !.live = FALSE] IN
               e \in CallRecords /\ e.call = f.call /\ e.kind = f.kind /\ e.request = f.request
  BY DEF CallRecords
<1>3. \A e \in wire' : \E f \in wire : e = [f EXCEPT !.live = FALSE]
  BY DEF Orphans
<1>4. wire' \subseteq CallRecords
      /\ \A e \in wire' : \E f \in wire :
           e = [f EXCEPT !.live = FALSE] /\ e.call = f.call /\ e.kind = f.kind /\ e.request = f.request
  <2> SUFFICES ASSUME NEW e \in wire'
               PROVE  /\ e \in CallRecords
                      /\ \E f \in wire :
                           e = [f EXCEPT !.live = FALSE] /\ e.call = f.call /\ e.kind = f.kind /\ e.request = f.request
    OBVIOUS
  <2>1. PICK f \in wire : e = [f EXCEPT !.live = FALSE]
    BY <1>3
  <2>2. f \in CallRecords
    BY <1>1 DEF Typed
  <2> QED
    BY <2>1, <2>2, <1>2
<1>5. OneCall'
  <2> SUFFICES ASSUME NEW e \in wire', NEW g \in wire', IsMessage(e), IsMessage(g), e.request.thread = g.request.thread
               PROVE  e = g
    BY DEF OneCall, IsMessage
  <2>1. PICK f \in wire : e = [f EXCEPT !.live = FALSE] /\ e.kind = f.kind /\ e.request = f.request
    BY <1>4
  <2>2. PICK h \in wire : g = [h EXCEPT !.live = FALSE] /\ g.kind = h.kind /\ g.request = h.request
    BY <1>4
  <2>3. IsMessage(f) /\ IsMessage(h) /\ f.request.thread = h.request.thread
    BY <2>1, <2>2 DEF IsMessage
  <2>4. f = h
    BY <2>3 DEF FenceInv, OneCall
  <2> QED
    BY <2>1, <2>2, <2>4
<1>6. /\ status' \in [Threads -> Statuses] /\ active' \in [Threads -> Nat]
      /\ \A t \in Threads : status'[t] = status[t] \/ (status[t] = "blank" /\ status'[t] = "stranded")
  BY <1>1 DEF Orphans, Typed, Statuses, NoTurn
<1> QED
  BY <1>4, <1>5, <1>6

LEMMA WireKeepsFence ==
  ASSUME FenceInv, StartedUnderAdmission,
         \/ ReceiveThread \/ RefuseCall
         \/ \E e \in wire : AcceptTurn(e) \/ Vanish(e)
         \/ \E t \in Threads : EndTurn(t)
         \/ AppServerFails \/ Restart
  PROVE  FenceInv'
<1>1. Typed
  BY DEF FenceInv
<1>2. CASE AppServerFails \/ Restart
  <2>1. Orphans /\ op' \in {op, Idle}
    BY <1>2 DEF AppServerFails, Restart, End
  <2>2. UNCHANGED <<store, history, calls, answered>> /\ listing' \in {listing, None}
    BY <1>2 DEF AppServerFails, Restart
  <2> QED
    BY <1>1, <2>1, <2>2, OrphansFields, WireChanges DEF Typed, store
<1>3. CASE ReceiveThread
  <2>1. PICK e \in wire :
          /\ wire' = wire \ {e} /\ op' = Idle
          /\ \/ Publish(e.done) /\ Answer(op.request, e.done, NoTurn)
             \/ starting' = None /\ UNCHANGED <<selection, receipts, answered>>
          /\ UNCHANGED <<admitted, listing, native, bounds>>
    BY <1>3, EndIdles DEF ReceiveThread
  <2>2. OpSound(op) /\ op # Idle /\ op.kind = "new" /\ op.stage = "called"
    BY <1>3 DEF FenceInv, ReceiveThread, At
  <2>3. op.request \in Requests /\ e.done \in Nat /\ NoTurn \in Nat
    BY <1>1, <2>2, Constants DEF OpSound, Typed, CallRecords, NoTurn
  <2>4. /\ selection' \in [thread : Nat, revision : Nat] /\ starting' \in {None} \cup Starting
        /\ receipts' \in Seq(Told) /\ answered' \subseteq Told
    <3>1. CASE starting' = None /\ UNCHANGED <<selection, receipts, answered>>
      BY <3>1, <1>1 DEF Typed
    <3>2. CASE Publish(e.done) /\ Answer(op.request, e.done, NoTurn)
      <4>1. selection' \in [thread : Nat, revision : Nat] /\ starting' = None /\ answered' \subseteq Told
        BY <3>2, <2>3, <1>1 DEF Publish, Answer, Typed, Told
      <4>2. starting.request \in Requests
        BY <1>3, <3>2, <1>1, <2>2, Constants DEF StartedUnderAdmission, ReceiveThread, Typed, Starting
      <4>3. receipts' \in Seq(Told)
        BY <3>2, <4>2, <2>3, <1>1, ReceiptsTyped DEF Publish, Typed
      <4> QED
        BY <4>1, <4>3
    <3> QED
      BY <2>1, <3>1, <3>2
  <2>5. OneCall' /\ wire' \subseteq wire
    BY <2>1 DEF FenceInv, OneCall, IsMessage
  <2> QED
    BY <1>1, <2>1, <2>4, <2>5, WireChanges DEF Typed, native, bounds
<1>4. CASE RefuseCall \/ (\E e \in wire : Vanish(e)) \/ (\E t \in Threads : EndTurn(t))
  <2>1. wire' \subseteq wire /\ op' \in {op, Idle} /\ UNCHANGED <<store, listing, status, history, calls, answered>>
    BY <1>4 DEF RefuseCall, Vanish, EndTurn, End, memory, native, bounds
  <2>2. active' \in [Threads -> Nat]
    BY <1>4, <1>1 DEF RefuseCall, Vanish, EndTurn, native, Typed, NoTurn
  <2>3. OneCall'
    BY <2>1 DEF FenceInv, OneCall, IsMessage
  <2> QED
    BY <1>1, <2>1, <2>2, <2>3, WireChanges DEF Typed, store
<1>5. ASSUME NEW e \in wire, AcceptTurn(e) PROVE FenceInv'
  <2>1. PICK done \in Nat : wire' = (wire \ {e}) \cup {[e EXCEPT !.done = done]}
    BY <1>1, <1>5 DEF AcceptTurn, Replace, Typed, CallRecords
  <2> DEFINE f == [e EXCEPT !.done = done]
  <2>2. f \in CallRecords /\ f.call = e.call /\ f.kind = e.kind /\ f.request = e.request
    BY <1>1 DEF Typed, CallRecords
  <2>3. wire' = (wire \ {e}) \cup {f}
    BY <2>1
  <2> HIDE DEF f
  <2>4. wire' \subseteq CallRecords
        /\ \A g \in wire' : \E h \in wire : g.call = h.call /\ g.kind = h.kind /\ g.request = h.request
    BY <1>1, <2>2, <2>3 DEF Typed
  <2>5. OneCall'
    BY <2>2, <2>3 DEF FenceInv, OneCall, IsMessage
  <2>6. active' \in [Threads -> Nat]
    BY <1>1, <1>5 DEF AcceptTurn, Typed, CallRecords
  <2>7. UNCHANGED <<store, memory, status, history, calls, answered>>
    BY <1>5 DEF AcceptTurn, bounds
  <2> QED
    BY <1>1, <2>4, <2>5, <2>6, <2>7, WireChanges DEF Typed, store, memory
<1> QED
  BY <1>2, <1>3, <1>4, <1>5

\* The app-server refuses a message: its call is gone, and no other was on the wire.
LEMMA RefuseTurnKeepsFence ==
  ASSUME FenceInv, RefuseTurn
  PROVE  FenceInv'
<1>1. Typed /\ OpSound(op) /\ op # Idle /\ op.stage = "called" /\ op.kind = "send"
  BY DEF FenceInv, RefuseTurn, At
<1>2. op.thread = op.request.thread /\ op.thread \in Threads
  BY <1>1, SendFields
<1>3. PICK e \in wire : Mine(e) /\ wire' = wire \ {e}
  BY DEF RefuseTurn
<1>4. e.request = op.request /\ IsMessage(e)
  BY <1>1, <1>3 DEF OpSound, Mine
<1>5. \A f \in wire' : IsMessage(f) => f.request.thread # op.thread
  BY <1>2, <1>3, <1>4 DEF FenceInv, OneCall
<1>6. /\ Clear(op.thread) /\ wire' \subseteq wire /\ op' = Idle
      /\ UNCHANGED <<history, status, active, calls>> /\ UNCHANGED <<selection, starting, listing>>
      /\ UNCHANGED <<receipts, answered>>
  BY <1>3 DEF RefuseTurn, native, bounds, End
<1>7. receipts' \in Seq(Told) /\ answered' \subseteq Told
  BY <1>1, <1>6 DEF Typed
<1> QED
  BY <1>2, <1>5, <1>6, <1>7, FenceFrees

\* The message is written by the only call for its thread, which ends with that.
LEMMA WriteKeepsFence ==
  ASSUME FenceInv, NEW e \in wire, WriteMessage(e) \/ WriteLate(e)
  PROVE  FenceInv'
<1> DEFINE t == e.request.thread
<1>1. Typed /\ OpSound(op) /\ IsMessage(e) /\ e \in CallRecords
  BY DEF FenceInv, Typed, WriteMessage, WriteLate, IsMessage
<1>2. PICK turn \in Nat : Write(e, turn)
  <2>1. e.done \in Nat /\ e.call \in Nat /\ e.turn \in Nat
    BY <1>1 DEF CallRecords
  <2>2. (IF e.kind = "start" THEN e.call ELSE e.turn) \in Nat
    BY <2>1
  <2> QED
    BY <2>1, <2>2 DEF WriteMessage, WriteLate
<1>3. /\ e.request \in Sends /\ t \in Threads
      /\ status[t] \in {"blank", "stranded", "listed"} /\ ~InHistory(t, e.request.client)
  <2>1. e.request \in Sends /\ status[t] \in {"blank", "stranded", "listed"} /\ ~InHistory(t, e.request.client)
    BY <1>1 DEF FenceInv, CallsFenced, Unwritten
  <2> QED
    BY <2>1, Constants
<1>4. PICK m : /\ m.thread = t /\ m.client = e.request.client /\ m \in Written
               /\ history' = history \cup {m}
  <2> DEFINE m == [thread |-> t, client |-> e.request.client, turn |-> turn, call |-> e.call]
  <2>1. m \in Written /\ m.thread = t /\ m.client = e.request.client
    BY <1>1, <1>3 DEF Written, CallRecords
  <2>2. history' = history \cup {m}
    BY <1>2 DEF Write
  <2> HIDE DEF m
  <2> QED
    BY <2>1, <2>2
<1>5. /\ status' = [status EXCEPT ![t] = IF @ = "archived" THEN @ ELSE "listed"]
      /\ wire' = wire \ {e}
      /\ UNCHANGED <<store, memory, maker, active, bounds, answered>>
  BY <1>2 DEF Write
<1>6. status' \in [Threads -> Statuses] /\ status'[t] = "listed" /\ \A u \in Threads \ {t} : status'[u] = status[u]
  BY <1>1, <1>3, <1>5 DEF Typed, Statuses
<1>7. \A f \in wire' : f \in wire /\ (IsMessage(f) => f.request \in Sends /\ f.request.thread \in Threads \ {t})
  BY <1>1, <1>5, Constants DEF FenceInv, OneCall, CallsFenced
<1>8. Typed'
  BY <1>1, <1>4, <1>5, <1>6 DEF Typed, store, memory, bounds
<1>9. OpSound(op)'
  <2>1. CASE op = Idle
    BY <2>1, <1>5 DEF OpSound, memory
  <2>2. CASE op # Idle /\ op.kind = "send" /\ op.stage = "admitted"
    <3>1. op.thread \in Threads \ {t}
      BY <1>1, <2>2, SendFields DEF OpSound
    <3>2. ~InHistory(op.thread, op.request.client)'
      BY <3>1, <2>2, <1>1, <1>4, <1>5 DEF OpSound, InHistory, memory
    <3>3. \A f \in wire' : IsMessage(f) => f.request.thread # op.thread
      BY <2>2, <1>1, <1>7 DEF OpSound
    <3>4. status'[op.thread] \in {"blank", "stranded", "listed"}
      BY <3>1, <2>2, <1>1, <1>6 DEF OpSound
    <3> QED
      BY <2>2, <3>2, <3>3, <3>4, <1>1, <1>5 DEF OpSound, Holds, IsMessage, memory, store
  <2>3. CASE op # Idle /\ ~(op.kind = "send" /\ op.stage = "admitted")
    BY <2>3, <1>1, <1>5, <1>7 DEF OpSound, Holds, IsMessage, memory, store
  <2> QED
    BY <2>1, <2>2, <2>3
<1>10. CallsFenced'
  <2> SUFFICES ASSUME NEW f \in wire', IsMessage(f)
               PROVE  /\ f.request \in Sends
                      /\ status'[f.request.thread] \in {"blank", "stranded", "listed"}
                      /\ status'[f.request.thread] # "stranded" => Holds(f.request.thread, f.request)
    BY <1>5 DEF CallsFenced, IsMessage, Holds, store
  <2> QED
    BY <1>6, <1>7 DEF FenceInv, CallsFenced
<1>11. OneCall' /\ AdmittedFits' /\ CallsCounted'
  BY <1>5 DEF FenceInv, OneCall, AdmittedFits, CallsCounted, IsMessage, store, bounds
<1>12. Unwritten'
  BY <1>4, <1>7 DEF FenceInv, Unwritten, InHistory, IsMessage
<1>13. HistoryListed'
  BY <1>1, <1>4, <1>6 DEF FenceInv, HistoryListed, Typed, Written
<1>14. BornInOrder'
  BY <1>3, <1>6 DEF FenceInv, BornInOrder
<1>15. LandsOnce'
  BY <1>3, <1>4 DEF FenceInv, LandsOnce, InHistory
<1> QED
  BY <1>8, <1>9, <1>10, <1>11, <1>12, <1>13, <1>14, <1>15 DEF FenceInv

\* Threads are numbered as they are created, so that the new one was absent.
LEMMA NextThread ==
  ASSUME FenceInv, Cardinality(Created) < MaxThreads
  PROVE  /\ Cardinality(Created) + 1 \in Threads /\ status[Cardinality(Created) + 1] = "absent"
         /\ \A u \in Threads : status[u] # "absent" <=> u <= Cardinality(Created)
<1>1. PICK k \in 0..MaxThreads : \A t \in Threads : status[t] # "absent" <=> t <= k
  BY DEF FenceInv, BornInOrder
<1>2. MaxThreads \in Nat /\ k \in Nat
  BY Constants
<1>3. Created = 1..k
  BY <1>1, <1>2 DEF Created, Threads
<1>4. Cardinality(1..k) = k
  BY <1>2, FS_Interval
<1>5. k + 1 \in Threads /\ ~(k + 1 <= k)
  BY <1>2, <1>3, <1>4 DEF Threads
<1> QED
  BY <1>1, <1>3, <1>4, <1>5

LEMMA CreateKeepsFence ==
  ASSUME FenceInv, NEW e \in wire, CreateThread(e)
  PROVE  FenceInv'
<1> DEFINE t == Cardinality(Created) + 1
           n == Cardinality(Created)
<1>1. Typed /\ OpSound(op) /\ e \in CallRecords /\ ~IsMessage(e)
  BY DEF FenceInv, Typed, CreateThread, IsMessage
<1>2. t \in Threads /\ status[t] = "absent" /\ \A u \in Threads : status[u] # "absent" <=> u <= n
  BY NextThread DEF CreateThread
<1> HIDE DEF t, n
<1>3. PICK s \in {"listed", "blank", "stranded"} : status' = [status EXCEPT ![t] = s]
  BY DEF CreateThread, t
<1>4. status' \in [Threads -> Statuses] /\ status'[t] = s /\ \A u \in Threads \ {t} : status'[u] = status[u]
  BY <1>1, <1>2, <1>3 DEF Typed, Statuses
<1>5. UNCHANGED <<store, memory, active, history, bounds, answered>>
  BY DEF CreateThread
<1>6. t \in Nat /\ n \in Nat /\ t = n + 1 /\ t \in 0..MaxThreads
  <2>1. t \in Nat /\ t \in 0..MaxThreads
    BY <1>2, Constants DEF Threads
  <2>2. PICK k \in 0..MaxThreads : Created = 1..k
    BY Constants DEF FenceInv, BornInOrder, Created, Threads
  <2>3. k \in Nat /\ Cardinality(1..k) = k
    BY FS_Interval, Constants
  <2>4. n \in Nat
    BY <2>2, <2>3 DEF n
  <2> QED
    BY <2>1, <2>4 DEF t, n
<1>7. PICK f : /\ f \in CallRecords /\ f.call = e.call /\ f.kind = e.kind /\ f.request = e.request
               /\ wire' = wire \ {e} \/ wire' = (wire \ {e}) \cup {f}
  <2> DEFINE f == [e EXCEPT !.done = t]
  <2>1. f \in CallRecords /\ f.call = e.call /\ f.kind = e.kind /\ f.request = e.request
    BY <1>1, <1>6 DEF CallRecords
  <2>2. wire' = wire \ {e} \/ wire' = (wire \ {e}) \cup {f}
    BY DEF CreateThread, Replace, t
  <2> HIDE DEF f
  <2> QED
    BY <2>1, <2>2
<1>8. Typed'
  BY <1>1, <1>4, <1>5, <1>7 DEF Typed, store, memory, bounds
<1>9. \A g \in wire' : IsMessage(g) => g \in wire
  BY <1>1, <1>7 DEF IsMessage
<1>10. OpSound(op)'
  <2>1. op # Idle /\ op.kind = "send" => op.thread \in Threads
    BY SendFields
  <2>2. op # Idle /\ op.kind = "send" /\ op.stage = "admitted" =>
          /\ status'[op.thread] \in {"blank", "stranded", "listed"}
          /\ \A g \in wire' : IsMessage(g) => g.request.thread # op.thread
    BY <2>1, <1>1, <1>2, <1>4, <1>9 DEF OpSound
  <2>3. op # Idle /\ op.stage = "called" =>
          \A g \in wire' : g.call = op.call => g.request = op.request /\ (IsMessage(g) <=> op.kind = "send")
    BY <1>1, <1>7 DEF OpSound, IsMessage
  <2> QED
    BY <2>2, <2>3, <1>1, <1>5 DEF OpSound, Holds, InHistory, IsMessage, memory, store
<1>11. CallsFenced'
  <2> SUFFICES ASSUME NEW g \in wire', IsMessage(g)
               PROVE  /\ g.request \in Sends
                      /\ status'[g.request.thread] \in {"blank", "stranded", "listed"}
                      /\ status'[g.request.thread] # "stranded" => Holds(g.request.thread, g.request)
    BY <1>5 DEF CallsFenced, IsMessage, Holds, store
  <2>1. g.request \in Sends /\ g.request.thread \in Threads \ {t}
    BY <1>2, <1>9, Constants DEF FenceInv, CallsFenced
  <2> QED
    BY <2>1, <1>4, <1>9 DEF FenceInv, CallsFenced
<1>12. OneCall' /\ Unwritten'
  BY <1>5, <1>9 DEF FenceInv, OneCall, Unwritten, InHistory, IsMessage
<1>13. HistoryListed'
  BY <1>1, <1>2, <1>4, <1>5 DEF FenceInv, HistoryListed, Typed, Written
<1>14. CallsCounted'
  BY <1>5, <1>7 DEF FenceInv, CallsCounted, bounds
<1>15. AdmittedFits' /\ LandsOnce'
  BY <1>5 DEF FenceInv, AdmittedFits, LandsOnce, store
<1>16. BornInOrder'
  <2>1. \A u \in Threads : status'[u] # "absent" <=> u <= t
    <3>1. \A u \in Threads : u \in Nat
      BY Constants
    <3>2. \A u \in Nat : u <= t <=> (u <= n \/ u = t)
      BY <1>6
    <3> QED
      BY <3>1, <3>2, <1>2, <1>4
  <2> QED
    BY <2>1, <1>6 DEF BornInOrder
<1> QED
  BY <1>8, <1>10, <1>11, <1>12, <1>13, <1>14, <1>15, <1>16 DEF FenceInv

-----------------------------------------------------------------------------
(* The fence holds throughout. *)

LEMMA FenceInitially == Init => FenceInv
<1> SUFFICES ASSUME Init PROVE FenceInv
  OBVIOUS
<1>1. Typed
  <2>1. receipts \in Seq(Told)
    BY DEF Init
  <2> QED
    BY <2>1 DEF Init, Typed, NoThread, NoTurn, Statuses
<1>2. BornInOrder
  <2>1. Existing \in 0..MaxThreads
    BY CodexAssumption
  <2> QED
    BY <2>1 DEF Init, BornInOrder
<1>3. OpSound(op)
  BY IdleIsSound DEF Init
<1> QED
  BY <1>1, <1>2, <1>3
  DEF Init, FenceInv, CallsFenced, OneCall, Unwritten, HistoryListed, AdmittedFits, CallsCounted, LandsOnce

LEMMA FenceStep ==
  ASSUME FenceInv, StartedUnderAdmission, Next
  PROVE  FenceInv'
<1>1. CASE (\E r \in Requests : ReplayReceipt(r)) \/ AnswerReconciled
  BY <1>1, ReplaysKeepFence
<1>2. CASE \/ \E r \in Requests : RefuseReuse(r)
           \/ \E i \in Ids : Evict(i)
           \/ HistoryDisagrees \/ Unavailable \/ RefuseSend \/ RefuseKnownMessage \/ GiveUp \/ RefuseNew \/ RefuseMove
  BY <1>2, RefusalsKeepFence
<1>3. CASE SetSelection \/ DeselectArchived \/ SelectDefault \/ ListMisses \/ ProbeSelected \/ ClearMissingSelection
  BY <1>3, MovesKeepFence
<1>4. CASE \/ \E r \in Sends : SubmitSend(r)
           \/ \E r \in News : SubmitNew(r)
           \/ \E t \in Threads : Select(t) \/ Archive(t) \/ Read(t)
           \/ Select(NoThread) \/ List
  BY <1>4, EntersKeepFence
<1>5. CASE NothingStarting \/ ClearStart \/ PublishCandidate \/ AmbiguousStart
  BY <1>5, StartsKeepFence
<1>6. CASE NothingAdmitted \/ CompleteAdmission \/ ClearAdmission
  BY <1>6, TurnsKeepFence
<1>7. CASE Admit
  BY <1>7, AdmitKeepsFence
<1>8. CASE CallTurn \/ CallNew
  BY <1>8, CallKeepsFence
<1>9. CASE ReceiveTurn
  BY <1>9, ReceiveTurnKeepsFence
<1>10. CASE ConfirmTurn
  BY <1>10, ConfirmKeepsFence
<1>11. CASE AdmitNew
  BY <1>11, AdmitNewKeepsFence
<1>12. CASE CallArchive
  BY <1>12, ArchiveKeepsFence
<1>13. CASE \/ ReceiveThread \/ RefuseCall
            \/ \E e \in wire : AcceptTurn(e) \/ Vanish(e)
            \/ \E t \in Threads : EndTurn(t)
            \/ AppServerFails \/ Restart
  BY <1>13, WireKeepsFence
<1>14. CASE RefuseTurn
  BY <1>14, RefuseTurnKeepsFence
<1>15. CASE \E e \in wire : WriteMessage(e) \/ WriteLate(e)
  BY <1>15, WriteKeepsFence
<1>16. CASE \E e \in wire : CreateThread(e)
  BY <1>16, CreateKeepsFence
<1> QED
  BY <1>1, <1>2, <1>3, <1>4, <1>5, <1>6, <1>7, <1>8, <1>9, <1>10, <1>11, <1>12, <1>13, <1>14, <1>15, <1>16
  DEF Next, Reconcile

\* Only the operation under the lock admits, calls for and ends a new conversation.
LEMMA StartedStep ==
  ASSUME FenceInv, StartedUnderAdmission, Next
  PROVE  StartedUnderAdmission'
<1>1. ASSUME op' = Idle PROVE StartedUnderAdmission'
  BY <1>1 DEF StartedUnderAdmission
<1>2. ASSUME op' = op, starting' = starting PROVE StartedUnderAdmission'
  BY <1>2 DEF StartedUnderAdmission
<1>3. ASSUME op \in Operation, NEW stage \in Stages, op' = [op EXCEPT !.stage = stage],
             stage \in {"turn", "act", "archived"} \/ op.kind = "send"
      PROVE  StartedUnderAdmission'
  BY <1>3, StageFields DEF StartedUnderAdmission
<1>4. op \in {Idle} \cup Operation
  BY DEF FenceInv, Typed
<1>5. CASE \/ \E r \in Requests : ReplayReceipt(r) \/ RefuseReuse(r)
           \/ \E i \in Ids : Evict(i)
           \/ \E t \in Threads : EndTurn(t)
           \/ SelectDefault \/ ListMisses \/ ProbeSelected \/ ClearMissingSelection
           \/ \E e \in wire : AcceptTurn(e) \/ WriteMessage(e) \/ WriteLate(e) \/ CreateThread(e) \/ Vanish(e)
  <2>1. op' = op /\ starting' = starting
    BY <1>5 DEF ReplayReceipt, RefuseReuse, Evict, EndTurn, SelectDefault, ListMisses, ProbeSelected,
       ClearMissingSelection, AcceptTurn, WriteMessage, WriteLate, Write, CreateThread, Vanish, store, memory
  <2> QED
    BY <2>1, <1>2
<1>6. CASE AppServerFails
  <2>1. op' = Idle \/ (op' = op /\ starting' = starting)
    BY <1>6 DEF AppServerFails, End, store
  <2> QED
    BY <2>1, <1>1, <1>2
<1>7. CASE \/ HistoryDisagrees \/ Unavailable \/ AnswerReconciled \/ RefuseSend \/ RefuseKnownMessage \/ ConfirmTurn
           \/ GiveUp \/ RefuseNew \/ ReceiveThread \/ SetSelection \/ DeselectArchived \/ RefuseMove
           \/ RefuseTurn \/ RefuseCall \/ Restart
  <2>1. op' = Idle
    BY <1>7 DEF HistoryDisagrees, Unavailable, AnswerReconciled, RefuseSend, RefuseKnownMessage, ConfirmTurn,
       GiveUp, RefuseNew, ReceiveThread, SetSelection, DeselectArchived, RefuseMove, RefuseTurn, RefuseCall, Restart, End
  <2> QED
    BY <2>1, <1>1
<1>8. CASE \/ \E r \in Sends : SubmitSend(r)
           \/ \E r \in News : SubmitNew(r)
           \/ \E t \in Threads : Select(t) \/ Archive(t) \/ Read(t)
           \/ Select(NoThread) \/ List
  <2>1. op'.stage \in {"start", "turn"}
    BY <1>8 DEF SubmitSend, SubmitNew, Submit, Select, Archive, Read, List, Start, Enter
  <2> QED
    BY <2>1 DEF StartedUnderAdmission
<1>9. CASE NothingStarting \/ ClearStart \/ PublishCandidate
  <2>1. op \in Operation /\ (op' = Idle \/ op' = [op EXCEPT !.stage = "turn"])
    BY <1>9, <1>4 DEF NothingStarting, ClearStart, PublishCandidate, StartReconciled, At, End, Goto
  <2> QED
    BY <2>1, <1>1, <1>3 DEF Stages
<1>10. CASE AmbiguousStart
  <2>1. op \in Operation /\ (op' = Idle \/ (op.kind = "select" /\ op' = [op EXCEPT !.stage = "turn", !.ambiguous = TRUE]))
    BY <1>10, <1>4 DEF AmbiguousStart, At, End
  <2>2. [op EXCEPT !.stage = "turn", !.ambiguous = TRUE].stage = "turn"
    BY <2>1 DEF Operation
  <2> QED
    BY <2>1, <2>2, <1>1 DEF StartedUnderAdmission
<1>11. CASE NothingAdmitted \/ CompleteAdmission \/ ClearAdmission \/ CallArchive
  <2>1. op \in Operation /\ (op' = Idle \/ \E stage \in {"act", "archived"} : op' = [op EXCEPT !.stage = stage])
    BY <1>11, <1>4 DEF NothingAdmitted, CompleteAdmission, ClearAdmission, CallArchive, TurnReconciled, At, End, Goto
  <2> QED
    BY <2>1, <1>1, <1>3 DEF Stages
<1>12. CASE Admit
  <2>1. op \in Operation /\ op.kind = "send" /\ op' = [op EXCEPT !.stage = "admitted"]
    BY <1>12, <1>4 DEF Admit, At, Unsettled, Goto
  <2> QED
    BY <2>1, <1>3 DEF Stages
<1>13. CASE ReceiveTurn
  <2>1. op \in Operation /\ \E turn : op' = [op EXCEPT !.stage = "accepted", !.turn = turn]
    BY <1>13, <1>4 DEF ReceiveTurn, At
  <2>2. op'.stage = "accepted"
    BY <2>1 DEF Operation
  <2> QED
    BY <2>2 DEF StartedUnderAdmission
<1>14. CASE AdmitNew
  <2>1. starting' \in Starting
    <3>1. op.request \in News
      BY <1>14 DEF AdmitNew, At, FenceInv, OpSound
    <3> QED
      BY <1>14, <3>1 DEF AdmitNew, Listed, Starting
  <2> QED
    BY <2>1, Apart DEF StartedUnderAdmission
<1>15. CASE CallTurn \/ CallNew
  <2>1. op \in Operation /\ op # Idle /\ op.stage = "admitted" /\ starting' = starting
        /\ op' = [op EXCEPT !.stage = "called", !.call = calls + 1]
    BY <1>15, <1>4 DEF CallTurn, CallNew, At, Call, store
  <2>2. op'.kind = op.kind
    BY <2>1 DEF Operation
  <2> QED
    BY <2>1, <2>2 DEF StartedUnderAdmission
<1> QED
  BY <1>5, <1>6, <1>7, <1>8, <1>9, <1>10, <1>11, <1>12, <1>13, <1>14, <1>15 DEF Next, Reconcile

-----------------------------------------------------------------------------
(* What callers are told. *)

LEMMA ReceiptsTruthful ==
  ASSUME FenceInv, ToldInv, UNCHANGED history,
         NEW r \in Requests, NEW thread \in Nat, NEW turn \in Nat,
         Settle(r, thread, turn), Truthful([request |-> r, thread |-> thread, turn |-> turn])
  PROVE  \A i \in DOMAIN receipts' : Truthful(receipts'[i])
<1> DEFINE a == [request |-> r, thread |-> thread, turn |-> turn]
           longer == Append(receipts, a)
<1>1. receipts \in Seq(Told) /\ a \in Told
  BY DEF FenceInv, Typed, Told
<1>2. Truthful(a)
  OBVIOUS
<1>3. receipts' = Prune(longer)
  BY DEF Settle
<1> HIDE DEF a
<1>4. longer \in Seq(Told) /\ Len(longer) = Len(receipts) + 1
      /\ \A i \in 1..Len(longer) : longer[i] = IF i <= Len(receipts) THEN receipts[i] ELSE a
  BY <1>1
<1>5. \A i \in 1..Len(longer) : Truthful(longer[i])
  <2>1. \A i \in 1..Len(longer) : i <= Len(receipts) => i \in DOMAIN receipts
    BY <1>1, <1>4
  <2> QED
    BY <1>2, <1>4, <2>1 DEF ToldInv
<1> HIDE DEF longer
<1>6. \A i \in DOMAIN Tail(longer) : i + 1 \in 1..Len(longer) /\ Tail(longer)[i] = longer[i + 1]
  <2>1. longer # <<>> /\ Len(receipts) \in Nat
    BY <1>1, <1>4
  <2> QED
    BY <1>4, <2>1
<1>7. \A i \in DOMAIN Tail(longer) : Truthful(Tail(longer)[i])
  BY <1>5, <1>6
<1> QED
  BY <1>3, <1>4, <1>5, <1>7 DEF Prune

LEMMA ToldStep ==
  ASSUME FenceInv, StartedUnderAdmission, ToldInv, Next
  PROVE  ToldInv'
<1>1. Typed /\ OpSound(op)
  BY DEF FenceInv
\* The history keeps what it holds.
<1>2. ASSUME history \subseteq history',
             \A a \in answered' : a \in answered \/ Truthful(a),
             receipts' = receipts \/ \A i \in DOMAIN receipts' : Truthful(receipts'[i])
      PROVE  ToldInv'
  <2>1. \A a : Truthful(a) => Truthful(a)'
    BY <1>2 DEF Truthful
  <2> QED
    BY <1>2, <2>1 DEF ToldInv, Truthful
\* Only a message is told to be in the history.
<1>3. ASSUME NEW n \in News, NEW thread, NEW turn PROVE Truthful([request |-> n, thread |-> thread, turn |-> turn])
  BY Constants DEF Truthful
<1>4. ASSUME NEW t \in Nat, starting \in Starting, Publish(t), UNCHANGED history
      PROVE  \A i \in DOMAIN receipts' : Truthful(receipts'[i])
  <2>1. starting.request \in News /\ starting.request \in Requests /\ NoTurn \in Nat
    BY <1>4, Constants DEF Starting, NoTurn
  <2> QED
    BY <1>3, <1>4, <2>1, ReceiptsTruthful DEF Publish
<1>5. CASE \/ \E r \in Requests : RefuseReuse(r)
           \/ \E r \in Sends : SubmitSend(r)
           \/ \E r \in News : SubmitNew(r)
           \/ \E t \in Threads : Select(t) \/ Archive(t) \/ Read(t) \/ EndTurn(t)
           \/ Select(NoThread) \/ List
           \/ \E i \in Ids : Evict(i)
           \/ NothingStarting \/ ClearStart \/ AmbiguousStart \/ NothingAdmitted \/ ClearAdmission \/ HistoryDisagrees
           \/ Unavailable \/ RefuseSend \/ RefuseKnownMessage \/ Admit \/ CallTurn \/ ReceiveTurn \/ GiveUp
           \/ RefuseNew \/ AdmitNew \/ CallNew
  <2>1. UNCHANGED <<history, receipts, answered>>
    BY <1>5 DEF RefuseReuse, SubmitSend, SubmitNew, Submit, Select, Archive, Read, List, Start, EndTurn, Evict,
       NothingStarting, ClearStart, AmbiguousStart, NothingAdmitted, ClearAdmission, HistoryDisagrees,
       Unavailable, RefuseSend, RefuseKnownMessage, Admit, CallTurn, ReceiveTurn, GiveUp, RefuseNew, AdmitNew, CallNew, Call,
       store, native
  <2> QED
    BY <2>1, <1>2
<1>6. CASE \/ SetSelection \/ CallArchive \/ DeselectArchived \/ RefuseMove
           \/ SelectDefault \/ ListMisses \/ ProbeSelected \/ ClearMissingSelection
           \/ \E e \in wire : AcceptTurn(e) \/ CreateThread(e) \/ Vanish(e)
           \/ RefuseTurn \/ RefuseCall \/ AppServerFails \/ Restart
  <2>1. UNCHANGED <<history, receipts, answered>>
    BY <1>6 DEF SetSelection, CallArchive, DeselectArchived, RefuseMove, SelectDefault, ListMisses, ProbeSelected,
       ClearMissingSelection, AcceptTurn, CreateThread, Vanish, RefuseTurn, RefuseCall, AppServerFails, Restart,
       store, native
  <2> QED
    BY <2>1, <1>2
<1>7. CASE \E e \in wire : WriteMessage(e) \/ WriteLate(e)
  <2>1. history \subseteq history' /\ UNCHANGED <<receipts, answered>>
    BY <1>7 DEF WriteMessage, WriteLate, Write, store
  <2> QED
    BY <2>1, <1>2
<1>8. CASE (\E r \in Requests : ReplayReceipt(r)) \/ AnswerReconciled
  <2>1. PICK r : \E receipt \in Settled(r) : Answer(r, receipt.thread, receipt.turn)
    BY <1>8 DEF ReplayReceipt, AnswerReconciled
  <2>2. PICK i \in DOMAIN receipts : receipts[i].request = r /\ Answer(r, receipts[i].thread, receipts[i].turn)
    BY <2>1 DEF Settled
  <2>3. Truthful([request |-> r, thread |-> receipts[i].thread, turn |-> receipts[i].turn])
    BY <2>2 DEF ToldInv, Truthful
  <2>4. UNCHANGED <<history, receipts>>
    BY <1>8 DEF ReplayReceipt, AnswerReconciled, store, native
  <2> QED
    BY <2>2, <2>3, <2>4, <1>2 DEF Answer
<1>9. CASE PublishCandidate
  <2>1. PICK t \in Threads :
          /\ Publish(t)
          /\ \/ starting.request = op.request /\ Answer(op.request, t, NoTurn)
             \/ answered' = answered
    BY <1>9 DEF PublishCandidate
  <2>2. starting \in Starting /\ starting.request \in News /\ t \in Nat /\ UNCHANGED history
    BY <1>1, <1>9, Constants DEF PublishCandidate, Typed, Starting, native
  <2> QED
    BY <2>1, <2>2, <1>2, <1>3, <1>4 DEF Answer
<1>10. CASE ReceiveThread
  <2>1. PICK e \in wire :
          \/ Publish(e.done) /\ Answer(op.request, e.done, NoTurn)
          \/ UNCHANGED <<receipts, answered>>
    BY <1>10 DEF ReceiveThread
  <2>2. starting \in Starting /\ op.request \in News /\ e.done \in Nat /\ UNCHANGED history
    BY <1>1, <1>10 DEF ReceiveThread, At, StartedUnderAdmission, OpSound, Typed, CallRecords, native
  <2> QED
    BY <2>1, <2>2, <1>2, <1>3, <1>4 DEF Answer
<1>11. CASE CompleteAdmission
  <2>1. op \in Operation /\ op.thread # NoThread /\ Pending = admitted[op.thread] /\ Pending # None
    BY <1>1, <1>11 DEF CompleteAdmission, At, Typed, Pending
  <2>2. op.thread \in Threads /\ op.thread \in Nat
    BY <2>1 DEF Operation, Threads, NoThread
  <2>3. Pending.request \in Requests
    BY <1>1, <2>1, <2>2, Constants DEF Typed, Admission
  <2>4. PICK m \in history : /\ Mappings(op.thread, Pending.request.client) = {m}
                             /\ Settle(Pending.request, op.thread, m.turn)
    BY <1>11 DEF CompleteAdmission, Confirms
  <2>5. m.turn \in Nat /\ m.thread = op.thread /\ m.client = Pending.request.client
    BY <1>1, <2>4 DEF Typed, Written, Mappings
  <2>6. Truthful([request |-> Pending.request, thread |-> op.thread, turn |-> m.turn])
    BY <2>5 DEF Truthful
  <2>7. UNCHANGED <<history, answered>>
    BY <1>11 DEF CompleteAdmission, native
  <2>8. \A i \in DOMAIN receipts' : Truthful(receipts'[i])
    BY <2>2, <2>3, <2>4, <2>5, <2>6, <2>7, ReceiptsTruthful
  <2> QED
    BY <2>7, <2>8, <1>2
<1>12. CASE ConfirmTurn
  <2>1. op \in Operation /\ op.request \in Requests /\ op.thread \in Nat
    BY <1>12, SendFields DEF ConfirmTurn, At
  <2>2. op.turn \in Nat
    BY <2>1 DEF Operation
  <2>3. PICK m \in history : Mappings(op.thread, op.request.client) = {m} /\ m.turn = op.turn
    BY <1>12 DEF ConfirmTurn
  <2>4. m.thread = op.thread /\ m.client = op.request.client
    BY <2>3 DEF Mappings
  <2>5. Truthful([request |-> op.request, thread |-> op.thread, turn |-> op.turn])
    BY <2>3, <2>4 DEF Truthful
  <2>6. UNCHANGED history /\ Settle(op.request, op.thread, op.turn) /\ Answer(op.request, op.thread, op.turn)
    BY <1>12 DEF ConfirmTurn, native
  <2>7. \A i \in DOMAIN receipts' : Truthful(receipts'[i])
    BY <2>1, <2>2, <2>5, <2>6, ReceiptsTruthful
  <2> QED
    BY <2>5, <2>6, <2>7, <1>2 DEF Answer
<1> QED
  BY <1>5, <1>6, <1>7, <1>8, <1>9, <1>10, <1>11, <1>12 DEF Next, Reconcile

-----------------------------------------------------------------------------
(* What a list may clear. *)

\* A list that has probed is fenced off by the revision, as every move raises that.
LEMMA ListStep ==
  ASSUME FenceInv, ListInv, Next
  PROVE  /\ ListInv'
         /\ op' = op /\ selection.thread # NoThread /\ selection'.thread = NoThread => selection.thread = listing.thread
<1> DEFINE Spares == op' = op /\ selection.thread # NoThread /\ selection'.thread = NoThread
                       => selection.thread = listing.thread
<1>1. selection \in [thread : Nat, revision : Nat] /\ listing \in {None} \cup Probes
  BY DEF FenceInv, Typed
<1>2. \A a, b \in Nat : a <= b => a <= b + 1 /\ a # b + 1
  OBVIOUS
\* The selection moves, and the operation under the lock with it.
<1>3. ASSUME UNCHANGED listing, selection'.revision = selection.revision + 1,
             op' # op \/ selection'.thread # NoThread \/ selection.thread = NoThread
      PROVE  ListInv' /\ Spares
  <2>1. listing # None => listing.revision \in Nat /\ listing.revision <= selection.revision
    BY <1>1 DEF ListInv, Probes
  <2>2. selection.revision \in Nat
    BY <1>1
  <2> QED
    BY <1>2, <1>3, <2>1, <2>2 DEF ListInv
<1>4. ASSUME selection' = selection, listing' = listing \/ listing' = None PROVE ListInv' /\ Spares
  BY <1>4 DEF ListInv
<1>5. CASE SetSelection \/ DeselectArchived
  <2>1. op # Idle /\ op' = Idle /\ UNCHANGED listing /\ selection'.revision = selection.revision + 1
    BY <1>5 DEF SetSelection, DeselectArchived, At, End, Point
  <2> QED
    BY <2>1, <1>3
<1>6. CASE SelectDefault
  <2>1. UNCHANGED listing /\ selection'.revision = selection.revision + 1 /\ selection.thread = NoThread
    BY <1>6 DEF SelectDefault, Point, memory
  <2> QED
    BY <2>1, <1>3
<1>7. CASE PublishCandidate
  <2>1. UNCHANGED listing /\ \E t \in Threads : selection' = [thread |-> t, revision |-> selection.revision + 1]
    BY <1>7 DEF PublishCandidate, Publish
  <2> QED
    BY <2>1, <1>3, Constants
<1>8. CASE ReceiveThread
  <2>1. op # Idle /\ op' = Idle /\ UNCHANGED listing
        /\ (selection' = selection \/ selection'.revision = selection.revision + 1)
    BY <1>8 DEF ReceiveThread, At, End, Publish
  <2> QED
    BY <2>1, <1>3, <1>4
<1>9. CASE ListMisses
  <2>1. listing' = [thread |-> selection.thread, revision |-> selection.revision, missing |-> FALSE]
        /\ UNCHANGED selection
    BY <1>9 DEF ListMisses, store
  <2> QED
    BY <2>1, <1>1 DEF ListInv
<1>10. CASE ProbeSelected
  <2>1. listing \in Probes /\ UNCHANGED selection /\ listing' \in {[listing EXCEPT !.missing = TRUE], None}
    BY <1>10, <1>1 DEF ProbeSelected, store
  <2>2. [listing EXCEPT !.missing = TRUE].thread = listing.thread
        /\ [listing EXCEPT !.missing = TRUE].revision = listing.revision
    BY <2>1 DEF Probes
  <2>3. listing # None
    BY <2>1, Apart
  <2> QED
    BY <2>1, <2>2, <2>3 DEF ListInv
<1>11. CASE ClearMissingSelection
  <2>1. listing # None /\ listing' = None
        /\ (selection.revision = listing.revision \/ UNCHANGED selection)
    BY <1>11 DEF ClearMissingSelection
  <2> QED
    BY <2>1 DEF ListInv
<1>12. CASE AppServerFails \/ Restart
  <2>1. selection' = selection /\ (listing' = listing \/ listing' = None)
    BY <1>12 DEF AppServerFails, Restart, store
  <2> QED
    BY <2>1, <1>4
<1>13. CASE \/ \E r \in Requests : ReplayReceipt(r) \/ RefuseReuse(r)
            \/ \E r \in Sends : SubmitSend(r)
            \/ \E r \in News : SubmitNew(r)
            \/ \E t \in Threads : Select(t) \/ Archive(t) \/ Read(t) \/ EndTurn(t)
            \/ Select(NoThread) \/ List
            \/ \E i \in Ids : Evict(i)
            \/ NothingStarting \/ ClearStart \/ AmbiguousStart
            \/ NothingAdmitted \/ CompleteAdmission \/ ClearAdmission \/ HistoryDisagrees
  <2>1. UNCHANGED <<selection, listing>>
    BY <1>13 DEF ReplayReceipt, RefuseReuse, SubmitSend, SubmitNew, Submit, Select, Archive, Read, List, Start,
       EndTurn, Evict, NothingStarting, ClearStart, AmbiguousStart, NothingAdmitted, CompleteAdmission,
       ClearAdmission, HistoryDisagrees, store, memory
  <2> QED
    BY <2>1, <1>4
<1>14. CASE \/ Unavailable \/ AnswerReconciled \/ RefuseSend \/ RefuseKnownMessage \/ Admit \/ CallTurn
            \/ ReceiveTurn \/ ConfirmTurn \/ GiveUp \/ RefuseNew \/ AdmitNew \/ CallNew \/ CallArchive \/ RefuseMove
            \/ RefuseTurn \/ RefuseCall
            \/ \E e \in wire : AcceptTurn(e) \/ WriteMessage(e) \/ WriteLate(e) \/ CreateThread(e) \/ Vanish(e)
  <2>1. UNCHANGED <<selection, listing>>
    BY <1>14 DEF Unavailable, AnswerReconciled, RefuseSend, RefuseKnownMessage, Admit, CallTurn, Call, ReceiveTurn,
       ConfirmTurn, GiveUp, RefuseNew, AdmitNew, CallNew, CallArchive, RefuseMove, RefuseTurn, RefuseCall, AcceptTurn,
       WriteMessage, WriteLate, Write, CreateThread, Vanish, store, memory
  <2> QED
    BY <2>1, <1>4
<1> QED
  BY <1>5, <1>6, <1>7, <1>8, <1>9, <1>10, <1>11, <1>12, <1>13, <1>14 DEF Next, Reconcile

-----------------------------------------------------------------------------
(* The theorems. *)

ThreadsInv == FenceInv /\ StartedUnderAdmission /\ ToldInv /\ ListInv

LEMMA ThreadsInvHolds == Spec => []ThreadsInv
<1>1. Init => ThreadsInv
  BY FenceInitially DEF Init, ThreadsInv, StartedUnderAdmission, ToldInv, ListInv
<1>2. ThreadsInv /\ [Next]_vars => ThreadsInv'
  <2> SUFFICES ASSUME ThreadsInv, [Next]_vars PROVE ThreadsInv'
    OBVIOUS
  <2>1. CASE Next
    BY <2>1, FenceStep, StartedStep, ToldStep, ListStep DEF ThreadsInv
  <2>2. CASE UNCHANGED vars
    <3>1. op' = op /\ UNCHANGED <<selection, starting, receipts, listing, admitted, native, wire, bounds, answered>>
      BY <2>2 DEF vars, store, memory
    <3>2. FenceInv'
      BY <3>1, FenceRests DEF ThreadsInv, FenceInv, Typed, native, bounds
    <3> QED
      BY <3>1, <3>2 DEF ThreadsInv, StartedUnderAdmission, ToldInv, Truthful, ListInv, native
  <2> QED
    BY <2>1, <2>2
<1> QED
  BY <1>1, <1>2, PTL DEF Spec

\* A message of the user is in the history at most once, however often it is sent,
\* whatever becomes of its calls, and although its receipt may be gone: sendTurn and
\* #reconcileTurnAdmission in thread-service.ts.
THEOREM MessagesLandOnce == Spec => []LandsOnce
<1>1. ThreadsInv => LandsOnce
  BY DEF ThreadsInv, FenceInv
<1> QED
  BY <1>1, ThreadsInvHolds, PTL

\* A call for a message that the app-server may still act on has its thread fenced by the
\* admission of that very message (beginTurnAdmission, completeTurnAdmission).
THEOREM MessagesAlwaysFenced == Spec => []MessagesFenced
<1>1. ThreadsInv => MessagesFenced
  BY DEF ThreadsInv, FenceInv, CallsFenced, MessagesFenced, Holds, IsMessage, Missing
<1> QED
  BY <1>1, ThreadsInvHolds, PTL

\* Whoever is told of a turn, at once, after a reconciliation or from a receipt, finds the
\* message in the history under that turn.
THEOREM AnswersAlwaysTruthful == Spec => []AnswersTruthful
<1>1. ThreadsInv => AnswersTruthful
  BY DEF ThreadsInv, ToldInv, Truthful, AnswersTruthful
<1> QED
  BY <1>1, ThreadsInvHolds, PTL

\* listThreads clears the conversation it probed, or none: it is outside the lock, and the
\* revision of the selection is its only fence.
THEOREM ListsSpareTheSelected == Spec => ListSparesSelected
<1>1. ThreadsInv /\ [Next]_vars =>
        [op' = op /\ selection.thread # NoThread /\ selection'.thread = NoThread
           => selection.thread = listing.thread]_vars
  BY ListStep DEF ThreadsInv
<1> QED
  BY <1>1, ThreadsInvHolds, PTL DEF Spec, ListSparesSelected
=============================================================================
