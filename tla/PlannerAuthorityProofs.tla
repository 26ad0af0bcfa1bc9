----------------------- MODULE PlannerAuthorityProofs -----------------------
(***************************************************************************)
(* Proofs about PlannerAuthority for every household domain, every set of  *)
(* request IDs and every bound.                                            *)
(*                                                                         *)
(* The argument: what an open transaction has done so far is described     *)
(* relative to the committed file (TxnInv, one conjunct per phase).  At    *)
(* COMMIT the description says that the working copy is the file plus one  *)
(* decision (Decided), and one decision preserves everything that is       *)
(* promised of a file (Sound) and continues its history (Continues).       *)
(***************************************************************************)
EXTENDS PlannerAuthority, SequenceTheorems, TLAPS

-----------------------------------------------------------------------------
(* Requests and batches.                                                   *)

\* What each kind of request carries.
LEMMA RequestFields ==
    ASSUME NEW r \in Requests
    PROVE  /\ Key(r) \in Keys
           /\ Key(r)[1] = r.kind
           /\ r # NoState
           /\ r.kind \in MutationKinds \/ r.kind = "planner_undo" \/ r.kind = "workspace_bootstrap"
           /\ r.kind \in MutationKinds =>
                 /\ r \in Mutations /\ r.base \in 0..MaxVersion-1 /\ r.ops \in Batches
                 /\ r.kind # "planner_undo" /\ r.kind # "workspace_bootstrap"
           /\ r.kind = "planner_undo" =>
                 r \in Undos /\ r.base \in 0..MaxVersion-1 /\ r.target \in EventIds
           /\ r.kind = "workspace_bootstrap" =>
                 r \in Bootstraps /\ r.install \in States \cup {NoState}
<1>1. CASE r \in Mutations
  BY <1>1, RequestsAssumption, AskedAssumption DEF Mutations, Keys, Key, Kinds, Requests
<1>2. CASE r \in Undos
  BY <1>2, RequestsAssumption, AskedAssumption DEF Undos, Keys, Key, Kinds, Requests
<1>3. CASE r \in Bootstraps
  BY <1>3, RequestsAssumption, AskedAssumption DEF Bootstraps, Keys, Key, Kinds, Requests
<1> QED BY <1>1, <1>2, <1>3 DEF Requests

\* A batch is a non-empty sequence of commands.
LEMMA BatchFields ==
    ASSUME NEW ops \in Batches
    PROVE  /\ Len(ops) \in Nat /\ Len(ops) >= 1
           /\ DOMAIN ops = 1..Len(ops)
           /\ \A i \in 1..Len(ops) : ops[i] \in Commands
<1>1. PICK n \in 1..MaxBatch : ops \in [1..n -> Commands]
  BY DEF Batches
<1>2. n \in Nat /\ n >= 1
  BY <1>1, RequestsAssumption
<1>3. ops \in Seq(Commands) /\ Len(ops) = n
  BY <1>1, <1>2
<1> QED BY <1>1, <1>2, <1>3

-----------------------------------------------------------------------------
(* Running a batch.  Only(s, ops, n, c): c is where the first n operations  *)
(* lead, and nothing else is.                                              *)

Only(s, ops, n, c) ==
    /\ Reaches(s, ops, n, c)
    /\ \A other \in States : Reaches(s, ops, n, other) => other = c

\* Before the first operation the batch is where it started.
LEMMA OnlyStart ==
    ASSUME NEW s \in States, NEW ops
    PROVE  Only(s, ops, 0, s)
<1>1. Reaches(s, ops, 0, s)
  <2> DEFINE path == [i \in 0..0 |-> s]
  <2>1. path \in [0..0 -> States] /\ path[0] = s
    OBVIOUS
  <2>2. \A i \in 1..0 : path[i] = Effect[path[i-1]][ops[i]]
    OBVIOUS
  <2> HIDE DEF path
  <2> QED BY <2>1, <2>2 DEF Reaches
<1>2. \A other \in States : Reaches(s, ops, 0, other) => other = s
  BY DEF Reaches
<1> QED BY <1>1, <1>2 DEF Only

\* Whoever got past operation n+1 went through a state n operations lead to.
LEMMA ReachesPrefix ==
    ASSUME NEW s, NEW ops, NEW n \in Nat, NEW m \in Nat, n < m, NEW c,
           Reaches(s, ops, m, c)
    PROVE  \E x \in States :
              /\ Reaches(s, ops, n, x)
              /\ Effect[x][ops[n+1]] \in States
              /\ Reaches(s, ops, n+1, Effect[x][ops[n+1]])
              /\ n + 1 = m => c = Effect[x][ops[n+1]]
<1>1. PICK path \in [0..m -> States] :
         /\ path[0] = s /\ path[m] = c
         /\ \A i \in 1..m : path[i] = Effect[path[i-1]][ops[i]]
  BY DEF Reaches
<1> DEFINE cut(k) == [i \in 0..k |-> path[i]]
<1>2. ASSUME NEW k \in 0..m
      PROVE  Reaches(s, ops, k, path[k])
  <2>1. cut(k) \in [0..k -> States] /\ cut(k)[0] = s /\ cut(k)[k] = path[k]
    BY <1>1
  <2>2. \A i \in 1..k : cut(k)[i] = Effect[cut(k)[i-1]][ops[i]]
    BY <1>1
  <2> QED BY <2>1, <2>2 DEF Reaches
<1>3. n \in 0..m /\ n+1 \in 0..m /\ n+1 \in 1..m /\ (n+1)-1 = n
  OBVIOUS
<1>4. path[n+1] = Effect[path[n]][ops[n+1]]
  BY <1>1, <1>3
<1>5. path[n] \in States /\ path[n+1] \in States
  BY <1>1, <1>3
<1> QED BY <1>1, <1>2, <1>3, <1>4, <1>5

\* One more operation that succeeds.
LEMMA OnlyStep ==
    ASSUME NEW s, NEW ops, NEW n \in Nat, NEW c \in States,
           Only(s, ops, n, c), Effect[c][ops[n+1]] \in States
    PROVE  Only(s, ops, n+1, Effect[c][ops[n+1]])
<1> DEFINE e == Effect[c][ops[n+1]]
<1>1. Reaches(s, ops, n+1, e)
  <2>1. PICK path \in [0..n -> States] :
           /\ path[0] = s /\ path[n] = c
           /\ \A i \in 1..n : path[i] = Effect[path[i-1]][ops[i]]
    BY DEF Only, Reaches
  <2> DEFINE longer == [i \in 0..n+1 |-> IF i = n+1 THEN e ELSE path[i]]
  <2>2. longer \in [0..n+1 -> States] /\ longer[0] = s /\ longer[n+1] = e
    BY <2>1
  <2>3. ASSUME NEW i \in 1..n+1
        PROVE  longer[i] = Effect[longer[i-1]][ops[i]]
    <3>1. CASE i = n+1
      BY <2>1, <3>1
    <3>2. CASE i \in 1..n
      BY <2>1, <3>2
    <3> QED BY <3>1, <3>2
  <2> HIDE DEF longer
  <2> QED BY <2>2, <2>3 DEF Reaches
<1>2. ASSUME NEW other \in States, Reaches(s, ops, n+1, other)
      PROVE  other = e
  <2>1. PICK x \in States : Reaches(s, ops, n, x) /\ other = Effect[x][ops[n+1]]
    BY <1>2, ReachesPrefix, n+1 \in Nat, n < n+1
  <2> QED BY <2>1 DEF Only
<1> QED BY <1>1, <1>2 DEF Only

\* One operation that fails, and the batch leads nowhere.
LEMMA OnlyDeadEnd ==
    ASSUME NEW s, NEW ops, NEW n \in Nat, NEW m \in Nat, n < m, NEW c \in States,
           Only(s, ops, n, c), Effect[c][ops[n+1]] \notin States
    PROVE  \A after \in States : ~Reaches(s, ops, m, after)
<1> SUFFICES ASSUME NEW after \in States, Reaches(s, ops, m, after)
             PROVE  FALSE
  OBVIOUS
<1>1. PICK x \in States : Reaches(s, ops, n, x) /\ Effect[x][ops[n+1]] \in States
  BY ReachesPrefix
<1> QED BY <1>1 DEF Only

-----------------------------------------------------------------------------
(* One decision, as a relation between the file d and the copy w.          *)

SetUpConsistent(d) ==
    /\ Initialized(d) <=> Births(d) # {}
    /\ \A j, k \in Births(d) : j = k

OnlyUndosRevert(d) ==
    \A i \in DOMAIN d.events : ~IsUndo(d.events[i]) => d.events[i].reverts = 0

\* What is promised of every file.
Sound(d) ==
    /\ d \in Databases
    /\ Contiguous(d)
    /\ RanWhole(d)
    /\ TakesBackTheNewest(d)
    /\ OnlyUndosRevert(d)
    /\ EffectsHaveReceipts(d)
    /\ ReceiptsHaveEffects(d)
    /\ SetUpConsistent(d)

\* r may take the household of d to state s.
Justified(d, r, s) ==
    /\ s \in States
    /\ Initialized(d)
    /\ r \in Requests
    /\ r.kind # "workspace_bootstrap"
    /\ r.base = d.workspace.version
    /\ \/ /\ r.kind \in MutationKinds
          /\ ~BaseRefused(d.workspace.state, r.ops)
          /\ RunsTo(d.workspace.state, r.ops, s)
       \/ /\ r.kind = "planner_undo"
          /\ d.events # <<>>
          /\ r.target = Len(d.events)
          /\ ~IsUndo(d.events[Len(d.events)])
          /\ s = d.events[Len(d.events)].before

Moved(d, s) ==
    [state |-> s, version |-> d.workspace.version + 1, revision |-> d.workspace.revision + 1]

NewEvent(d, r) ==
    [request |-> r, base |-> r.base, result |-> d.workspace.version + 1,
     before |-> d.workspace.state,
     reverts |-> IF r.kind = "planner_undo" THEN r.target ELSE 0]

\* r took effect and is answered with the version it made.
Effected(d, w, r, decision) ==
    \E s \in States :
        /\ Justified(d, r, s)
        /\ w.workspace = Moved(d, s)
        /\ w.events = Append(d.events, NewEvent(d, r))
        /\ decision = Accepted(d.workspace.version + 1)

\* r set the household up.
Founded(d, w, r, decision) ==
    /\ r.kind = "workspace_bootstrap" /\ ~Initialized(d) /\ r.install \in States
    /\ w.workspace = [state |-> r.install, version |-> 0, revision |-> 1]
    /\ w.events = d.events
    /\ decision = Accepted(0)

\* Why a request is refused.
Refusable(d, r, decision) ==
    \/ /\ r.kind # "workspace_bootstrap" /\ Initialized(d)
       /\ r.base # d.workspace.version
       /\ decision = Conflict(d.workspace.version)
    \/ /\ r.kind \in MutationKinds /\ Initialized(d) /\ r.base = d.workspace.version
       /\ \/ BaseRefused(d.workspace.state, r.ops)
          \/ \A s \in States : ~RunsTo(d.workspace.state, r.ops, s)
       /\ decision = DomainRejected
    \/ /\ r.kind = "planner_undo" /\ Initialized(d) /\ r.base = d.workspace.version
       /\ ~(/\ d.events # <<>>
            /\ r.target = Len(d.events)
            /\ ~IsUndo(d.events[Len(d.events)]))
       /\ decision = DomainRejected
    \/ /\ r.kind = "workspace_bootstrap" /\ Initialized(d)
       /\ decision = AlreadyInitialized

Refused(d, w, r, decision) ==
    /\ Refusable(d, r, decision)
    /\ w.workspace = d.workspace /\ w.events = d.events

\* The decision on r is made and its consequences are written, its receipt not yet.
Ruled(d, w, r, decision) ==
    /\ r \in Requests /\ d.receipts[Key(r)] = NoReceipt
    /\ Effected(d, w, r, decision) \/ Founded(d, w, r, decision) \/ Refused(d, w, r, decision)

Decided(d, w, r, decision) ==
    /\ Ruled(d, w, r, decision)
    /\ w.receipts = [d.receipts EXCEPT ![Key(r)] = [request |-> r, decision |-> decision]]

\* The fields of a file that is sound.
LEMMA DatabaseFields ==
    ASSUME NEW d, Sound(d)
    PROVE  /\ d.workspace \in Workspaces /\ d.events \in Seq(Events)
           /\ d.receipts \in [Keys -> Receipts \cup {NoReceipt}]
           /\ d.workspace.version \in 0..MaxVersion
           /\ d.workspace.version = Len(d.events)
           /\ d.workspace.revision \in Nat
           /\ Initialized(d) => d.workspace.state \in States
           /\ ~Initialized(d) => d.workspace.state = NoState /\ d.events = <<>>
<1>1. /\ d.workspace \in Workspaces /\ d.events \in Seq(Events)
      /\ d.receipts \in [Keys -> Receipts \cup {NoReceipt}]
  BY DEF Sound, Databases
<1>2. /\ d.workspace.version \in 0..MaxVersion /\ d.workspace.revision \in Nat
      /\ Initialized(d) => d.workspace.state \in States
      /\ ~Initialized(d) => d.workspace.state = NoState
  BY <1>1, RequestsAssumption DEF Workspaces, NoWorkspace, Initialized
<1>3. d.workspace.version = Len(d.events) /\ (~Initialized(d) => d.events = <<>>)
  BY DEF Sound, Contiguous
<1> QED BY <1>1, <1>2, <1>3

\* A decision is one, and it says "accepted" only of what took effect.
LEMMA RuledDecision ==
    ASSUME NEW d, NEW w, NEW r, NEW decision, Sound(d), Ruled(d, w, r, decision)
    PROVE  /\ decision \in Decisions
           /\ w.workspace \in Workspaces /\ w.events \in Seq(Events)
<1>1. CASE Effected(d, w, r, decision)
  <2>1. PICK s \in States :
           /\ Justified(d, r, s) /\ w.workspace = Moved(d, s)
           /\ w.events = Append(d.events, NewEvent(d, r))
           /\ decision = Accepted(d.workspace.version + 1)
    BY <1>1 DEF Effected
  <2>2. /\ r \in Mutations \cup Undos /\ r.base \in 0..MaxVersion-1
        /\ r.base = d.workspace.version
        /\ r.kind = "planner_undo" => r.target \in EventIds
    BY <2>1, RequestFields DEF Justified
  <2>3. d.workspace.version + 1 \in 0..MaxVersion /\ 0 \in EventIds
    BY <2>2, RequestsAssumption DEF EventIds
  <2>4. Moved(d, s) \in Workspaces
    BY <2>3, DatabaseFields DEF Moved, Workspaces
  <2>5. NewEvent(d, r) \in Events
    BY <2>1, <2>2, <2>3, DatabaseFields DEF NewEvent, Events, Justified
  <2>6. Append(d.events, NewEvent(d, r)) \in Seq(Events)
    BY <2>5, DatabaseFields
  <2>7. decision \in Decisions
    BY <2>1, <2>3 DEF Accepted, Decisions
  <2> QED BY <2>1, <2>4, <2>6, <2>7
<1>2. CASE Founded(d, w, r, decision)
  BY <1>2, DatabaseFields, RequestsAssumption DEF Founded, Accepted, Decisions, Workspaces
<1>3. CASE Refused(d, w, r, decision)
  BY <1>3, DatabaseFields, RequestsAssumption
     DEF Refused, Refusable, Decisions, Conflict, DomainRejected, AlreadyInitialized
<1> QED BY <1>1, <1>2, <1>3 DEF Ruled

\* A receipt for a request is not the absence of one.
LEMMA ReceiptPresent ==
    ASSUME NEW r \in Requests, NEW decision \in Decisions
    PROVE  /\ [request |-> r, decision |-> decision] # NoReceipt
           /\ [request |-> r, decision |-> decision] \in Receipts
BY RequestFields DEF NoReceipt, Receipts

\* The working copy is a database once the receipt is in.
LEMMA DecidedTyped ==
    ASSUME NEW d, NEW w, NEW r, NEW decision,
           Sound(d), w = [workspace |-> w.workspace, events |-> w.events, receipts |-> w.receipts],
           Decided(d, w, r, decision)
    PROVE  /\ w \in Databases
           /\ r \in Requests /\ Key(r) \in Keys /\ decision \in Decisions
           /\ w.receipts[Key(r)] = [request |-> r, decision |-> decision]
           /\ \A k \in Keys : k # Key(r) => w.receipts[k] = d.receipts[k]
<1>1. r \in Requests /\ Key(r) \in Keys /\ decision \in Decisions
  BY RuledDecision, RequestFields DEF Decided, Ruled
<1>2. d.receipts \in [Keys -> Receipts \cup {NoReceipt}]
  BY DatabaseFields
<1>3. w.receipts \in [Keys -> Receipts \cup {NoReceipt}]
  BY <1>1, <1>2, ReceiptPresent DEF Decided
<1>4. w.workspace \in Workspaces /\ w.events \in Seq(Events)
  BY RuledDecision DEF Decided
<1>5. w \in Databases
  BY <1>3, <1>4 DEF Databases
<1> QED BY <1>1, <1>2, <1>5 DEF Decided

\* Events of a sound file: what a row holds.
LEMMA EventFields ==
    ASSUME NEW d, Sound(d), NEW i \in 1..Len(d.events)
    PROVE  /\ i \in DOMAIN d.events
           /\ d.events[i] \in Events
           /\ d.events[i].request \in Requests
           /\ Key(d.events[i].request) \in Keys
           /\ d.events[i].request.kind # "workspace_bootstrap"
           /\ d.events[i].before \in States
           /\ d.receipts[Key(d.events[i].request)] = ReceiptOf(d, i)
           /\ d.receipts[Key(d.events[i].request)] # NoReceipt
<1>1. d.events \in Seq(Events) /\ i \in DOMAIN d.events
  BY DatabaseFields
<1>2. d.events[i] \in Events
  BY <1>1
<1>3. d.events[i].request \in Mutations \cup Undos /\ d.events[i].before \in States
  BY <1>2 DEF Events
<1>4. d.events[i].request \in Requests /\ d.events[i].request.kind # "workspace_bootstrap"
  BY <1>3, RequestsAssumption DEF Requests, Mutations, Undos
<1>5. d.receipts[Key(d.events[i].request)] = ReceiptOf(d, i)
  BY <1>1 DEF Sound, EffectsHaveReceipts
<1>6. ReceiptOf(d, i) # NoReceipt
  BY <1>4, RequestFields DEF ReceiptOf, NoReceipt
<1> QED BY <1>1, <1>2, <1>3, <1>4, <1>5, <1>6, RequestFields

\* A file whose receipts moved by one decision and whose history did not stays sound.
LEMMA RefusedSound ==
    ASSUME NEW d, NEW w, NEW r, NEW decision,
           Sound(d), w = [workspace |-> w.workspace, events |-> w.events, receipts |-> w.receipts],
           Decided(d, w, r, decision), Refused(d, w, r, decision)
    PROVE  Sound(w) /\ \A v \in 0..Len(d.events) : StateAt(w, v) = StateAt(d, v)
<1>1. w.workspace = d.workspace /\ w.events = d.events
  BY DEF Refused
<1>2. decision.status # "accepted"
  BY DEF Refused, Refusable, Conflict, DomainRejected, AlreadyInitialized
<1>3. d.receipts[Key(r)] = NoReceipt
  BY DEF Decided, Ruled
<1>4. /\ w.receipts[Key(r)] = [request |-> r, decision |-> decision]
      /\ \A k \in Keys : k # Key(r) => w.receipts[k] = d.receipts[k]
      /\ w \in Databases /\ Key(r) \in Keys
  BY DecidedTyped
<1>5. \A v : StateAt(w, v) = StateAt(d, v)
  BY <1>1 DEF StateAt
<1>6. Initialized(w) <=> Initialized(d)
  BY <1>1 DEF Initialized
<1>7. Contiguous(w) /\ RanWhole(w) /\ TakesBackTheNewest(w) /\ OnlyUndosRevert(w)
  BY <1>1, <1>5, <1>6 DEF Sound, Contiguous, RanWhole, TakesBackTheNewest, OnlyUndosRevert
<1>8. EffectsHaveReceipts(w)
  BY <1>1, <1>3, <1>4, EventFields, DatabaseFields DEF EffectsHaveReceipts, ReceiptOf
<1>9. \A k \in Keys : /\ w.receipts[k] # NoReceipt /\ w.receipts[k].decision.status = "accepted"
                      <=> d.receipts[k] # NoReceipt /\ d.receipts[k].decision.status = "accepted"
  BY <1>2, <1>3, <1>4
<1>10. Births(w) = Births(d)
  BY <1>9 DEF Births
<1>11. ReceiptsHaveEffects(w)
  BY <1>1, <1>2, <1>3, <1>4 DEF Sound, ReceiptsHaveEffects, ReceiptOf
<1> QED BY <1>4, <1>5, <1>6, <1>7, <1>8, <1>10, <1>11 DEF Sound, SetUpConsistent

\* Setting the household up founds a sound file.
LEMMA FoundedSound ==
    ASSUME NEW d, NEW w, NEW r, NEW decision,
           Sound(d), w = [workspace |-> w.workspace, events |-> w.events, receipts |-> w.receipts],
           Decided(d, w, r, decision), Founded(d, w, r, decision)
    PROVE  Sound(w)
<1>1. /\ d.events = <<>> /\ w.events = <<>> /\ ~Initialized(d)
      /\ w.workspace.version = 0 /\ w.workspace.state = r.install /\ r.install \in States
  BY DatabaseFields DEF Founded
<1>2. Initialized(w)
  BY <1>1, RequestsAssumption DEF Initialized, NoWorkspace
<1>3. /\ w.receipts[Key(r)] = [request |-> r, decision |-> decision]
      /\ \A k \in Keys : k # Key(r) => w.receipts[k] = d.receipts[k]
      /\ w \in Databases /\ Key(r) \in Keys /\ Key(r)[1] = "workspace_bootstrap"
      /\ [request |-> r, decision |-> decision] # NoReceipt
      /\ decision.status = "accepted"
  BY DecidedTyped, ReceiptPresent, RequestFields DEF Founded, Accepted
<1>4. /\ Contiguous(w) /\ RanWhole(w) /\ TakesBackTheNewest(w) /\ OnlyUndosRevert(w)
      /\ EffectsHaveReceipts(w)
  BY <1>1, <1>2 DEF Contiguous, RanWhole, TakesBackTheNewest, OnlyUndosRevert, EffectsHaveReceipts
<1>5. ReceiptsHaveEffects(w)
  BY <1>1, <1>3 DEF Sound, ReceiptsHaveEffects, ReceiptOf
<1>6. Births(d) = {}
  BY <1>1 DEF Sound, SetUpConsistent
<1>7. Births(w) = {Key(r)}
  BY <1>3, <1>6 DEF Births
<1> QED BY <1>2, <1>3, <1>4, <1>5, <1>7 DEF Sound, SetUpConsistent

\* A change that takes effect extends the history by itself.
LEMMA EffectedSound ==
    ASSUME NEW d, NEW w, NEW r, NEW decision,
           Sound(d), w = [workspace |-> w.workspace, events |-> w.events, receipts |-> w.receipts],
           Decided(d, w, r, decision), Effected(d, w, r, decision)
    PROVE  /\ Sound(w)
           /\ Len(w.events) >= Len(d.events)
           /\ \A v \in 0..Len(d.events) : StateAt(w, v) = StateAt(d, v)
<1> DEFINE n == Len(d.events)
<1>1. PICK s \in States :
         /\ Justified(d, r, s) /\ w.workspace = Moved(d, s)
         /\ w.events = Append(d.events, NewEvent(d, r))
         /\ decision = Accepted(d.workspace.version + 1)
  BY DEF Effected
<1>2. /\ d.workspace.version = n /\ n \in Nat /\ d.events \in Seq(Events)
      /\ d.workspace.state \in States
  BY <1>1, DatabaseFields DEF Justified
<1>3. /\ Len(w.events) = n+1 /\ DOMAIN w.events = 1..n+1 /\ DOMAIN d.events = 1..n
      /\ w.events[n+1] = NewEvent(d, r)
      /\ \A i \in 1..n : w.events[i] = d.events[i]
  BY <1>1, <1>2
<1>4. w.workspace.state = s /\ w.workspace.version = n+1
  BY <1>1, <1>2 DEF Moved
<1>5. \A v \in 0..n : StateAt(w, v) = StateAt(d, v)
  <2> TAKE v \in 0..n
  <2>1. CASE v = n
    BY <1>2, <1>3, <2>1 DEF StateAt, NewEvent
  <2>2. CASE v < n
    <3>1. v+1 \in 1..n /\ v # n /\ v # n+1
      BY <2>2, <1>2
    <3> QED BY <1>3, <3>1 DEF StateAt
  <2> QED BY <2>1, <2>2, <1>2
<1>6. StateAt(w, n+1) = s
  BY <1>3, <1>4 DEF StateAt
<1>7. Initialized(w)
  BY <1>4, RequestsAssumption DEF Initialized, NoWorkspace
<1>8. /\ r \in Requests /\ Key(r)[1] = r.kind /\ r.kind # "workspace_bootstrap"
      /\ Key(r) \in Keys /\ d.receipts[Key(r)] = NoReceipt
      /\ w \in Databases
      /\ w.receipts[Key(r)] = [request |-> r, decision |-> Accepted(n+1)]
      /\ \A k \in Keys : k # Key(r) => w.receipts[k] = d.receipts[k]
  <2>1. r \in Requests /\ r.kind # "workspace_bootstrap" /\ d.receipts[Key(r)] = NoReceipt
    BY <1>1 DEF Justified, Decided, Ruled
  <2>2. decision = Accepted(n+1)
    BY <1>1, <1>2
  <2>3. /\ w \in Databases
        /\ w.receipts[Key(r)] = [request |-> r, decision |-> decision]
        /\ \A k \in Keys : k # Key(r) => w.receipts[k] = d.receipts[k]
    BY DecidedTyped
  <2> QED BY <2>1, <2>2, <2>3, RequestFields
<1>9. /\ NewEvent(d, r).request = r /\ NewEvent(d, r).base = n /\ NewEvent(d, r).result = n+1
      /\ NewEvent(d, r).before = d.workspace.state
      /\ NewEvent(d, r).reverts = IF r.kind = "planner_undo" THEN r.target ELSE 0
  BY <1>1, <1>2 DEF NewEvent, Justified
<1>10. Contiguous(w)
  <2>1. \A i \in 1..n+1 : w.events[i].base = i-1 /\ w.events[i].result = i
    BY <1>2, <1>3, <1>9 DEF Sound, Contiguous
  <2> QED BY <1>3, <1>4, <1>7, <2>1 DEF Contiguous
<1>11. RanWhole(w)
  <2> SUFFICES ASSUME NEW i \in 1..n+1, ~IsUndo(w.events[i])
               PROVE  /\ RunsTo(w.events[i].before, w.events[i].request.ops, StateAt(w, i))
                      /\ ~BaseRefused(w.events[i].before, w.events[i].request.ops)
    BY <1>3 DEF RanWhole
  <2>1. CASE i \in 1..n
    BY <1>2, <1>3, <1>5, <2>1 DEF Sound, RanWhole
  <2>2. CASE i = n+1
    BY <1>1, <1>3, <1>6, <1>9, <2>2 DEF Justified, IsUndo
  <2> QED BY <1>2, <2>1, <2>2
<1>12. TakesBackTheNewest(w)
  <2> SUFFICES ASSUME NEW i \in 1..n+1, IsUndo(w.events[i])
               PROVE  /\ i > 1
                      /\ w.events[i].reverts = i - 1
                      /\ ~IsUndo(w.events[i-1])
                      /\ StateAt(w, i) = w.events[i-1].before
    BY <1>3 DEF TakesBackTheNewest
  <2>1. CASE i \in 1..n
    <3>1. i \in DOMAIN d.events /\ IsUndo(d.events[i])
      BY <1>3, <2>1
    <3>2. /\ i > 1 /\ d.events[i].reverts = i - 1
          /\ ~IsUndo(d.events[i-1]) /\ StateAt(d, i) = d.events[i-1].before
      BY <3>1 DEF Sound, TakesBackTheNewest
    <3>3. i-1 \in 1..n /\ i \in 0..n
      BY <3>2, <2>1
    <3> QED BY <1>3, <1>5, <2>1, <3>2, <3>3
  <2>2. CASE i = n+1
    <3>1. r.kind = "planner_undo"
      BY <1>3, <1>9, <2>2 DEF IsUndo
    <3>2. /\ d.events # <<>> /\ r.target = n /\ ~IsUndo(d.events[n])
          /\ s = d.events[n].before
      BY <1>1, <3>1, RequestFields DEF Justified
    <3>3. n >= 1 /\ n \in 1..n
      BY <1>2, <3>2
    <3> QED BY <1>3, <1>6, <1>9, <2>2, <3>1, <3>2, <3>3
  <2> QED BY <1>2, <2>1, <2>2
<1>13. EffectsHaveReceipts(w)
  <2> SUFFICES ASSUME NEW i \in 1..n+1
               PROVE  w.receipts[Key(w.events[i].request)] = ReceiptOf(w, i)
    BY <1>3 DEF EffectsHaveReceipts
  <2>1. CASE i \in 1..n
    BY <1>3, <1>8, <2>1, EventFields DEF ReceiptOf
  <2>2. CASE i = n+1
    BY <1>3, <1>8, <1>9, <2>2 DEF ReceiptOf
  <2> QED BY <1>2, <2>1, <2>2
<1>14. ReceiptsHaveEffects(w)
  <2> SUFFICES ASSUME NEW k \in Keys, k[1] # "workspace_bootstrap", w.receipts[k] # NoReceipt,
                      w.receipts[k].decision.status = "accepted"
               PROVE  \E i \in 1..n+1 : w.receipts[k] = ReceiptOf(w, i)
    BY <1>3 DEF ReceiptsHaveEffects
  <2>1. CASE k = Key(r)
    <3>1. w.receipts[k] = ReceiptOf(w, n+1)
      BY <1>3, <1>8, <1>9, <2>1 DEF ReceiptOf
    <3> QED BY <1>2, <3>1
  <2>2. CASE k # Key(r)
    <3>1. PICK i \in 1..n : d.receipts[k] = ReceiptOf(d, i)
      BY <1>3, <1>8, <2>2 DEF Sound, ReceiptsHaveEffects
    <3>2. ReceiptOf(d, i) = ReceiptOf(w, i) /\ i \in 1..n+1
      BY <1>2, <1>3 DEF ReceiptOf
    <3> QED BY <1>8, <2>2, <3>1, <3>2
  <2> QED BY <2>1, <2>2
<1>15. SetUpConsistent(w)
  <2>1. Births(w) = Births(d)
    BY <1>8 DEF Births
  <2>2. Initialized(d)
    BY <1>1 DEF Justified
  <2> QED BY <1>7, <2>1, <2>2 DEF Sound, SetUpConsistent
<1>16. OnlyUndosRevert(w)
  BY <1>2, <1>3, <1>9 DEF Sound, OnlyUndosRevert, IsUndo
<1> QED BY <1>2, <1>3, <1>5, <1>8, <1>10, <1>11, <1>12, <1>13, <1>14, <1>15, <1>16 DEF Sound

\* One decision keeps a file sound and continues its history.
LEMMA DecidedSound ==
    ASSUME NEW d, NEW w, NEW r, NEW decision,
           Sound(d), w = [workspace |-> w.workspace, events |-> w.events, receipts |-> w.receipts],
           Decided(d, w, r, decision)
    PROVE  Sound(w) /\ Continues(d, w)
<1>1. \A k \in Keys : d.receipts[k] # NoReceipt => w.receipts[k] = d.receipts[k]
  BY DecidedTyped DEF Decided, Ruled
<1>2. Len(d.events) \in Nat
  BY DatabaseFields
<1>3. CASE Effected(d, w, r, decision)
  BY <1>1, <1>3, EffectedSound DEF Continues
<1>4. CASE Founded(d, w, r, decision)
  BY <1>1, <1>4, FoundedSound DEF Continues, Founded
<1>5. CASE Refused(d, w, r, decision)
  BY <1>1, <1>2, <1>5, RefusedSound DEF Continues, Refused
<1> QED BY <1>3, <1>4, <1>5 DEF Decided, Ruled

-----------------------------------------------------------------------------
(* The inductive invariant.                                                *)

NoReceiptYet == db.receipts[Key(txn.request)] = NoReceipt

\* In "execute": the operations before txn.next lead to the candidate.
Executing ==
    /\ txn.work = db /\ NoReceiptYet
    /\ Initialized(db) /\ txn.request.kind \in MutationKinds
    /\ txn.request.base = db.workspace.version
    /\ ~BaseRefused(db.workspace.state, txn.request.ops)
    /\ txn.next \in 1..Len(txn.request.ops)+1
    /\ txn.candidate \in States
    /\ Only(db.workspace.state, txn.request.ops, txn.next - 1, txn.candidate)

\* In "event": the workspace row has moved, nothing else has.
Updated ==
    /\ NoReceiptYet
    /\ txn.candidate = db.workspace.state
    /\ txn.work.events = db.events /\ txn.work.receipts = db.receipts
    /\ \E s \in States : Justified(db, txn.request, s) /\ txn.work.workspace = Moved(db, s)

\* In "commit" of a replay.
Replayed ==
    /\ txn.work = db
    /\ db.receipts[Key(txn.request)] = [request |-> txn.request, decision |-> txn.decision]

TxnInv ==
    /\ At("receipt_lookup") => txn.work = db /\ txn.next = 1
    /\ At("read") => txn.work = db /\ txn.next = 1 /\ NoReceiptYet
    /\ At("execute") => Executing
    /\ At("event") => Updated
    /\ At("receipt") => /\ txn.work.receipts = db.receipts
                        /\ Ruled(db, txn.work, txn.request, txn.decision)
    /\ At("commit") => Replayed \/ Decided(db, txn.work, txn.request, txn.decision)

IInv == TypeOK /\ Sound(db) /\ TxnInv /\ AnswersStored

\* An empty file is sound.
LEMMA InitIInv == Init => IInv
<1> SUFFICES ASSUME Init PROVE IInv
  OBVIOUS
<1>1. /\ db.workspace = NoWorkspace /\ db.events = <<>>
      /\ db.receipts = [k \in Keys |-> NoReceipt]
      /\ txn = NoTxn /\ answers = {}
      /\ db = [workspace |-> db.workspace, events |-> db.events, receipts |-> db.receipts]
  BY DEF Init
<1>2. db \in Databases
  <2>1. /\ db.workspace \in Workspaces /\ db.events \in Seq(Events)
        /\ db.receipts \in [Keys -> Receipts \cup {NoReceipt}]
    BY <1>1 DEF Workspaces
  <2> QED BY <1>1, <2>1 DEF Databases
<1>3. Births(db) = {} /\ ~Initialized(db)
  BY <1>1 DEF Births, Initialized
<1>4. Sound(db)
  BY <1>1, <1>2, <1>3
     DEF Sound, SetUpConsistent, Contiguous, RanWhole, TakesBackTheNewest,
         OnlyUndosRevert, EffectsHaveReceipts, ReceiptsHaveEffects, NoWorkspace
<1> QED BY <1>1, <1>2, <1>4 DEF IInv, TypeOK, TxnInv, AnswersStored, At, NoTxn

\* What every step that leaves the file alone has to show.
LEMMA FileUntouched ==
    ASSUME IInv, UNCHANGED <<db, answers>>
    PROVE  TypeOK' /\ TxnInv' <=> IInv'
BY DEF IInv, TypeOK, Sound, AnswersStored, SetUpConsistent

\* The fields of an open transaction.
LEMMA TxnFields ==
    ASSUME TypeOK, NEW phase \in Phases, At(phase)
    PROVE  /\ txn \in Transactions
           /\ txn.request \in Asked /\ txn.request \in Requests
           /\ txn.work \in Databases /\ txn.next \in Nat
           /\ txn.candidate \in States \cup {NoState}
           /\ txn.decision \in Decisions \cup {NoDecision}
BY AskedAssumption DEF TypeOK, At, NoTxn, Phases, Transactions

\* A decided refusal only waits for its receipt.
LEMMA DecideStep ==
    ASSUME IInv, NEW decision \in Decisions, At("read"), Decide(decision),
           Refusable(db, txn.request, decision)
    PROVE  IInv'
<1>1. txn.work = db /\ NoReceiptYet
  BY DEF IInv, TxnInv
<1>2. /\ txn \in Transactions /\ txn.request \in Requests
      /\ txn' = [txn EXCEPT !.phase = "receipt", !.decision = decision]
  BY TxnFields DEF IInv, Decide, Phases
<1>3. TypeOK'
  BY <1>2 DEF IInv, TypeOK, Transactions, Phases, Decide
<1>4. /\ txn'.phase = "receipt" /\ txn'.work = db /\ txn'.request = txn.request
      /\ txn'.decision = decision /\ db' = db
  BY <1>1, <1>2 DEF Transactions, Decide
<1>5. Ruled(db, db, txn.request, decision)
  BY <1>1, <1>2 DEF Ruled, Refused, NoReceiptYet
<1>6. TxnInv'
  BY <1>4, <1>5 DEF TxnInv, At
<1> QED BY <1>3, <1>6, FileUntouched DEF Decide

\* BEGIN copies the file.
LEMMA BeginStep ==
    ASSUME IInv, NEW r \in Asked, Begin(r)
    PROVE  IInv'
<1>1. /\ txn' = [phase |-> "receipt_lookup", request |-> r, work |-> db,
                 next |-> 1, candidate |-> NoState, decision |-> NoDecision]
      /\ r \in Requests /\ db \in Databases
  BY AskedAssumption DEF Begin, IInv, TypeOK
<1>2. TypeOK'
  BY <1>1 DEF Begin, IInv, TypeOK, Transactions, Phases
<1>3. TxnInv'
  BY <1>1 DEF Begin, TxnInv, At
<1> QED BY <1>2, <1>3, FileUntouched DEF Begin

\* Rolling back, on purpose or by dying, leaves nothing behind.
LEMMA RollbackStep ==
    ASSUME IInv, txn' = NoTxn, UNCHANGED <<db, answers>>
    PROVE  IInv'
<1>1. TypeOK' /\ TxnInv'
  BY DEF IInv, TypeOK, TxnInv, At, NoTxn
<1> QED BY <1>1, FileUntouched

\* A replay answers with what is stored.
LEMMA ReplayStep ==
    ASSUME IInv, ReplayReceipt
    PROVE  IInv'
<1>1. /\ txn \in Transactions /\ txn.request \in Requests /\ txn.work = db
      /\ Key(txn.request) \in Keys /\ txn.request # NoState
  BY TxnFields, RequestFields DEF ReplayReceipt, IInv, TxnInv, Phases
<1>2. /\ Stored = db.receipts[Key(txn.request)] /\ Stored.request = txn.request
      /\ txn' = [txn EXCEPT !.phase = "commit", !.decision = Stored.decision]
  BY <1>1 DEF ReplayReceipt, Stored
<1>3. Stored \in Receipts
  BY <1>1, <1>2, DatabaseFields DEF IInv, NoReceipt
<1>4. /\ Stored.decision \in Decisions
      /\ Stored = [request |-> txn.request, decision |-> Stored.decision]
  BY <1>2, <1>3 DEF Receipts
<1>5. TypeOK'
  BY <1>1, <1>2, <1>4 DEF IInv, TypeOK, Transactions, Phases, ReplayReceipt
<1>6. /\ txn'.phase = "commit" /\ txn'.work = db /\ txn'.request = txn.request
      /\ txn'.decision = Stored.decision /\ db' = db
  BY <1>1, <1>2 DEF Transactions, ReplayReceipt
<1>7. TxnInv'
  BY <1>2, <1>4, <1>6 DEF TxnInv, At, Replayed
<1> QED BY <1>5, <1>7, FileUntouched DEF ReplayReceipt

\* A missed lookup is known to have missed.
LEMMA MissStep ==
    ASSUME IInv, MissReceipt
    PROVE  IInv'
<1>1. /\ txn \in Transactions /\ txn.work = db /\ NoReceiptYet /\ txn.next = 1
      /\ txn' = [txn EXCEPT !.phase = "read"]
  BY TxnFields DEF MissReceipt, Stored, NoReceiptYet, IInv, TxnInv, Phases
<1>2. TypeOK'
  BY <1>1 DEF IInv, TypeOK, Transactions, Phases, MissReceipt
<1>3. TxnInv'
  BY <1>1 DEF TxnInv, At, NoReceiptYet, Transactions, MissReceipt
<1> QED BY <1>2, <1>3, FileUntouched DEF MissReceipt

\* Nothing reverts the newest change: an undo names the change before itself.
LEMMA NewestNotReverted ==
    ASSUME NEW d, Sound(d), NEW i \in 1..Len(d.events)
    PROVE  d.events[i].reverts # Len(d.events)
<1>1. Len(d.events) \in Nat /\ i \in DOMAIN d.events
  BY DatabaseFields
<1>2. CASE IsUndo(d.events[i])
  BY <1>1, <1>2 DEF Sound, TakesBackTheNewest
<1>3. CASE ~IsUndo(d.events[i])
  BY <1>1, <1>3 DEF Sound, OnlyUndosRevert
<1> QED BY <1>2, <1>3

\* The four ways to be refused.
LEMMA RefusalStep ==
    ASSUME IInv, VersionConflict \/ RejectBase \/ RejectUndo \/ RejectBootstrap
    PROVE  IInv'
<1>1. At("read")
  BY DEF VersionConflict, RejectBase, CurrentMutation, RejectUndo, CurrentUndo,
         RejectBootstrap, CurrentBootstrap
<1>2. txn.work = db /\ txn.request \in Requests
  BY <1>1, TxnFields DEF IInv, TxnInv, Phases
<1>3. CASE VersionConflict
  <2>1. Conflict(db.workspace.version) \in Decisions
    BY DatabaseFields DEF IInv, Conflict, Decisions
  <2> QED BY <1>1, <1>2, <1>3, <2>1, DecideStep DEF VersionConflict, Refusable
<1>4. DomainRejected \in Decisions /\ AlreadyInitialized \in Decisions
  BY RequestsAssumption DEF DomainRejected, AlreadyInitialized, Decisions
<1>5. CASE RejectBase
  BY <1>1, <1>2, <1>4, <1>5, DecideStep DEF RejectBase, CurrentMutation, Refusable
<1>6. CASE RejectBootstrap
  BY <1>1, <1>2, <1>4, <1>6, DecideStep DEF RejectBootstrap, CurrentBootstrap, Refusable
<1>7. CASE RejectUndo
  <2>1. ASSUME db.events # <<>>, txn.request.target = Len(db.events),
               ~IsUndo(db.events[Len(db.events)])
        PROVE  Undoable(txn.request.target)
    <3>1. Len(db.events) \in 1..Len(db.events)
      BY <2>1, DatabaseFields DEF IInv
    <3>2. Latest.result = db.workspace.version
      BY <1>2, <3>1, EventFields DEF IInv, Sound, Contiguous, Latest
    <3>3. ~HasRevert(Len(db.events))
      <4> SUFFICES ASSUME NEW i \in 1..Len(db.events), db.events[i].reverts = Len(db.events)
                   PROVE  FALSE
        BY <1>2, DatabaseFields DEF HasRevert, IInv
      <4> QED BY NewestNotReverted DEF IInv
    <3> QED BY <1>2, <2>1, <3>2, <3>3 DEF Undoable, Latest
  <2>2. Refusable(db, txn.request, DomainRejected)
    BY <1>2, <1>7, <2>1 DEF RejectUndo, CurrentUndo, Refusable
  <2> QED BY <1>1, <1>4, <1>7, <2>2, DecideStep DEF RejectUndo
<1> QED BY <1>3, <1>5, <1>6, <1>7

\* A batch starts where the household stands.
LEMMA StartBatchStep ==
    ASSUME IInv, StartBatch
    PROVE  IInv'
<1>1. /\ txn \in Transactions /\ txn.request \in Requests /\ txn.work = db /\ NoReceiptYet
      /\ txn.next = 1 /\ Initialized(db) /\ txn.request.kind \in MutationKinds
      /\ txn.request.base = db.workspace.version
      /\ ~BaseRefused(db.workspace.state, txn.request.ops)
      /\ txn' = [txn EXCEPT !.phase = "execute", !.candidate = db.workspace.state]
      /\ UNCHANGED <<db, answers>>
  BY TxnFields DEF StartBatch, CurrentMutation, IInv, TxnInv, Phases
<1>2. db.workspace.state \in States /\ txn.request.ops \in Batches
  BY <1>1, DatabaseFields, RequestFields DEF IInv
<1>3. TypeOK'
  BY <1>1, <1>2 DEF IInv, TypeOK, Transactions, Phases
<1>4. /\ txn'.phase = "execute" /\ txn'.work = db /\ txn'.request = txn.request
      /\ txn'.candidate = db.workspace.state
  BY <1>1 DEF Transactions
<1>5. txn'.next \in 1..Len(txn.request.ops)+1 /\ txn'.next - 1 = 0
  BY <1>1, <1>2, BatchFields DEF Transactions
<1>6. Only(db.workspace.state, txn.request.ops, 0, db.workspace.state)
  BY <1>2, OnlyStart
<1>7. Executing'
  BY <1>1, <1>2, <1>4, <1>5, <1>6 DEF Executing, NoReceiptYet
<1>8. TxnInv'
  BY <1>4, <1>7 DEF TxnInv, At
<1> QED BY <1>1, <1>3, <1>8, FileUntouched

\* One more operation of the batch.
LEMMA ExecuteStep ==
    ASSUME IInv, ExecuteOperation
    PROVE  IInv'
<1> DEFINE r == txn.request
           s == db.workspace.state
           n == txn.next - 1
<1>1. /\ txn \in Transactions /\ r \in Requests /\ Executing
      /\ txn.next \in Nat /\ txn.next <= Len(r.ops) /\ Outcome # NoState
      /\ txn' = [txn EXCEPT !.next = @ + 1, !.candidate = Outcome]
      /\ UNCHANGED <<db, answers>>
  BY TxnFields DEF ExecuteOperation, IInv, TxnInv, Phases
<1>2. r.ops \in Batches /\ Len(r.ops) \in Nat /\ txn.next \in 1..Len(r.ops)
  BY <1>1, RequestFields, BatchFields DEF Executing
<1>3. n \in Nat /\ n+1 = txn.next
  BY <1>2
<1>4. Outcome \in States
  <2>1. r.ops[txn.next] \in Commands /\ txn.candidate \in States
    BY <1>1, <1>2, BatchFields DEF Executing
  <2> QED BY <1>1, <2>1, RequestsAssumption DEF Outcome
<1>5. Only(s, r.ops, n+1, Outcome)
  BY <1>1, <1>3, <1>4, OnlyStep DEF Executing, Outcome
<1>6. TypeOK'
  <2> DEFINE c == Outcome
             t == [txn EXCEPT !.next = @ + 1, !.candidate = c]
  <2>1. c \in States /\ txn.next + 1 \in Nat /\ txn' = t
    BY <1>1, <1>4
  <2> HIDE DEF c
  <2>2. t \in Transactions
    BY <1>1, <2>1 DEF Transactions
  <2> HIDE DEF t
  <2> QED BY <1>1, <2>1, <2>2 DEF IInv, TypeOK
<1>7. /\ txn'.phase = txn.phase /\ txn'.work = txn.work /\ txn'.request = r
      /\ txn'.candidate = Outcome /\ txn'.next = txn.next + 1
  BY <1>1 DEF Transactions
<1>8. txn'.next \in 1..Len(r.ops)+1 /\ txn'.next - 1 = n+1
  BY <1>2, <1>3, <1>7
<1> HIDE DEF n
<1>9. Executing'
  BY <1>1, <1>4, <1>5, <1>7, <1>8 DEF Executing, NoReceiptYet
<1>10. TxnInv'
  BY <1>7, <1>9 DEF TxnInv, At, ExecuteOperation
<1> QED BY <1>1, <1>6, <1>10, FileUntouched

\* An operation without an outcome means that no run of the batch has one.
LEMMA RejectOperationStep ==
    ASSUME IInv, RejectOperation
    PROVE  IInv'
<1> DEFINE r == txn.request
           s == db.workspace.state
           n == txn.next - 1
<1>1. /\ txn \in Transactions /\ r \in Requests /\ Executing
      /\ txn.next \in Nat /\ txn.next <= Len(r.ops) /\ Outcome = NoState
      /\ txn' = [txn EXCEPT !.phase = "receipt", !.decision = DomainRejected]
      /\ UNCHANGED <<db, answers>>
  BY TxnFields DEF RejectOperation, Decide, IInv, TxnInv, Phases
<1>2. r.ops \in Batches /\ Len(r.ops) \in Nat /\ txn.next \in 1..Len(r.ops)
  BY <1>1, RequestFields, BatchFields DEF Executing
<1>3. n \in Nat /\ n+1 = txn.next /\ n < Len(r.ops)
  BY <1>2
<1>4. \A after \in States : ~RunsTo(s, r.ops, after)
  BY <1>1, <1>2, <1>3, OnlyDeadEnd, RequestsAssumption DEF Executing, Outcome, RunsTo
<1>5. Refusable(db, r, DomainRejected) /\ DomainRejected \in Decisions
  BY <1>1, <1>4, RequestsAssumption DEF Executing, Refusable, DomainRejected, Decisions
<1>6. Ruled(db, db, r, DomainRejected)
  BY <1>1, <1>5 DEF Executing, Ruled, Refused, NoReceiptYet
<1>7. TypeOK'
  BY <1>1, <1>5 DEF IInv, TypeOK, Transactions, Phases
<1>8. /\ txn'.phase = "receipt" /\ txn'.work = db /\ txn'.request = r
      /\ txn'.decision = DomainRejected
  BY <1>1 DEF Transactions, Executing
<1>9. TxnInv'
  BY <1>1, <1>6, <1>8 DEF TxnInv, At
<1> QED BY <1>1, <1>7, <1>9, FileUntouched

\* Moving the workspace row to a justified state.
LEMMA UpdateStep ==
    ASSUME IInv, NEW s \in States, txn \in Transactions, txn.work = db, NoReceiptYet,
           Justified(db, txn.request, s), UpdateWorkspace(s), UNCHANGED <<db, answers>>
    PROVE  IInv'
<1>1. Moved(db, s) \in Workspaces /\ db \in Databases /\ db.workspace.state \in States
  <2>1. txn.request.base \in 0..MaxVersion-1
    BY RequestFields DEF Justified
  <2>2. db.workspace.version + 1 \in 0..MaxVersion
    BY <2>1, RequestsAssumption DEF Justified
  <2> QED BY <2>2, DatabaseFields DEF IInv, Sound, Moved, Workspaces, Justified
<1> DEFINE w == [db EXCEPT !.workspace = Moved(db, s)]
<1>2. txn' = [txn EXCEPT !.phase = "event", !.candidate = db.workspace.state, !.work = w]
  BY <1>1 DEF UpdateWorkspace, Moved, Transactions, Databases
<1>3. /\ w \in Databases /\ w.workspace = Moved(db, s)
      /\ w.events = db.events /\ w.receipts = db.receipts
  BY <1>1 DEF Databases
<1> HIDE DEF w
<1>4. TypeOK'
  BY <1>1, <1>2, <1>3 DEF IInv, TypeOK, Transactions, Phases
<1>5. /\ txn'.phase = "event" /\ txn'.work = w /\ txn'.request = txn.request
      /\ txn'.candidate = db.workspace.state
  BY <1>2 DEF Transactions
<1>6. Updated'
  BY <1>3, <1>5 DEF Updated, NoReceiptYet, Justified, Moved, Initialized, IsUndo
<1>7. TxnInv'
  BY <1>5, <1>6 DEF TxnInv, At
<1> QED BY <1>4, <1>7, FileUntouched

\* A batch that ran whole, and an undo of the newest change, are justified.
LEMMA UpdateSteps ==
    ASSUME IInv, UpdateWithBatch \/ UpdateWithUndo
    PROVE  IInv'
<1>1. CASE UpdateWithBatch
  <2>1. /\ txn \in Transactions /\ txn.request \in Requests /\ Executing
        /\ txn.next > Len(txn.request.ops)
        /\ UpdateWorkspace(txn.candidate) /\ UNCHANGED <<db, answers>>
    BY <1>1, TxnFields DEF UpdateWithBatch, IInv, TxnInv, Phases
  <2>2. /\ txn.request.ops \in Batches /\ Len(txn.request.ops) \in Nat
        /\ txn.request.kind # "workspace_bootstrap"
    BY <2>1, RequestFields, BatchFields DEF Executing
  <2>3. txn.next - 1 = Len(txn.request.ops)
    BY <2>1, <2>2 DEF Executing
  <2>4. Justified(db, txn.request, txn.candidate)
    BY <2>1, <2>2, <2>3 DEF Executing, Only, Justified, RunsTo
  <2> QED BY <2>1, <2>4, UpdateStep DEF Executing
<1>2. CASE UpdateWithUndo
  <2>1. /\ txn \in Transactions /\ txn.request \in Requests /\ txn.work = db /\ NoReceiptYet
        /\ CurrentUndo /\ Undoable(txn.request.target)
        /\ UpdateWorkspace(Latest.before) /\ UNCHANGED <<db, answers>>
    BY <1>2, TxnFields DEF UpdateWithUndo, CurrentUndo, IInv, TxnInv, Phases
  <2>2. Len(db.events) \in 1..Len(db.events)
    BY <2>1, DatabaseFields DEF IInv, Undoable
  <2>3. Latest = db.events[Len(db.events)] /\ Latest.before \in States
    BY <2>1, <2>2, EventFields DEF IInv, Latest
  <2>4. Justified(db, txn.request, Latest.before)
    BY <2>1, <2>3 DEF CurrentUndo, Undoable, Justified
  <2> QED BY <2>1, <2>3, <2>4, UpdateStep
<1> QED BY <1>1, <1>2

\* The event that explains the update, with its undo basis.
LEMMA InsertEventStep ==
    ASSUME IInv, InsertEvent
    PROVE  IInv'
<1>1. /\ txn \in Transactions /\ txn.request \in Requests /\ txn.work \in Databases
      /\ Updated /\ UNCHANGED <<db, answers>>
  BY TxnFields DEF InsertEvent, IInv, TxnInv, Phases
<1>2. PICK s \in States : Justified(db, txn.request, s) /\ txn.work.workspace = Moved(db, s)
  BY <1>1 DEF Updated
<1> DEFINE e == NewEvent(db, txn.request)
           v == db.workspace.version + 1
           history == Append(db.events, e)
           w == [txn.work EXCEPT !.events = history]
<1>3. txn.work.workspace.version = v /\ txn.candidate = db.workspace.state
  BY <1>1, <1>2 DEF Moved, Updated
<1>4. txn' = [txn EXCEPT !.phase = "receipt", !.work = w, !.decision = Accepted(v)]
  BY <1>1, <1>3 DEF InsertEvent, NewEvent, Updated, Transactions, Databases
<1>5. /\ w.workspace = txn.work.workspace /\ w.receipts = db.receipts
      /\ w.events = Append(db.events, e)
      /\ w = [workspace |-> w.workspace, events |-> w.events, receipts |-> w.receipts]
  <2> HIDE DEF history
  <2>1. /\ w.workspace = txn.work.workspace /\ w.receipts = txn.work.receipts
        /\ w.events = history
        /\ w = [workspace |-> w.workspace, events |-> w.events, receipts |-> w.receipts]
    BY <1>1 DEF Databases
  <2> QED BY <1>1, <2>1 DEF Updated, history
<1> HIDE DEF w
<1>6. Effected(db, w, txn.request, Accepted(v))
  BY <1>2, <1>5 DEF Effected
<1>7. Ruled(db, w, txn.request, Accepted(v))
  BY <1>1, <1>6 DEF Ruled, Updated, NoReceiptYet
<1>8. /\ Accepted(v) \in Decisions
      /\ w.workspace \in Workspaces /\ w.events \in Seq(Events)
  BY <1>7, RuledDecision DEF IInv
<1>9. w \in Databases
  BY <1>5, <1>8, DatabaseFields DEF IInv, Databases
<1>10. TypeOK'
  BY <1>1, <1>4, <1>8, <1>9 DEF IInv, TypeOK, Transactions, Phases
<1>11. /\ txn'.phase = "receipt" /\ txn'.work = w /\ txn'.request = txn.request
       /\ txn'.decision = Accepted(v)
  BY <1>1, <1>4 DEF Transactions
<1>12. TxnInv'
  BY <1>1, <1>5, <1>7, <1>11 DEF TxnInv, At
<1> QED BY <1>1, <1>10, <1>12, FileUntouched

\* The first workspace row.
LEMMA InsertWorkspaceStep ==
    ASSUME IInv, InsertWorkspace
    PROVE  IInv'
<1> DEFINE row == [state |-> txn.request.install, version |-> 0, revision |-> 1]
           w == [db EXCEPT !.workspace = row]
<1>1. /\ txn \in Transactions /\ txn.request \in Requests /\ txn.work = db /\ NoReceiptYet
      /\ ~Initialized(db) /\ txn.request.kind = "workspace_bootstrap"
      /\ txn.request.install \in States
      /\ UNCHANGED <<db, answers>> /\ db \in Databases
  BY TxnFields, RequestFields
     DEF InsertWorkspace, CurrentBootstrap, IInv, TypeOK, TxnInv, Phases
<1>2. txn' = [txn EXCEPT !.phase = "receipt", !.decision = Accepted(0), !.work = w]
  BY <1>1 DEF InsertWorkspace, Transactions, Databases
<1>3. /\ w.workspace = row /\ w.events = db.events /\ w.receipts = db.receipts
      /\ w = [workspace |-> w.workspace, events |-> w.events, receipts |-> w.receipts]
  BY <1>1 DEF Databases
<1> HIDE DEF w
<1>4. Founded(db, w, txn.request, Accepted(0))
  BY <1>1, <1>3 DEF Founded
<1>5. Ruled(db, w, txn.request, Accepted(0))
  BY <1>1, <1>4 DEF Ruled, NoReceiptYet
<1>6. /\ Accepted(0) \in Decisions
      /\ w.workspace \in Workspaces /\ w.events \in Seq(Events)
  BY <1>5, RuledDecision DEF IInv
<1>7. w \in Databases
  BY <1>3, <1>6, DatabaseFields DEF IInv, Databases
<1>8. TypeOK'
  BY <1>1, <1>2, <1>6, <1>7 DEF IInv, TypeOK, Transactions, Phases
<1>9. /\ txn'.phase = "receipt" /\ txn'.work = w /\ txn'.request = txn.request
      /\ txn'.decision = Accepted(0)
  BY <1>1, <1>2 DEF Transactions
<1>10. TxnInv'
  BY <1>1, <1>3, <1>5, <1>9 DEF TxnInv, At
<1> QED BY <1>1, <1>8, <1>10, FileUntouched

\* The receipt completes the decision.
LEMMA InsertReceiptStep ==
    ASSUME IInv, InsertReceipt
    PROVE  IInv'
<1> DEFINE r == txn.request
           receipt == [request |-> r, decision |-> txn.decision]
           w == [txn.work EXCEPT !.receipts = [db.receipts EXCEPT ![Key(r)] = receipt]]
<1>1. /\ txn \in Transactions /\ r \in Requests /\ txn.work \in Databases
      /\ txn.work.receipts = db.receipts /\ Ruled(db, txn.work, r, txn.decision)
      /\ UNCHANGED <<db, answers>>
  BY TxnFields DEF InsertReceipt, IInv, TxnInv, Phases
<1>2. txn' = [txn EXCEPT !.phase = "commit", !.work = w]
  BY <1>1 DEF InsertReceipt, Transactions, Databases
<1>3. /\ w.workspace = txn.work.workspace /\ w.events = txn.work.events
      /\ w.receipts = [db.receipts EXCEPT ![Key(r)] = receipt]
      /\ w = [workspace |-> w.workspace, events |-> w.events, receipts |-> w.receipts]
  BY <1>1 DEF Databases
<1> HIDE DEF w
<1>4. Ruled(db, w, r, txn.decision)
  BY <1>1, <1>3 DEF Ruled, Effected, Founded, Refused
<1>5. Decided(db, w, r, txn.decision)
  BY <1>3, <1>4 DEF Decided
<1>6. w \in Databases
  BY <1>3, <1>5, DecidedTyped DEF IInv
<1>7. TypeOK'
  BY <1>1, <1>2, <1>6 DEF IInv, TypeOK, Transactions, Phases
<1>8. /\ txn'.phase = "commit" /\ txn'.work = w /\ txn'.request = r
      /\ txn'.decision = txn.decision
  BY <1>1, <1>2 DEF Transactions
<1>9. TxnInv'
  BY <1>1, <1>5, <1>8 DEF TxnInv, At
<1> QED BY <1>1, <1>7, <1>9, FileUntouched

\* What COMMIT publishes: nothing, or one decision.
LEMMA CommitPublishes ==
    ASSUME IInv, Commit
    PROVE  /\ txn.request \in Requests /\ txn.request \in Asked
           /\ \/ db' = db
              \/ Decided(db, db', txn.request, txn.decision)
           /\ db' = [workspace |-> db'.workspace, events |-> db'.events, receipts |-> db'.receipts]
           /\ db'.receipts[Key(txn.request)] =
                 [request |-> txn.request, decision |-> txn.decision]
           /\ txn.decision \in Decisions
<1>1. /\ txn.request \in Requests /\ txn.request \in Asked
      /\ txn.work \in Databases /\ db' = txn.work
      /\ Replayed \/ Decided(db, txn.work, txn.request, txn.decision)
  BY TxnFields DEF Commit, IInv, TxnInv, Phases
<1>2. txn.work = [workspace |-> txn.work.workspace, events |-> txn.work.events,
                  receipts |-> txn.work.receipts]
  BY <1>1 DEF Databases
<1>3. CASE Replayed
  <2>1. db.receipts[Key(txn.request)] \in Receipts \cup {NoReceipt}
    BY <1>1, RequestFields, DatabaseFields DEF IInv
  <2>2. /\ db.receipts[Key(txn.request)] = [request |-> txn.request, decision |-> txn.decision]
        /\ txn.work = db
    BY <1>3 DEF Replayed
  <2>3. txn.decision \in Decisions
    BY <1>1, <2>1, <2>2, RequestFields DEF Receipts, NoReceipt
  <2> QED BY <1>1, <1>2, <2>2, <2>3
<1>4. CASE Decided(db, txn.work, txn.request, txn.decision)
  BY <1>1, <1>2, <1>4, DecidedTyped DEF IInv
<1> QED BY <1>1, <1>3, <1>4

\* COMMIT continues the history.
LEMMA CommitContinues ==
    ASSUME IInv, Commit
    PROVE  Sound(db)' /\ Continues(db, db')
<1>1. CASE db' = db
  <2>1. Len(db.events) \in Nat
    BY DatabaseFields DEF IInv
  <2>2. Sound(db')
    BY <1>1 DEF IInv
  <2> QED BY <1>1, <2>1, <2>2 DEF Continues, Sound, SetUpConsistent
<1>2. CASE Decided(db, db', txn.request, txn.decision)
  <2>1. Sound(db') /\ Continues(db, db')
    BY <1>2, CommitPublishes, DecidedSound DEF IInv
  <2> QED BY <2>1 DEF Sound, SetUpConsistent
<1> QED BY <1>1, <1>2, CommitPublishes

LEMMA CommitStep ==
    ASSUME IInv, Commit
    PROVE  IInv'
<1>1. Sound(db)' /\ Continues(db, db')
  BY CommitContinues
<1>2. /\ txn' = NoTxn
      /\ answers' = answers \cup {[request |-> txn.request, decision |-> txn.decision]}
  BY DEF Commit
<1>3. TypeOK' /\ TxnInv'
  BY <1>1, <1>2, CommitPublishes DEF IInv, TypeOK, TxnInv, At, NoTxn, Sound
<1>4. ASSUME NEW answer \in answers
      PROVE  db'.receipts[Key(answer.request)] = answer
  <2>1. /\ answer.request \in Requests /\ answer.decision \in Decisions
        /\ answer = [request |-> answer.request, decision |-> answer.decision]
        /\ db.receipts[Key(answer.request)] = answer
    BY DEF IInv, TypeOK, AnswersStored
  <2>2. db.receipts[Key(answer.request)] # NoReceipt
    BY <2>1, ReceiptPresent
  <2> QED BY <1>1, <2>1, <2>2, RequestFields DEF Continues
<1>5. AnswersStored'
  BY <1>2, <1>4, CommitPublishes DEF AnswersStored
<1> QED BY <1>1, <1>3, <1>5 DEF IInv

\* Every step preserves the invariant.
LEMMA NextIInv == IInv /\ [Next]_vars => IInv'
<1> SUFFICES ASSUME IInv, [Next]_vars PROVE IInv'
  OBVIOUS
<1>1. ASSUME NEW r \in Asked, Begin(r) PROVE IInv'
  BY <1>1, BeginStep
<1>2. CASE Throw \/ Rollback
  BY <1>2, RollbackStep DEF Throw, Rollback
<1>3. CASE ReplayReceipt
  BY <1>3, ReplayStep
<1>4. CASE MissReceipt
  BY <1>4, MissStep
<1>5. CASE VersionConflict \/ RejectBase \/ RejectUndo \/ RejectBootstrap
  BY <1>5, RefusalStep
<1>6. CASE StartBatch
  BY <1>6, StartBatchStep
<1>7. CASE ExecuteOperation
  BY <1>7, ExecuteStep
<1>8. CASE RejectOperation
  BY <1>8, RejectOperationStep
<1>9. CASE UpdateWithBatch \/ UpdateWithUndo
  BY <1>9, UpdateSteps
<1>10. CASE InsertEvent
  BY <1>10, InsertEventStep
<1>11. CASE InsertWorkspace
  BY <1>11, InsertWorkspaceStep
<1>12. CASE InsertReceipt
  BY <1>12, InsertReceiptStep
<1>13. CASE Commit
  BY <1>13, CommitStep
<1>14. CASE UNCHANGED vars
  <2>1. TypeOK' /\ TxnInv'
    BY <1>14 DEF vars, IInv, TypeOK, TxnInv, At, NoReceiptYet, Executing, Updated, Replayed
  <2> QED BY <1>14, <2>1, FileUntouched DEF vars
<1> QED
  BY <1>1, <1>2, <1>3, <1>4, <1>5, <1>6, <1>7, <1>8, <1>9, <1>10, <1>11, <1>12, <1>13, <1>14
     DEF Next

\* The strengthened invariant holds throughout.
THEOREM Invariance == Spec => []IInv
BY InitIInv, NextIInv, PTL DEF Spec

-----------------------------------------------------------------------------
(* What follows from it.                                                   *)

\* The variables keep their types.
THEOREM TypeCorrect == Spec => []TypeOK
<1>1. IInv => TypeOK
  BY DEF IInv
<1> QED BY <1>1, Invariance, PTL

\* Accepted changes are consecutive (optimistic concurrency is never fooled).
THEOREM VersionsStayContiguous == Spec => []VersionsContiguous
<1>1. IInv => VersionsContiguous
  BY DEF IInv, Sound, VersionsContiguous
<1> QED BY <1>1, Invariance, PTL

\* Every change in the history is a batch that ran whole.
THEOREM BatchesStayWhole == Spec => []BatchesRanWhole
<1>1. IInv => BatchesRanWhole
  BY DEF IInv, Sound, BatchesRanWhole
<1> QED BY <1>1, Invariance, PTL

\* Every undo took back exactly the change before it.
THEOREM UndoAlwaysRestores == Spec => []UndoRestores
<1>1. IInv => UndoRestores
  BY DEF IInv, Sound, UndoRestores
<1> QED BY <1>1, Invariance, PTL

\* Accepted receipts and events are one to one: no request takes effect twice.
THEOREM EffectsOnce == Spec => []EffectMatchesReceipt
<1>1. IInv => EffectMatchesReceipt
  BY DEF IInv, Sound, EffectMatchesReceipt
<1> QED BY <1>1, Invariance, PTL

\* The workspace is born once.
THEOREM StaysBornOnce == Spec => []BornOnce
<1>1. IInv => BornOnce
  BY DEF IInv, Sound, SetUpConsistent, BornOnce
<1> QED BY <1>1, Invariance, PTL

\* What a caller was told is stored.
THEOREM AnswersStayStored == Spec => []AnswersStored
<1>1. IInv => AnswersStored
  BY DEF IInv
<1> QED BY <1>1, Invariance, PTL

\* History is append-only: versions read and decisions told hold for good.
THEOREM HistoryStaysImmutable == Spec => HistoryImmutable
<1>1. IInv /\ [Next]_vars => [Continues(db, db')]_vars
  <2> SUFFICES ASSUME IInv, Next PROVE Continues(db, db')
    BY DEF vars
  <2>1. CASE Commit
    BY <2>1, CommitContinues
  <2>2. CASE UNCHANGED db
    <3>1. Len(db.events) \in Nat
      BY DatabaseFields DEF IInv
    <3> QED BY <2>2, <3>1 DEF Continues
  <2>3. Commit \/ UNCHANGED db
    BY DEF Next, Begin, ReplayReceipt, MissReceipt, Throw, Rollback, VersionConflict,
           Decide, InsertEvent, InsertReceipt, RejectBase, StartBatch, ExecuteOperation,
           RejectOperation, UpdateWithBatch, RejectUndo, UpdateWithUndo, RejectBootstrap,
           InsertWorkspace
  <2> QED BY <2>1, <2>2, <2>3
<1> QED BY <1>1, Invariance, PTL DEF Spec, HistoryImmutable

-----------------------------------------------------------------------------
(* The ledger.  COMMIT is one step of it, or none when it answers a replay; *)
(* every other statement, throw or crash is none.                          *)

\* The file read as a ledger.
LedgerOf(d) ==
    [i \in DOMAIN d.events |->
        [request |-> d.events[i].request, before |-> d.events[i].before,
         after |-> StateAt(d, i)]]

\* The file read as a ledger: its version, its newest entry, its open keys.
LEMMA LedgerReading ==
    ASSUME NEW d, Sound(d)
    PROVE  /\ Len(LedgerOf(d)) = Len(d.events) /\ Len(d.events) \in Nat
           /\ d.workspace.version = Len(d.events)
           /\ Initialized(d) <=> d.workspace.state # NoState
           /\ d.events # <<>> <=> Len(d.events) > 0
           /\ \A i \in 1..Len(d.events) :
                 /\ LedgerOf(d)[i].request = d.events[i].request
                 /\ LedgerOf(d)[i].before = d.events[i].before
<1>1. d.events \in Seq(Events) /\ d.workspace.version = Len(d.events)
  BY DatabaseFields
<1>2. Initialized(d) <=> d.workspace.state # NoState
  BY DatabaseFields, RequestsAssumption
<1> QED BY <1>1, <1>2 DEF LedgerOf

\* A change that takes effect appends one entry.
LEMMA LedgerExtended ==
    ASSUME NEW d, NEW w, NEW r, NEW decision, NEW s \in States,
           Sound(d), w = [workspace |-> w.workspace, events |-> w.events, receipts |-> w.receipts],
           Decided(d, w, r, decision), Justified(d, r, s),
           w.workspace = Moved(d, s), w.events = Append(d.events, NewEvent(d, r))
    PROVE  LedgerOf(w) = Append(LedgerOf(d),
              [request |-> r, before |-> d.workspace.state, after |-> s])
<1> DEFINE n == Len(d.events)
           entry == [request |-> r, before |-> d.workspace.state, after |-> s]
<1>1. d.events \in Seq(Events) /\ n \in Nat /\ d.workspace.version = n
  BY DatabaseFields
<1>2. /\ DOMAIN w.events = 1..n+1 /\ Len(w.events) = n+1
      /\ w.events[n+1] = NewEvent(d, r)
      /\ \A i \in 1..n : w.events[i] = d.events[i]
  BY <1>1
<1>3. \A i \in 1..n : StateAt(w, i) = StateAt(d, i)
  <2> TAKE i \in 1..n
  <2>1. CASE i = n
    BY <1>1, <1>2, <2>1 DEF StateAt, NewEvent
  <2>2. CASE i < n
    <3>1. i+1 \in 1..n /\ i # n /\ i # n+1
      BY <1>1, <2>2
    <3> QED BY <1>2, <3>1 DEF StateAt
  <2> QED BY <1>1, <2>1, <2>2
<1>4. StateAt(w, n+1) = s
  BY <1>2 DEF StateAt, Moved
<1>5. /\ DOMAIN LedgerOf(w) = 1..n+1
      /\ \A i \in 1..n : LedgerOf(w)[i] = LedgerOf(d)[i]
      /\ LedgerOf(w)[n+1] = entry
      /\ LedgerOf(w) = [i \in 1..n+1 |-> LedgerOf(w)[i]]
  BY <1>1, <1>2, <1>3, <1>4 DEF LedgerOf, NewEvent
<1> DEFINE L == LedgerOf(d)
           M == LedgerOf(w)
           S == {M[i] : i \in 1..n+1}
<1>6. L = [i \in 1..n |-> L[i]]
  BY <1>1 DEF LedgerOf
<1>7. /\ M[n+1] = entry /\ entry \in S
      /\ \A i \in 1..n : L[i] = M[i] /\ L[i] \in S
  <2>1. M[n+1] = entry /\ \A i \in 1..n : L[i] = M[i]
    BY <1>5
  <2> HIDE DEF L, M, entry
  <2>2. \A i \in 1..n+1 : M[i] \in S
    OBVIOUS
  <2> QED BY <1>1, <2>1, <2>2
<1> HIDE DEF L, M, entry, S
<1>8. L \in Seq(S) /\ Len(L) = n
  <2>1. L \in [1..n -> S]
    BY <1>6, <1>7
  <2> QED BY <1>1, <2>1
<1>9. M \in Seq(S) /\ Len(M) = n+1
  BY <1>1, <1>5 DEF M, S
<1>10. /\ Append(L, entry) \in Seq(S) /\ Len(Append(L, entry)) = n+1
       /\ \A i \in 1..n+1 : Append(L, entry)[i] = IF i = n+1 THEN entry ELSE L[i]
  BY <1>1, <1>7, <1>8
<1>11. \A i \in 1..n+1 : Append(L, entry)[i] = M[i]
  BY <1>1, <1>7, <1>10
<1>12. M = Append(L, entry)
  BY <1>9, <1>10, <1>11, SeqEqual
<1> QED BY <1>12 DEF L, M, entry

\* The operators the ledger brings along are those of the authority.
LEMMA SameVocabulary ==
    /\ \A r : Ledger!Key(r) = Key(r)
    /\ Ledger!Keys = Keys
    /\ \A s, ops : Ledger!BaseRefused(s, ops) <=> BaseRefused(s, ops)
    /\ \A s, ops, c : Ledger!RunsTo(s, ops, c) <=> RunsTo(s, ops, c)
    /\ Ledger!Undecided = NoReceipt
    /\ \A v : Ledger!Accepted(v) = Accepted(v)
    /\ \A v : Ledger!Conflict(v) = Conflict(v)
    /\ Ledger!DomainRejected = DomainRejected
    /\ Ledger!AlreadyInitialized = AlreadyInitialized
BY DEF Ledger!Key, Key, Ledger!Keys, Keys, Ledger!Kinds, Kinds, Ledger!BaseRefused, BaseRefused,
       Ledger!RunsTo, RunsTo, Ledger!Reaches, Reaches, Ledger!Undecided, NoReceipt,
       Ledger!Accepted, Accepted, Ledger!Conflict, Conflict,
       Ledger!DomainRejected, DomainRejected, Ledger!AlreadyInitialized, AlreadyInitialized

\* One decision is one step of the ledger.
LEMMA DecidedIsLedgerStep ==
    ASSUME Sound(db), NEW r \in Asked, NEW decision,
           db' = [workspace |-> db'.workspace, events |-> db'.events, receipts |-> db'.receipts],
           Decided(db, db', r, decision)
    PROVE  Ledger!DecideRequest(r)
<1>1. /\ db'.receipts = [db.receipts EXCEPT ![Key(r)] = [request |-> r, decision |-> decision]]
      /\ db.receipts[Key(r)] = NoReceipt /\ r \in Requests
  BY DEF Decided, Ruled
<1>2. Ledger!Open(r) /\ Ledger!Rule(r, decision)
  BY <1>1, SameVocabulary DEF Ledger!Open, Ledger!Rule
<1>3. Ledger!Version = Len(db.events) /\ db.workspace.version = Len(db.events)
  BY LedgerReading DEF Ledger!Version, LedgerOf
<1>4. CASE Refused(db, db', r, decision)
  <2>1. db'.workspace = db.workspace /\ db'.events = db.events /\ Refusable(db, r, decision)
    BY <1>4 DEF Refused
  <2>2. UNCHANGED <<LedgerOf(db), db.workspace.state>>
    BY <2>1 DEF LedgerOf, StateAt
  <2>3. r.kind \in MutationKinds \/ r.kind = "planner_undo" \/ r.kind = "workspace_bootstrap"
    BY <1>1, RequestFields
  <2>4. Initialized(db) => db.workspace.state # NoState
    BY LedgerReading
  <2>5. CASE /\ r.kind # "workspace_bootstrap" /\ Initialized(db)
             /\ r.base # db.workspace.version
             /\ decision = Conflict(db.workspace.version)
    <3>1. Ledger!RefuseStale(r)
      BY <1>2, <1>3, <2>2, <2>4, <2>5, SameVocabulary DEF Ledger!RefuseStale, LedgerOf
    <3> QED BY <3>1 DEF Ledger!DecideRequest
  <2>6. CASE /\ r.kind \in MutationKinds /\ Initialized(db) /\ r.base = db.workspace.version
             /\ \/ BaseRefused(db.workspace.state, r.ops)
                \/ \A s \in States : ~RunsTo(db.workspace.state, r.ops, s)
             /\ decision = DomainRejected
    <3>1. Ledger!UpToDate(r)
      BY <1>2, <1>3, <2>4, <2>6 DEF Ledger!UpToDate
    <3>2. Ledger!RefuseBatch(r)
      BY <1>2, <2>2, <2>6, <3>1, SameVocabulary DEF Ledger!RefuseBatch, LedgerOf
    <3> QED BY <3>2 DEF Ledger!DecideRequest
  <2>7. CASE /\ r.kind = "planner_undo" /\ Initialized(db) /\ r.base = db.workspace.version
             /\ ~(/\ db.events # <<>>
                  /\ r.target = Len(db.events)
                  /\ ~IsUndo(db.events[Len(db.events)]))
             /\ decision = DomainRejected
    <3>1. Ledger!UpToDate(r)
      BY <1>2, <1>3, <2>4, <2>7 DEF Ledger!UpToDate
    <3>2. ~Ledger!Revocable(r.target)
      BY <1>3, <2>7, LedgerReading DEF Ledger!Revocable, Ledger!Newest, IsUndo, LedgerOf
    <3>3. Ledger!RefuseUndo(r)
      BY <1>2, <2>2, <2>7, <3>1, <3>2, SameVocabulary DEF Ledger!RefuseUndo, LedgerOf
    <3> QED BY <3>3 DEF Ledger!DecideRequest
  <2>8. CASE /\ r.kind = "workspace_bootstrap" /\ Initialized(db)
             /\ decision = AlreadyInitialized
    <3>1. Ledger!RefuseSetUp(r)
      BY <1>2, <2>2, <2>4, <2>8, SameVocabulary DEF Ledger!RefuseSetUp, LedgerOf
    <3> QED BY <3>1 DEF Ledger!DecideRequest
  <2> QED BY <2>1, <2>5, <2>6, <2>7, <2>8 DEF Refusable
<1>5. CASE Founded(db, db', r, decision)
  <2>1. UNCHANGED LedgerOf(db)
    BY <1>5, DatabaseFields DEF Founded, LedgerOf
  <2> QED
    BY <1>2, <1>5, <2>1, SameVocabulary, LedgerReading, RequestsAssumption
       DEF Founded, Ledger!DecideRequest, Ledger!SetUp, LedgerOf
<1>6. CASE Effected(db, db', r, decision)
  <2>1. PICK s \in States :
           /\ Justified(db, r, s) /\ db'.workspace = Moved(db, s)
           /\ db'.events = Append(db.events, NewEvent(db, r))
           /\ decision = Accepted(db.workspace.version + 1)
    BY <1>6 DEF Effected
  <2>2. LedgerOf(db)' = Append(LedgerOf(db),
              [request |-> r, before |-> db.workspace.state, after |-> s])
    BY <2>1, LedgerExtended
  <2>3. Ledger!Extend(r, s)
    <3>1. db.workspace.state' = s
      BY <2>1 DEF Moved
    <3>2. Ledger!Rule(r, Ledger!Accepted(Ledger!Version + 1))
      BY <1>2, <1>3, <2>1, SameVocabulary DEF Ledger!Rule
    <3> QED BY <2>2, <3>1, <3>2 DEF Ledger!Extend, LedgerOf
  <2>4. Ledger!UpToDate(r)
    BY <1>2, <1>3, <2>1, LedgerReading DEF Ledger!UpToDate, Justified
  <2>5. CASE /\ r.kind \in MutationKinds
             /\ ~BaseRefused(db.workspace.state, r.ops)
             /\ RunsTo(db.workspace.state, r.ops, s)
    <3>1. Ledger!AcceptBatch(r)
      BY <2>3, <2>4, <2>5, SameVocabulary DEF Ledger!AcceptBatch
    <3> QED BY <3>1 DEF Ledger!DecideRequest
  <2>6. CASE /\ r.kind = "planner_undo"
             /\ db.events # <<>>
             /\ r.target = Len(db.events)
             /\ ~IsUndo(db.events[Len(db.events)])
             /\ s = db.events[Len(db.events)].before
    <3>1. Len(db.events) \in 1..Len(db.events)
      BY <2>6, LedgerReading
    <3>2. Ledger!Newest.before = s /\ Ledger!Revocable(r.target)
      BY <1>3, <2>6, <3>1, LedgerReading
         DEF Ledger!Revocable, Ledger!Newest, IsUndo, LedgerOf
    <3>3. Ledger!AcceptUndo(r)
      BY <2>3, <2>4, <2>6, <3>2 DEF Ledger!AcceptUndo, Ledger!Extend
    <3> QED BY <3>3 DEF Ledger!DecideRequest
  <2> QED BY <2>1, <2>5, <2>6 DEF Justified
<1> QED BY <1>4, <1>5, <1>6 DEF Decided, Ruled

\* An empty file is an empty ledger.
LEMMA LedgerStarts == Init => Ledger!LedgerInit
BY SameVocabulary DEF Init, Ledger!LedgerInit, NoWorkspace

\* Every statement of the service is a ledger step or none.
LEMMA LedgerSteps == IInv /\ [Next]_vars => [Ledger!LedgerNext]_(Ledger!ledgerVars)
<1> SUFFICES ASSUME IInv, [Next]_vars
             PROVE  Ledger!LedgerNext \/ UNCHANGED Ledger!ledgerVars
  OBVIOUS
<1>1. ASSUME db' = db PROVE UNCHANGED Ledger!ledgerVars
  BY <1>1 DEF Ledger!ledgerVars, StateAt
<1>2. CASE Commit
  <2>1. CASE db' = db
    BY <1>1, <2>1
  <2>2. CASE Decided(db, db', txn.request, txn.decision)
    BY <1>2, <2>2, CommitPublishes, DecidedIsLedgerStep DEF IInv, Ledger!LedgerNext
  <2> QED BY <1>2, <2>1, <2>2, CommitPublishes
<1>3. Commit \/ db' = db
  BY DEF Next, Begin, ReplayReceipt, MissReceipt, Throw, Rollback, VersionConflict,
         Decide, InsertEvent, InsertReceipt, RejectBase, StartBatch, ExecuteOperation,
         RejectOperation, UpdateWithBatch, RejectUndo, UpdateWithUndo, RejectBootstrap,
         InsertWorkspace, vars
<1> QED BY <1>1, <1>2, <1>3

\* The authority implements the ledger.
THEOREM AuthorityImplementsLedger == Spec => ImplementsLedger
BY LedgerStarts, LedgerSteps, Invariance, PTL DEF Spec, ImplementsLedger, Ledger!LedgerSpec
=============================================================================
