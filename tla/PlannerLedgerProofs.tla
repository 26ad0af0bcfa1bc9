------------------------ MODULE PlannerLedgerProofs ------------------------
(***************************************************************************)
(* Facts about PlannerLedger that the proofs of its users share: what one  *)
(* decision does to the ledger, its version and the verdicts.              *)
(***************************************************************************)
EXTENDS PlannerLedger, TLAPS

Entries == [request : Asked, before : States, after : States]

Ruling(r, decision) == [request |-> r, decision |-> decision]

\* Each change has its request's verdict, accepted as the version it made.
LedgerWell ==
  /\ ledger \in Seq(Entries)
  /\ current \in States \cup {NoState}
  /\ verdicts = [k \in Keys |-> verdicts[k]]
  /\ \A i \in 1..Version : verdicts[Key(ledger[i].request)] = Ruling(ledger[i].request, Accepted(i))

\* r takes effect, on the version it names.
Grows(r) ==
  /\ current \in States /\ current' \in States /\ Open(r) /\ r.base = Version
  /\ ledger' = Append(ledger, [request |-> r, before |-> current, after |-> current'])
  /\ verdicts'[Key(r)].decision = Accepted(Version + 1)

\* Or the ledger stays as it is; a household that is set up stays too.
Stays ==
  /\ ledger' = ledger
  /\ current # NoState => current' = current

LEMMA EntriesKept ==
  ASSUME LedgerWell, NEW e \in Entries, ledger' = Append(ledger, e)
  PROVE  /\ ledger' \in Seq(Entries) /\ Version \in Nat /\ Version' = Version + 1
         /\ ledger'[Version + 1] = e
         /\ \A i \in 1..Version : ledger'[i] = ledger[i]
BY DEF LedgerWell, Version

\* No change waits for its verdict.
LEMMA ChangesDecided ==
  ASSUME LedgerWell
  PROVE  \A i \in 1..Version : ledger[i] \in Entries /\ ~Open(ledger[i].request)
<1>1. \A i \in 1..Version : ledger[i] \in Entries
  BY DEF LedgerWell, Version
<1>2. \A e \in Entries : e.request # NoState
  BY AskedAssumption DEF Entries
<1> SUFFICES ASSUME NEW i \in 1..Version PROVE ledger[i] \in Entries /\ ~Open(ledger[i].request)
  OBVIOUS
<1>3. verdicts[Key(ledger[i].request)] = Ruling(ledger[i].request, Accepted(i))
  BY DEF LedgerWell
<1>4. Ruling(ledger[i].request, Accepted(i)).request = ledger[i].request
  BY DEF Ruling
<1> QED BY <1>1, <1>2, <1>3, <1>4 DEF Open, Undecided

\* A request is decided once, and the ledger stays well.
LEMMA DecideStep ==
  ASSUME LedgerWell, NEW r \in Asked, DecideRequest(r)
  PROVE  /\ LedgerWell'
         /\ Open(r) /\ verdicts'[Key(r)].request = r /\ verdicts'[Key(r)] # Undecided
         /\ \A k \in Keys : k # Key(r) => verdicts'[k] = verdicts[k]
         /\ \/ Grows(r)
            \/ Stays /\ (r.kind \in MutationKinds => verdicts'[Key(r)].decision.status # "accepted")
<1>1. r \in Requests /\ r # NoState /\ Key(r) \in Keys
  <2>1. r \in Requests /\ r # NoState
    BY AskedAssumption
  <2>2. r.kind \in Kinds /\ r.id \in RequestIds
    BY <2>1 DEF Requests, Mutations, Undos, Bootstraps, Kinds
  <2> QED BY <2>1, <2>2 DEF Key, Keys
<1>2. Version \in Nat /\ \A i \in 1..Version : ledger[i] \in Entries
  BY DEF LedgerWell, Version
<1>3. PICK d : Rule(r, d)
  BY DEF DecideRequest, AcceptBatch, AcceptUndo, SetUp, RefuseStale, RefuseBatch, RefuseUndo,
         RefuseSetUp, Extend
<1>4. /\ verdicts' = [k \in Keys |-> verdicts'[k]]
      /\ verdicts'[Key(r)] = [request |-> r, decision |-> d]
      /\ \A k \in Keys : k # Key(r) => verdicts'[k] = verdicts[k]
  BY <1>1, <1>3 DEF Rule, LedgerWell
<1>5. Open(r) /\ verdicts'[Key(r)] # Undecided
  <2>1. Open(r)
    BY DEF DecideRequest, AcceptBatch, AcceptUndo, SetUp, RefuseStale, RefuseBatch, RefuseUndo,
           RefuseSetUp, UpToDate
  <2> QED BY <1>1, <1>4, <2>1 DEF Undecided
<1>6. \A e \in Entries : Key(e.request) \in Keys
  <2> SUFFICES ASSUME NEW e \in Entries PROVE Key(e.request) \in Keys
    OBVIOUS
  <2>1. e.request \in Requests
    BY AskedAssumption DEF Entries
  <2>2. e.request.kind \in Kinds /\ e.request.id \in RequestIds
    BY <2>1 DEF Requests, Mutations, Undos, Bootstraps, Kinds
  <2> QED BY <2>2 DEF Key, Keys
<1>7. \A i \in 1..Version :
         verdicts'[Key(ledger[i].request)] = Ruling(ledger[i].request, Accepted(i))
  <2> SUFFICES ASSUME NEW i \in 1..Version
               PROVE  verdicts'[Key(ledger[i].request)] = Ruling(ledger[i].request, Accepted(i))
    OBVIOUS
  <2>1. verdicts[Key(ledger[i].request)] = Ruling(ledger[i].request, Accepted(i))
    BY DEF LedgerWell
  <2>2. Key(ledger[i].request) \in Keys
    BY <1>2, <1>6
  <2>3. verdicts[Key(ledger[i].request)] # Undecided
    BY ChangesDecided DEF Open
  <2> QED BY <1>4, <1>5, <2>1, <2>2, <2>3 DEF Open
<1>8. CASE AcceptBatch(r) \/ AcceptUndo(r)
  <2>1. PICK a \in States : UpToDate(r) /\ Extend(r, a)
    <3>1. CASE AcceptBatch(r)
      BY <3>1 DEF AcceptBatch
    <3>2. CASE AcceptUndo(r)
      <4>1. Newest.before \in States
        BY <1>2, <3>2 DEF AcceptUndo, Revocable, Newest, Entries
      <4> QED BY <3>2, <4>1 DEF AcceptUndo
    <3> QED BY <1>8, <3>1, <3>2
  <2>2. current \in States /\ current' = a /\ Open(r) /\ r.base = Version
    BY <2>1 DEF UpToDate, Extend, LedgerWell
  <2>3. ledger' = Append(ledger, [request |-> r, before |-> current, after |-> current'])
    BY <2>1, <2>2 DEF Extend
  <2>4. /\ verdicts'[Key(r)] = Ruling(r, Accepted(Version + 1))
        /\ verdicts'[Key(r)].decision = Accepted(Version + 1)
    BY <1>1, <2>1 DEF Extend, Rule, LedgerWell, Ruling
  <2>5. Grows(r)
    BY <2>2, <2>3, <2>4 DEF Grows
  <2> DEFINE e == [request |-> r, before |-> current, after |-> current']
  <2>6. e \in Entries /\ e.request = r
    BY <2>2 DEF Entries
  <2> HIDE DEF e
  <2>7. /\ ledger' \in Seq(Entries) /\ Version' = Version + 1
        /\ ledger'[Version + 1] = e
        /\ \A i \in 1..Version : ledger'[i] = ledger[i]
    BY <2>3, <2>6, EntriesKept DEF e
  <2>8. \A i \in 1..Version' :
          verdicts'[Key(ledger'[i].request)] = Ruling(ledger'[i].request, Accepted(i))
    <3> SUFFICES ASSUME NEW i \in 1..Version'
                 PROVE verdicts'[Key(ledger'[i].request)] = Ruling(ledger'[i].request, Accepted(i))
      OBVIOUS
    <3>1. CASE i = Version + 1
      BY <2>4, <2>6, <2>7, <3>1
    <3>2. CASE i \in 1..Version
      BY <1>7, <2>7, <3>2
    <3> QED BY <1>2, <2>7, <3>1, <3>2
  <2>9. LedgerWell'
    BY <1>4, <2>2, <2>7, <2>8 DEF LedgerWell
  <2> QED BY <1>4, <1>5, <2>5, <2>9
<1>9. CASE SetUp(r) \/ RefuseStale(r) \/ RefuseBatch(r) \/ RefuseUndo(r) \/ RefuseSetUp(r)
  <2>1. Stays /\ current' \in States \cup {NoState}
    <3>1. CASE SetUp(r)
      <4>1. r.install \in States
        BY <1>1, <3>1, RequestsAssumption DEF SetUp, Requests, Mutations, Undos, Bootstraps
      <4> QED BY <3>1, <4>1 DEF SetUp, Stays
    <3>2. CASE ~SetUp(r)
      BY <1>9, <3>2 DEF RefuseStale, RefuseBatch, RefuseUndo, RefuseSetUp, Stays, LedgerWell
    <3> QED BY <3>1, <3>2
  <2>2. r.kind \in MutationKinds => verdicts'[Key(r)].decision.status # "accepted"
    <3> SUFFICES ASSUME r.kind \in MutationKinds
                 PROVE  verdicts'[Key(r)].decision.status # "accepted"
      OBVIOUS
    <3>1. r.kind # "planner_undo" /\ r.kind # "workspace_bootstrap"
      BY RequestsAssumption
    <3>2. Rule(r, Conflict(Version)) \/ Rule(r, DomainRejected)
      BY <1>9, <3>1 DEF SetUp, RefuseStale, RefuseBatch, RefuseUndo, RefuseSetUp
    <3>3. verdicts'[Key(r)].decision \in {Conflict(Version), DomainRejected}
      BY <1>1, <3>2 DEF Rule, LedgerWell
    <3> QED BY <3>3 DEF Conflict, DomainRejected
  <2>3. LedgerWell'
    BY <1>4, <1>7, <2>1 DEF LedgerWell, Stays, Version
  <2> QED BY <1>4, <1>5, <2>1, <2>2, <2>3
<1> QED BY <1>4, <1>5, <1>8, <1>9 DEF DecideRequest

-----------------------------------------------------------------------------
(* What the ledger keeps for good. *)

\* Each change leads from the state the one before it left; the last left the
\* current one.
Chained ==
  \A i \in 1..Version :
    /\ i < Version => ledger[i].after = ledger[i+1].before
    /\ i = Version => ledger[i].after = current

\* What is decided stays decided, and what took effect stays in its place.
VerdictsStand ==
  [][/\ \A k \in Keys : verdicts[k] # Undecided => verdicts'[k] = verdicts[k]
     /\ \A i \in 1..Version : ledger'[i] = ledger[i]]_ledgerVars

\* Once there is a change there is a household.
LedgerInv ==
  /\ LedgerWell /\ Chained
  /\ Version > 0 => current # NoState

LEMMA LedgerMoves ==
  ASSUME LedgerInv, NEW r \in Asked, DecideRequest(r)
  PROVE  /\ LedgerInv'
         /\ \A k \in Keys : verdicts[k] # Undecided => verdicts'[k] = verdicts[k]
         /\ \A i \in 1..Version : ledger'[i] = ledger[i]
<1>1. LedgerWell' /\ (Grows(r) \/ Stays) /\ Version \in Nat
  BY DecideStep DEF LedgerInv, LedgerWell, Version
<1>2. \A k \in Keys : verdicts[k] # Undecided => verdicts'[k] = verdicts[k]
  BY DecideStep DEF LedgerInv, Open
<1>3. CASE Stays
  BY <1>1, <1>2, <1>3 DEF LedgerInv, Chained, Stays, Version
<1>4. CASE Grows(r)
  <2> DEFINE e == [request |-> r, before |-> current, after |-> current']
  <2>1. e \in Entries /\ e.before = current /\ e.after = current'
    BY <1>4 DEF Grows, Entries
  <2>2. ledger' = Append(ledger, e)
    BY <1>4 DEF Grows
  <2> HIDE DEF e
  <2>3. /\ Version' = Version + 1 /\ ledger'[Version + 1] = e
        /\ \A i \in 1..Version : ledger'[i] = ledger[i]
    BY <2>1, <2>2, EntriesKept DEF LedgerInv
  <2>4. Chained'
    BY <1>1, <2>1, <2>3 DEF LedgerInv, Chained
  <2>5. current' # NoState
    BY <1>4, RequestsAssumption DEF Grows
  <2> QED BY <1>1, <1>2, <2>3, <2>4, <2>5 DEF LedgerInv
<1> QED BY <1>1, <1>3, <1>4

\* Every change has the verdict that accepted it as its version, and leads from
\* the state the one before it left.
THEOREM LedgerExplainsItself == LedgerSpec => [](LedgerWell /\ Chained)
<1>1. LedgerInit => LedgerInv
  BY DEF LedgerInit, LedgerInv, LedgerWell, Chained, Version
<1>2. LedgerInv /\ [LedgerNext]_ledgerVars => LedgerInv'
  BY LedgerMoves DEF LedgerNext, ledgerVars, LedgerInv, LedgerWell, Chained, Version
<1>3. LedgerInv => LedgerWell /\ Chained
  BY DEF LedgerInv
<1> QED BY <1>1, <1>2, <1>3, PTL DEF LedgerSpec

\* A verdict is given once and for all, and history is only added to.
THEOREM VerdictsAlwaysStand == LedgerSpec => VerdictsStand
<1>1. LedgerInit => LedgerInv
  BY DEF LedgerInit, LedgerInv, LedgerWell, Chained, Version
<1>2. LedgerInv /\ [LedgerNext]_ledgerVars => LedgerInv'
  BY LedgerMoves DEF LedgerNext, ledgerVars, LedgerInv, LedgerWell, Chained, Version
<1>3. LedgerInv /\ [LedgerNext]_ledgerVars =>
        [/\ \A k \in Keys : verdicts[k] # Undecided => verdicts'[k] = verdicts[k]
         /\ \A i \in 1..Version : ledger'[i] = ledger[i]]_ledgerVars
  BY LedgerMoves DEF LedgerNext
<1> QED BY <1>1, <1>2, <1>3, PTL DEF LedgerSpec, VerdictsStand
=============================================================================
