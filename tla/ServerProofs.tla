---------------------------- MODULE ServerProofs ----------------------------
(***************************************************************************)
(* Proofs about the planner tools that Codex calls, for any callbacks,     *)
(* hosts, limits and households.                                           *)
(*                                                                         *)
(* A call takes effect once because its row, once reserved, stays its own, *)
(* because its effect and the completion of the row are one transaction,   *)
(* and because the ledger decides a request once.  A week replaces what it *)
(* was compared with because the effect is refused unless the version is   *)
(* the one its model knew, which is no newer than the one that was read.   *)
(***************************************************************************)
EXTENDS PlannerToolCalls, NativeSession, PlannerLedgerProofs, SequenceTheorems,
        FiniteSetTheorems, WellFoundedInduction

Answers == [code : {"OK"} \cup Refusals, version : Nat]
Stored == [callback : Callbacks \cup {NoState}, result : Answers \cup {Running}]
Reading == [stage : {"idle", "running"}, seen : States \cup {NoState}, at : Nat]

CallsTyped ==
  /\ rows \in [Slots -> Stored]
  /\ live \in [Hosts -> [Callbacks -> Reading]]
  /\ told \subseteq [callback : Callbacks, result : Answers]

\* A row belongs to the callback it was reserved for, in its own slot; what is
\* executing has one.
RowsOwned ==
  /\ \A s \in Slots : rows[s].callback = NoState => rows[s] = NoRow
  /\ \A h \in Hosts, c \in Callbacks : Live(h, c) => Row(c).callback = c

\* However many callbacks a turn delivers, its rows stay within the limit.
RowsLimited ==
  \A t \in Turns : IsFiniteSet(Reserved(t)) /\ Cardinality(Reserved(t)) <= CallLimit

\* What an execution read is what the household still is, unless it is older.
ReadingsFit ==
  \A h \in Hosts, c \in Callbacks : Live(h, c) =>
    /\ live[h][c].at <= Version
    /\ live[h][c].at = Version /\ live[h][c].seen # NoState => live[h][c].seen = current
    /\ c \in Calls => c.request.base <= live[h][c].at

\* Each answer is the one of the row, or was refused for good.
Fits(a) ==
  \/ Row(a.callback).callback = a.callback /\ Row(a.callback).result = a.result
  \/ Row(a.callback).callback \notin {a.callback, NoState} /\ a.result.code # "OK"
  \/ /\ Row(a.callback) = NoRow /\ a.result.code # "OK"
     /\ Cardinality(Reserved(a.callback.turn)) >= CallLimit
ToldFits == \A a \in told : Fits(a)

ToolsInv ==
  LedgerWell /\ CallsTyped /\ RowsOwned /\ RowsLimited /\ ReadingsFit /\ EffectsAccounted /\ ToldFits

-----------------------------------------------------------------------------
(* Rows and executions. *)

\* What a call relies on of its callback.
LEMMA CallFacts ==
  /\ NoState \notin Callbacks
  /\ \A c \in Callbacks : Slot(c) \in Slots
  /\ \A c \in Calls : /\ c \in Callbacks /\ c.request \in Asked /\ c.request \in Native
                      /\ c.request.base \in Nat /\ c.request.kind \in MutationKinds
<1>1. \A c \in Calls : c.request \in Asked /\ c.request \in Mutations /\ c \in Callbacks
  BY CallbacksAssumption DEF Calls
<1>2. \A r \in Mutations : r.base \in Nat /\ r.kind \in MutationKinds
  BY RequestsAssumption DEF Mutations
<1> QED BY <1>1, <1>2, CallbacksAssumption DEF Slots, Native

\* Only the call itself asks under its key.
LEMMA OneAsker ==
  ASSUME NEW r \in Asked, NEW c \in Calls, Key(r) = Key(c.request)
  PROVE  r = c.request
BY CallbacksAssumption

\* A row that a call reserves or completes is its own, and no other moves.
Moves(c, x) == rows' = [rows EXCEPT ![Slot(c)] = [callback |-> c, result |-> x]]
Owns(c) == Row(c) = NoRow \/ Row(c).callback = c

LEMMA RowMoves ==
  ASSUME CallsTyped, NEW c \in Callbacks, NEW x \in Answers \cup {Running}, Moves(c, x), Owns(c)
  PROVE  /\ rows' \in [Slots -> Stored]
         /\ Row(c)' = [callback |-> c, result |-> x]
         /\ \A s \in Slots : s # Slot(c) => rows'[s] = rows[s]
         /\ \A d \in Callbacks : d # c => Row(d)' = Row(d) \/ Row(d)' = Row(c)'
         /\ \A d \in Callbacks : d # c /\ Row(d).callback = d => Row(d)' = Row(d)
<1>1. Slot(c) \in Slots /\ [callback |-> c, result |-> x] \in Stored
  BY CallFacts DEF Stored
<1>2. /\ rows' \in [Slots -> Stored]
      /\ rows'[Slot(c)] = [callback |-> c, result |-> x]
      /\ \A s \in Slots : s # Slot(c) => rows'[s] = rows[s]
  BY <1>1 DEF CallsTyped, Moves
<1>3. \A d \in Callbacks : Slot(d)' = Slot(d) /\ Slot(d) \in Slots
  BY CallFacts DEF Slot
<1>4. \A d \in Callbacks : d # c => Row(d)' = Row(d) \/ Row(d)' = Row(c)'
  BY <1>2, <1>3 DEF Row
<1>5. ASSUME NEW d \in Callbacks, d # c, Row(d).callback = d PROVE Row(d)' = Row(d)
  <2>1. Slot(d) # Slot(c)
    BY <1>5, CallFacts DEF Owns, Row, NoRow
  <2> QED BY <1>2, <1>3, <2>1 DEF Row
<1> QED BY <1>2, <1>3, <1>4, <1>5 DEF Row

\* A call that has an entry in the ledger, or is refused, has no other effect.
Effective(c) == Row(c).callback = c /\ Row(c).result.code = "OK"

LEMMA EffectsKept ==
  ASSUME ToolsInv, LedgerWell',
         ledger' = ledger \/ \E r \in Asked \ Native : Grows(r),
         \A c \in Calls : Row(c)' = Row(c) \/ (~Effective(c) /\ ~Effective(c)')
  PROVE  EffectsAccounted'
<1>1. /\ Version \in Nat /\ Version' \in Nat /\ Version <= Version'
      /\ \A i \in 1..Version : ledger'[i] = ledger[i]
      /\ \A c \in Calls, i \in 1..Version' : Key(ledger'[i].request) = Key(c.request) => i \in 1..Version
  <2>1. CASE ledger' = ledger
    BY <2>1 DEF ToolsInv, LedgerWell, Version
  <2>2. CASE \E r \in Asked \ Native : Grows(r)
    <3>1. PICK r \in Asked \ Native : Grows(r)
      BY <2>2
    <3> DEFINE e == [request |-> r, before |-> current, after |-> current']
    <3>2. e \in Entries /\ e.request = r /\ ledger' = Append(ledger, e)
      BY <3>1 DEF Entries, Grows
    <3> HIDE DEF e
    <3>3. /\ Version \in Nat /\ Version' = Version + 1 /\ ledger'[Version + 1] = e
          /\ \A i \in 1..Version : ledger'[i] = ledger[i]
      BY <3>2, EntriesKept DEF ToolsInv
    <3>4. \A c \in Calls : Key(r) # Key(c.request)
      BY OneAsker, CallFacts
    <3>5. ASSUME NEW c \in Calls, NEW i \in 1..Version', Key(ledger'[i].request) = Key(c.request)
          PROVE  i \in 1..Version
      <4>1. i # Version + 1
        BY <3>2, <3>3, <3>4, <3>5
      <4> QED BY <3>3, <4>1
    <3> QED BY <3>3, <3>5
  <2> QED BY <2>1, <2>2
<1>2. EffectsRecorded /\ WeekReplacedAsChecked
  BY DEF ToolsInv, EffectsAccounted
<1>3. ASSUME NEW c \in Calls, NEW i \in 1..Version', Key(ledger'[i].request) = Key(c.request)
      PROVE  /\ Row(c)' = [callback |-> c, result |-> Result("OK", i)]
             /\ c.tool = "importApprovedWeek" => c \in Covers[ledger'[i].before]
  <2>1. i \in 1..Version /\ ledger'[i] = ledger[i]
    BY <1>1, <1>3
  <2>2. Row(c) = [callback |-> c, result |-> Result("OK", i)]
    BY <1>2, <1>3, <2>1 DEF EffectsRecorded
  <2>3. Effective(c)
    BY <2>2 DEF Effective, Result
  <2> QED BY <1>2, <1>3, <2>1, <2>2, <2>3 DEF WeekReplacedAsChecked
<1>4. ASSUME NEW c \in Calls, Row(c)'.callback = c, Row(c)'.result.code = "OK"
      PROVE  /\ Row(c)'.result.version \in 1..Version'
             /\ ledger'[Row(c)'.result.version].request = c.request
  <2>1. Row(c)' = Row(c)
    BY <1>4 DEF Effective
  <2>2. /\ Row(c).result.version \in 1..Version
        /\ ledger[Row(c).result.version].request = c.request
    BY <1>2, <1>4, <2>1 DEF EffectsRecorded
  <2> QED BY <1>1, <2>1, <2>2
<1> QED BY <1>3, <1>4 DEF EffectsAccounted, EffectsRecorded, WeekReplacedAsChecked

\* A call takes effect and completes its row.
LEMMA EffectTaken ==
  ASSUME ToolsInv, NEW c \in Calls, Row(c).callback = c, Grows(c.request),
         Moves(c, Result("OK", Version + 1)),
         c.tool = "importApprovedWeek" => c \in Covers[current]
  PROVE  EffectsAccounted'
<1> DEFINE e == [request |-> c.request, before |-> current, after |-> current']
<1>1. e \in Entries /\ e.request = c.request /\ e.before = current /\ ledger' = Append(ledger, e)
  BY CallFacts DEF Entries, Grows
<1> HIDE DEF e
<1>2. /\ Version \in Nat /\ Version' = Version + 1 /\ ledger'[Version + 1] = e
      /\ \A i \in 1..Version : ledger'[i] = ledger[i] /\ ledger[i].request \in Asked
  <2>1. \A i \in 1..Version : ledger[i].request \in Asked
    <3>1. \A i \in 1..Version : ledger[i] \in Entries
      BY DEF ToolsInv, LedgerWell, Version
    <3>2. \A x \in Entries : x.request \in Asked
      BY DEF Entries
    <3> QED BY <3>1, <3>2
  <2> QED BY <1>1, <2>1, EntriesKept DEF ToolsInv
<1>3. c \in Callbacks /\ Result("OK", Version + 1) \in Answers
  BY <1>2, CallFacts DEF Result, Answers
<1>4. /\ Row(c)' = [callback |-> c, result |-> Result("OK", Version + 1)]
      /\ \A d \in Callbacks : d # c => Row(d)' = Row(d) \/ Row(d)' = Row(c)'
      /\ \A d \in Callbacks : d # c /\ Row(d).callback = d => Row(d)' = Row(d)
  BY <1>3, RowMoves DEF ToolsInv, Owns
<1>5. EffectsRecorded /\ WeekReplacedAsChecked
  BY DEF ToolsInv, EffectsAccounted
<1>6. \A i \in 1..Version : Key(ledger[i].request) # Key(c.request)
  BY ChangesDecided DEF Grows, Open, ToolsInv
<1>7. ASSUME NEW d \in Calls, NEW i \in 1..Version', Key(ledger'[i].request) = Key(d.request)
      PROVE  /\ Row(d)' = [callback |-> d, result |-> Result("OK", i)]
             /\ d.tool = "importApprovedWeek" => d \in Covers[ledger'[i].before]
  <2>1. CASE i = Version + 1
    <3>1. d = c
      <4>1. ledger'[i].request = c.request
        BY <1>1, <1>2, <2>1
      <4> QED BY <1>7, <4>1, CallbacksAssumption
    <3> QED BY <1>1, <1>2, <1>4, <2>1, <3>1
  <2>2. CASE i \in 1..Version
    <3>1. ledger'[i] = ledger[i]
      BY <1>2, <2>2
    <3>2. d # c
      BY <1>6, <1>7, <2>2, <3>1
    <3>3. Row(d) = [callback |-> d, result |-> Result("OK", i)]
      BY <1>5, <1>7, <2>2, <3>1 DEF EffectsRecorded
    <3>4. Row(d)' = Row(d)
      BY <1>4, <3>2, <3>3, CallFacts
    <3> QED BY <1>5, <1>7, <2>2, <3>1, <3>3, <3>4 DEF WeekReplacedAsChecked
  <2> QED BY <1>2, <2>1, <2>2
<1>8. ASSUME NEW d \in Calls, Row(d)'.callback = d, Row(d)'.result.code = "OK"
      PROVE  /\ Row(d)'.result.version \in 1..Version'
             /\ ledger'[Row(d)'.result.version].request = d.request
  <2>1. CASE d = c
    <3>1. Row(c)'.result.version = Version + 1
      BY <1>4 DEF Result
    <3>2. Version + 1 \in 1..Version'
      BY <1>2
    <3> QED BY <1>1, <1>2, <2>1, <3>1, <3>2
  <2>2. CASE d # c
    <3>1. Row(d)' = Row(d)
      BY <1>4, <1>8, <2>2, CallFacts
    <3>2. /\ Row(d).result.version \in 1..Version
          /\ ledger[Row(d).result.version].request = d.request
      BY <1>5, <1>8, <3>1 DEF EffectsRecorded
    <3> QED BY <1>2, <3>1, <3>2
  <2> QED BY <2>1, <2>2
<1> QED BY <1>7, <1>8 DEF EffectsAccounted, EffectsRecorded, WeekReplacedAsChecked

\* An execution stays, is over, or starts with what the household is now.
Starts(h, c) ==
  /\ live'[h][c] = [stage |-> "running", seen |-> current, at |-> Version]
  /\ UNCHANGED ledgerVars
  /\ c \in Calls => c.request.base <= Version
ReadsOn ==
  /\ live' \in [Hosts -> [Callbacks -> Reading]]
  /\ \A h \in Hosts, c \in Callbacks :
        live'[h][c] = live[h][c] \/ live'[h][c] = NotLive \/ (Starts(h, c) /\ Row(c)'.callback = c)
LedgerOn == LedgerWell' /\ (Stays \/ \E r \in Asked : Grows(r))

LEMMA ReadingsKept ==
  ASSUME ToolsInv, LedgerOn, ReadsOn
  PROVE  ReadingsFit'
<1>1. Version \in Nat /\ (Stays \/ Version' = Version + 1)
  <2>1. ASSUME NEW r \in Asked, Grows(r) PROVE Version' = Version + 1
    <3> DEFINE e == [request |-> r, before |-> current, after |-> current']
    <3>1. e \in Entries /\ ledger' = Append(ledger, e)
      BY <2>1 DEF Entries, Grows
    <3> HIDE DEF e
    <3> QED BY <3>1, EntriesKept DEF ToolsInv
  <2> QED BY <2>1 DEF LedgerOn, ToolsInv, LedgerWell, Version
<1>2. SUFFICES ASSUME NEW h \in Hosts, NEW c \in Callbacks, live'[h][c] # NotLive
               PROVE  /\ live'[h][c].at <= Version'
                      /\ live'[h][c].at = Version' /\ live'[h][c].seen # NoState =>
                           live'[h][c].seen = current'
                      /\ c \in Calls => c.request.base <= live'[h][c].at
  BY DEF ReadingsFit, Live
<1>3. CASE live'[h][c] = live[h][c]
  <2>1. /\ live[h][c].at <= Version
        /\ live[h][c].at = Version /\ live[h][c].seen # NoState => live[h][c].seen = current
        /\ c \in Calls => c.request.base <= live[h][c].at
    BY <1>2, <1>3 DEF ToolsInv, ReadingsFit, Live
  <2>2. live[h][c] \in Reading
    BY DEF ToolsInv, CallsTyped
  <2>3. live[h][c].at \in Nat
    BY <2>2 DEF Reading
  <2>4. CASE Stays
    BY <1>3, <2>1, <2>4 DEF Stays, Version
  <2>5. CASE Version' = Version + 1
    BY <1>1, <1>3, <2>1, <2>3, <2>5
  <2> QED BY <1>1, <2>4, <2>5
<1>4. CASE Starts(h, c)
  BY <1>1, <1>4 DEF Starts, ledgerVars, Version
<1> QED BY <1>2, <1>3, <1>4 DEF ReadsOn

\* A step that moves no row; what it answers fits already.
LEMMA RowsRest ==
  ASSUME ToolsInv, UNCHANGED rows, LedgerOn, ReadsOn,
         ledger' = ledger \/ \E r \in Asked \ Native : Grows(r),
         told' \subseteq [callback : Callbacks, result : Answers],
         \A a \in told' : a \in told \/ Fits(a)
  PROVE  ToolsInv'
<1>1. CallsTyped' /\ LedgerWell'
  BY DEF ToolsInv, CallsTyped, ReadsOn, LedgerOn
<1>2. \A c : Row(c)' = Row(c)
  BY DEF Row, Slot
<1>3. RowsOwned'
  <2>1. \A s \in Slots : rows'[s].callback = NoState => rows'[s] = NoRow
    BY DEF ToolsInv, RowsOwned
  <2>2. ASSUME NEW h \in Hosts, NEW c \in Callbacks, live'[h][c] # NotLive
        PROVE  Row(c)'.callback = c
    BY <1>2, <2>2 DEF ToolsInv, RowsOwned, ReadsOn, Live
  <2> QED BY <2>1, <2>2 DEF RowsOwned, Live
<1>4. ReadingsFit'
  BY ReadingsKept
<1>5. EffectsAccounted'
  BY <1>1, <1>2, EffectsKept
<1>6. \A t : Reserved(t)' = Reserved(t)
  BY DEF Reserved, Slots, Slot
<1>7. RowsLimited'
  BY <1>6 DEF ToolsInv, RowsLimited, Turns
<1>8. ToldFits'
  <2>1. \A t : Reserved(t)' = Reserved(t)
    BY <1>6
  <2>2. \A a \in told' : Fits(a)
    BY DEF ToolsInv, ToldFits
  <2>3. \A a : Fits(a)' <=> Fits(a)
    BY <1>2, <2>1 DEF Fits
  <2> QED BY <2>2, <2>3 DEF ToldFits
<1> QED BY <1>1, <1>3, <1>4, <1>5, <1>7, <1>8 DEF ToolsInv

\* A step that reserves or completes a row, and answers with it.
LEMMA RowsMove ==
  ASSUME ToolsInv, NEW c \in Callbacks, NEW x \in Answers \cup {Running}, Moves(c, x),
         \/ Row(c) = NoRow /\ Cardinality(Reserved(c.turn)) < CallLimit
         \/ Row(c).callback = c /\ (Row(c).result = Running \/ x = Row(c).result),
         LedgerOn, ReadsOn, EffectsAccounted',
         \A a \in told' : a \in told \/ (a = [callback |-> c, result |-> x] /\ x \in Answers)
  PROVE  ToolsInv'
<1>1. Owns(c) /\ c # NoState
  BY CallFacts DEF Owns
<1>2. /\ rows' \in [Slots -> Stored]
      /\ Row(c)' = [callback |-> c, result |-> x]
      /\ \A s \in Slots : s # Slot(c) => rows'[s] = rows[s]
      /\ \A d \in Callbacks : d # c => Row(d)' = Row(d) \/ Row(d)' = Row(c)'
      /\ \A d \in Callbacks : d # c /\ Row(d).callback = d => Row(d)' = Row(d)
  BY <1>1, RowMoves DEF ToolsInv
<1>3. told' \subseteq [callback : Callbacks, result : Answers]
  BY DEF ToolsInv, CallsTyped
<1>4. CallsTyped' /\ LedgerWell'
  BY <1>2, <1>3 DEF CallsTyped, ReadsOn, LedgerOn
<1>5. RowsOwned'
  <2>1. \A s \in Slots : rows'[s].callback = NoState => rows'[s] = NoRow
    <3> SUFFICES ASSUME NEW s \in Slots, rows'[s].callback = NoState PROVE rows'[s] = NoRow
      OBVIOUS
    <3>1. rows'[Slot(c)].callback = c
      BY <1>2 DEF Row, Slot
    <3>2. s # Slot(c)
      BY <1>1, <3>1
    <3> QED BY <1>2, <3>2 DEF ToolsInv, RowsOwned
  <2>2. ASSUME NEW h \in Hosts, NEW d \in Callbacks, live'[h][d] # NotLive
        PROVE  Row(d)'.callback = d
    <3>1. CASE live'[h][d] = live[h][d]
      <4>1. Row(d).callback = d
        BY <2>2, <3>1 DEF ToolsInv, RowsOwned, Live
      <4> QED BY <1>2, <4>1
    <3> QED BY <2>2, <3>1 DEF ReadsOn
  <2> QED BY <2>1, <2>2 DEF RowsOwned, Live
<1>6. ReadingsFit'
  BY ReadingsKept
<1>7. \A t \in Turns : IsFiniteSet(Reserved(t)) /\ Cardinality(Reserved(t)) \in Nat /\ CallLimit \in Nat
  BY FS_CardinalityType, CallbacksAssumption DEF ToolsInv, RowsLimited
<1>8. /\ Slot(c)[1] = c.turn /\ Slot(c) \in Slots
      /\ rows'[Slot(c)] # NoRow /\ rows[Slot(c)] = Row(c)
  <2>1. rows'[Slot(c)].callback = c
    BY <1>2 DEF Row, Slot
  <2> QED BY <1>1, <2>1, CallFacts DEF NoRow, Slot, Row
<1>9. \A t : Row(c) # NoRow \/ t # c.turn => Reserved(t)' = Reserved(t)
  <2> SUFFICES ASSUME NEW t, Row(c) # NoRow \/ t # c.turn PROVE Reserved(t)' = Reserved(t)
    OBVIOUS
  <2>1. \A s \in Slots : s[1] = t => (rows'[s] # NoRow <=> rows[s] # NoRow)
    BY <1>2, <1>8
  <2> QED BY <2>1 DEF Reserved, Slots, Slot
<1>10. RowsLimited'
  <2> SUFFICES ASSUME NEW t \in Turns
               PROVE  IsFiniteSet(Reserved(t)') /\ Cardinality(Reserved(t)') <= CallLimit
    BY DEF RowsLimited, Turns
  <2>1. CASE Row(c) # NoRow \/ t # c.turn
    BY <1>9, <2>1 DEF ToolsInv, RowsLimited
  <2>2. CASE Row(c) = NoRow /\ t = c.turn
    <3>1. Reserved(t)' = Reserved(t) \cup {Slot(c)}
      BY <1>2, <1>8, <2>2 DEF Reserved, Slots, Slot
    <3> DEFINE R == Reserved(t)
               grown == R \cup {Slot(c)}
    <3>0. IsFiniteSet(R) /\ Cardinality(R) \in Nat
      BY <1>7
    <3> HIDE DEF R
    <3>5. IsFiniteSet(grown) /\ (Cardinality(grown) = Cardinality(R) \/ Cardinality(grown) = Cardinality(R) + 1)
      BY <3>0, FS_AddElement
    <3>2. IsFiniteSet(Reserved(t)') /\ Cardinality(Reserved(t)') <= Cardinality(Reserved(t)) + 1
      <4>1. Cardinality(grown) <= Cardinality(R) + 1
        BY <3>0, <3>5
      <4> QED BY <3>1, <3>5, <4>1 DEF R
    <3>3. Cardinality(Reserved(t)) < CallLimit
      BY <1>1, <2>2, CallFacts DEF NoRow
    <3>4. Cardinality(Reserved(t)') \in Nat
      BY <3>2, FS_CardinalityType
    <3> QED BY <1>7, <3>2, <3>3, <3>4
  <2> QED BY <2>1, <2>2
<1>11. ToldFits'
  <2> SUFFICES ASSUME NEW a \in told' PROVE Fits(a)'
    BY DEF ToldFits
  <2> DEFINE d == a.callback
  <2>0. d \in Callbacks /\ a.result \in Answers /\ d # NoState
    <3>1. a \in [callback : Callbacks, result : Answers]
      BY <1>3
    <3> QED BY <3>1, CallFacts
  <2>1. CASE a = [callback |-> c, result |-> x]
    BY <1>2, <2>1 DEF Fits
  <2>2. CASE a \in told
    <3>1. Fits(a)
      BY <2>2 DEF ToolsInv, ToldFits
    <3> HIDE DEF d
    <3>2. CASE Row(d).callback = d /\ Row(d).result = a.result
      <4>1. CASE d # c
        BY <1>2, <2>0, <3>2, <4>1 DEF Fits, d
      <4>2. CASE d = c
        <5>1. Row(c).result # Running
          BY <2>0, <3>2, <4>2 DEF Answers, Running, Refusals
        <5>2. Row(c).callback = c
          BY <3>2, <4>2
        <5>3. x = a.result
          BY <1>1, <3>2, <4>2, <5>1, <5>2 DEF NoRow
        <5> QED BY <1>2, <4>2, <5>3 DEF Fits, d
      <4> QED BY <4>1, <4>2
    <3>3. CASE Row(d).callback \notin {d, NoState} /\ a.result.code # "OK"
      <4>1. d # c
        BY <1>1, <2>0, <3>3 DEF Owns, NoRow
      <4>2. Row(d)' = Row(d) \/ Row(d)' = Row(c)'
        BY <1>2, <2>0, <4>1
      <4> QED BY <1>1, <1>2, <3>3, <4>1, <4>2 DEF Fits, d
    <3>4. CASE /\ Row(d) = NoRow /\ a.result.code # "OK"
               /\ Cardinality(Reserved(d.turn)) >= CallLimit
      <4>1. CASE d # c /\ Row(d)' = Row(c)'
        BY <1>1, <1>2, <3>4, <4>1 DEF Fits, d
      <4>0. d.turn \in Turns
        BY <2>0 DEF Turns
      <4>2. CASE d = c
        BY <1>1, <1>7, <3>4, <4>0, <4>2, CallFacts DEF NoRow
      <4>3. CASE d # c /\ Row(d)' = Row(d)
        <5>1. c.turn # d.turn \/ Row(c) # NoRow
          BY <1>1, <1>7, <3>4, <4>0, CallFacts DEF NoRow
        <5> QED BY <1>9, <3>4, <4>3, <5>1 DEF Fits, d
      <4> QED BY <1>2, <2>0, <4>1, <4>2, <4>3
    <3> QED BY <3>1, <3>2, <3>3, <3>4 DEF Fits, d
  <2> QED BY <2>1, <2>2
<1> QED BY <1>4, <1>5, <1>6, <1>10, <1>11 DEF ToolsInv

-----------------------------------------------------------------------------
(* Completion. *)

LEMMA StaysUnchanged ==
  ASSUME ToolsInv, UNCHANGED ledgerVars
  PROVE  LedgerOn /\ ledger' = ledger
BY DEF ToolsInv, LedgerOn, LedgerWell, Stays, ledgerVars, Version

\* Stopping an execution keeps the others.
LEMMA StopReads ==
  ASSUME CallsTyped, NEW h \in Hosts, NEW c \in Callbacks, Stop(h, c)
  PROVE  ReadsOn
<1>1. NotLive \in Reading
  BY DEF NotLive, Reading
<1>2. /\ live' \in [Hosts -> [Callbacks -> Reading]]
      /\ \A g \in Hosts, d \in Callbacks : live'[g][d] = live[g][d] \/ live'[g][d] = NotLive
  BY <1>1 DEF CallsTyped, Stop
<1> QED BY <1>2 DEF ReadsOn

\* The first completion counts.
Final(c, x) == IF Row(c).result = Running THEN x ELSE Row(c).result

LEMMA CompleteMoves ==
  ASSUME ToolsInv, NEW h \in Hosts, NEW c \in Callbacks, Live(h, c),
         NEW x \in Answers, Complete(h, c, x)
  PROVE  /\ Final(c, x) \in Answers /\ Moves(c, Final(c, x)) /\ ReadsOn
         /\ Row(c).callback = c /\ Row(c) = [callback |-> c, result |-> Row(c).result]
         /\ told' = told \cup {[callback |-> c, result |-> Final(c, x)]}
<1>1. Row(c) \in Stored /\ Row(c).callback = c /\ Slot(c) \in Slots
  <2>1. Slot(c) \in Slots
    BY CallFacts
  <2> QED BY <2>1 DEF ToolsInv, RowsOwned, CallsTyped, Row
<1>2. Row(c) = [callback |-> c, result |-> Row(c).result] /\ Row(c).result \in Answers \cup {Running}
  BY <1>1 DEF Stored
<1>3. Final(c, x) \in Answers
  BY <1>2 DEF Final
<1>4. [Row(c) EXCEPT !.result = Final(c, x)] = [callback |-> c, result |-> Final(c, x)]
  BY <1>2
<1>5. rows' = [rows EXCEPT ![Slot(c)] = [Row(c) EXCEPT !.result = Final(c, x)]]
  BY DEF Complete, Final, Row
<1>6. Moves(c, Final(c, x))
  BY <1>4, <1>5 DEF Moves
<1>7. rows'[Slot(c)].result = Final(c, x)
  BY <1>1, <1>6 DEF Moves, ToolsInv, CallsTyped
<1>8. told' = told \cup {[callback |-> c, result |-> Final(c, x)]}
  BY <1>7 DEF Complete, Tell
<1>9. ReadsOn
  BY StopReads DEF Complete, ToolsInv
<1> QED BY <1>1, <1>2, <1>3, <1>6, <1>8, <1>9

\* A completion that goes with no effect reports none.
LEMMA CompletesQuietly ==
  ASSUME ToolsInv, NEW h \in Hosts, NEW c \in Callbacks, Live(h, c),
         NEW x \in Answers, Complete(h, c, x), LedgerOn,
         ledger' = ledger,
         c \in Calls => x.code # "OK"
  PROVE  ToolsInv'
<1> DEFINE y == Final(c, x)
<1>1. /\ y \in Answers /\ Moves(c, y) /\ ReadsOn
      /\ Row(c).callback = c /\ Row(c) = [callback |-> c, result |-> Row(c).result]
      /\ told' = told \cup {[callback |-> c, result |-> y]}
  BY CompleteMoves
<1>2. Row(c).result = Running \/ y = Row(c).result
  BY DEF Final
<1>3. /\ Row(c)' = [callback |-> c, result |-> y]
      /\ \A d \in Callbacks : d # c => Row(d)' = Row(d) \/ Row(d)' = Row(c)'
      /\ \A d \in Callbacks : d # c /\ Row(d).callback = d => Row(d)' = Row(d)
  BY <1>1, RowMoves DEF ToolsInv, Owns
<1>4. \A d \in Calls : Row(d)' = Row(d) \/ (~Effective(d) /\ ~Effective(d)')
  <2> SUFFICES ASSUME NEW d \in Calls PROVE Row(d)' = Row(d) \/ (~Effective(d) /\ ~Effective(d)')
    OBVIOUS
  <2>1. CASE d = c /\ Row(c).result = Running
    <3>1. y = x
      BY <2>1 DEF Final
    <3>2. Row(c)'.result.code # "OK"
      BY <1>3, <2>1, <3>1
    <3> QED BY <2>1, <3>2 DEF Effective, Running
  <2>2. CASE d = c /\ Row(c).result # Running
    BY <1>1, <1>2, <1>3, <2>2
  <2>3. CASE d # c
    <3>1. d \in Callbacks
      BY CallFacts
    <3> HIDE DEF y
    <3>2. Row(c)'.callback = c
      BY <1>3
    <3> QED BY <1>3, <2>3, <3>1, <3>2 DEF Effective
  <2> QED BY <2>1, <2>2, <2>3
<1>5. EffectsAccounted'
  BY <1>4, EffectsKept DEF LedgerOn
<1> HIDE DEF y
<1> QED BY <1>1, <1>2, <1>5, RowsMove

\* A refusal is an answer, and no success.
LEMMA RefusalAnswers ==
  ASSUME ToolsInv, NEW h \in Hosts, NEW c \in Callbacks, NEW code \in Refusals, Refuse(h, c, code)
  PROVE  \E x \in Answers : x.code # "OK" /\ Complete(h, c, x)
<1>1. live[h][c] \in Reading
  BY DEF ToolsInv, CallsTyped
<1>2. live[h][c].at \in Nat
  BY <1>1 DEF Reading
<1>3. \A n \in Nat, k \in Refusals : Result(k, n) \in Answers /\ Result(k, n).code # "OK"
  BY DEF Result, Answers, Refusals
<1>4. "INTERNAL_ERROR" \in Refusals
  BY DEF Refusals
<1>5. CASE live[h][c].seen = NoState
  BY <1>3, <1>4, <1>5 DEF Refuse
<1>6. CASE live[h][c].seen # NoState
  BY <1>2, <1>3, <1>6 DEF Refuse
<1> QED BY <1>5, <1>6

LEMMA RefuseStep ==
  ASSUME ToolsInv, NEW h \in Hosts, NEW c \in Callbacks, Live(h, c),
         NEW code \in Refusals, Refuse(h, c, code), UNCHANGED ledgerVars
  PROVE  ToolsInv'
<1>1. PICK x \in Answers : x.code # "OK" /\ Complete(h, c, x)
  BY RefusalAnswers
<1> QED BY <1>1, StaysUnchanged, CompletesQuietly

-----------------------------------------------------------------------------
(* One lemma per group of actions. *)

LEMMA AnswerStep ==
  ASSUME ToolsInv, NEW h \in Hosts, NEW c \in Callbacks, Answer(h, c)
  PROVE  ToolsInv'
<1>1. Delivered(h, c) /\ UNCHANGED ledgerVars
  BY DEF Answer, Replay, RefuseReuse, RefuseOverLimit, Reserve, Recover
<1>2. LedgerOn /\ ledger' = ledger /\ Version \in Nat
  BY <1>1, StaysUnchanged DEF ToolsInv, LedgerWell, Version
<1>3. /\ Slot(c) \in Slots /\ Row(c) \in Stored /\ c # NoState
      /\ \A d \in Callbacks : Row(d).callback = NoState => Row(d) = NoRow
  BY CallFacts DEF ToolsInv, CallsTyped, RowsOwned, Row
<1>4. ASSUME UNCHANGED live PROVE ReadsOn
  BY <1>4 DEF ReadsOn, ToolsInv, CallsTyped
<1>5. \A x \in Answers : [callback |-> c, result |-> x] \in [callback : Callbacks, result : Answers]
  OBVIOUS
<1>6. ASSUME NEW x \in Answers, Tell(c, x), UNCHANGED rows, UNCHANGED live,
             Fits([callback |-> c, result |-> x])
      PROVE  ToolsInv'
  <2>1. told' \subseteq [callback : Callbacks, result : Answers]
    BY <1>5, <1>6 DEF Tell, ToolsInv, CallsTyped
  <2>2. \A a \in told' : a \in told \/ Fits(a)
    BY <1>6 DEF Tell
  <2> QED BY <1>2, <1>4, <1>6, <2>1, <2>2, RowsRest
<1>7. \A code \in Refusals : NoEntry(code) \in Answers /\ NoEntry(code).code # "OK"
  BY DEF NoEntry, Result, Answers, Refusals
<1>8. {"DUPLICATE_MISMATCH", "CALL_CANCELLED"} \subseteq Refusals
  BY DEF Refusals
<1>9. ASSUME Execute(h, c), Row(c)'.callback = c PROVE ReadsOn
  <2> DEFINE v == [stage |-> "running", seen |-> current, at |-> Version]
  <2>1. v \in Reading
    BY <1>2 DEF Reading, ToolsInv, LedgerWell
  <2>2. live' = [live EXCEPT ![h][c] = v]
    BY <1>9 DEF Execute
  <2> HIDE DEF v
  <2>3. /\ live' \in [Hosts -> [Callbacks -> Reading]]
        /\ \A g \in Hosts, d \in Callbacks :
             live'[g][d] = live[g][d] \/ (g = h /\ d = c /\ live'[g][d] = v)
    BY <2>1, <2>2 DEF ToolsInv, CallsTyped
  <2>4. ASSUME live'[h][c] = v PROVE Starts(h, c)
    BY <1>1, <2>4 DEF Starts, Delivered, v
  <2>5. ASSUME NEW g \in Hosts, NEW d \in Callbacks
        PROVE  live'[g][d] = live[g][d] \/ (Starts(g, d) /\ Row(d)'.callback = d)
    BY <1>9, <2>3, <2>4
  <2> QED BY <2>3, <2>5 DEF ReadsOn
<1>10. CASE Replay(h, c)
  <2>1. Row(c).result \in Answers /\ Fits([callback |-> c, result |-> Row(c).result])
    BY <1>3, <1>10 DEF Replay, Stored, Fits
  <2> QED BY <1>6, <1>10, <2>1 DEF Replay
<1>11. CASE RefuseReuse(h, c)
  <2>1. Fits([callback |-> c, result |-> NoEntry("DUPLICATE_MISMATCH")])
    BY <1>3, <1>7, <1>8, <1>11 DEF RefuseReuse, Fits
  <2> QED BY <1>6, <1>7, <1>8, <1>11, <2>1 DEF RefuseReuse
<1>12. CASE RefuseOverLimit(h, c)
  <2>1. Fits([callback |-> c, result |-> NoEntry("CALL_CANCELLED")])
    BY <1>7, <1>8, <1>12 DEF RefuseOverLimit, Fits
  <2> QED BY <1>6, <1>7, <1>8, <1>12, <2>1 DEF RefuseOverLimit
<1>13. CASE Reserve(h, c)
  <2>1. /\ Row(c) = NoRow /\ Cardinality(Reserved(c.turn)) < CallLimit
        /\ Moves(c, Running) /\ Execute(h, c) /\ told' = told
    BY <1>13 DEF Reserve, Moves
  <2>2. /\ Row(c)' = [callback |-> c, result |-> Running]
        /\ \A d \in Callbacks : d # c => Row(d)' = Row(d) \/ Row(d)' = Row(c)'
        /\ \A d \in Callbacks : d # c /\ Row(d).callback = d => Row(d)' = Row(d)
    BY <2>1, RowMoves DEF ToolsInv, Owns
  <2>3. ReadsOn
    BY <1>9, <2>1, <2>2
  <2>4. \A d \in Calls : Row(d)' = Row(d) \/ (~Effective(d) /\ ~Effective(d)')
    <3> SUFFICES ASSUME NEW d \in Calls PROVE Row(d)' = Row(d) \/ (~Effective(d) /\ ~Effective(d)')
      OBVIOUS
    <3>1. CASE d = c
      BY <1>3, <2>1, <2>2, <3>1 DEF Effective, NoRow, Running
    <3>2. CASE d # c
      <4>1. d \in Callbacks /\ Row(c)'.callback = c
        BY <2>2, CallFacts
      <4> QED BY <2>2, <3>2, <4>1 DEF Effective
    <3> QED BY <3>1, <3>2
  <2>5. EffectsAccounted'
    BY <1>2, <2>4, EffectsKept DEF LedgerOn
  <2> QED BY <1>2, <2>1, <2>3, <2>5, RowsMove
<1>14. CASE Recover(h, c)
  <2>1. Row(c)' = Row(c) /\ Row(c).callback = c /\ Execute(h, c) /\ UNCHANGED <<rows, told>>
    BY <1>14 DEF Recover, Row, Slot
  <2>2. ReadsOn
    BY <1>9, <2>1
  <2> QED BY <1>2, <2>1, <2>2, RowsRest DEF ToolsInv, CallsTyped
<1> QED BY <1>10, <1>11, <1>12, <1>13, <1>14 DEF Answer

\* The service decides the request, and its row is completed with the outcome.
LEMMA TakeEffectStep ==
  ASSUME ToolsInv, NEW h \in Hosts, NEW c \in Callbacks, TakeEffect(h, c)
  PROVE  ToolsInv'
<1> DEFINE r == c.request
           x == Outcome(verdicts'[Key(r)].decision)
<1>1. /\ c \in Calls /\ Live(h, c) /\ live[h][c].seen # NoState /\ Covered(h, c)
      /\ Row(c).result = Running /\ DecideRequest(r) /\ Complete(h, c, x)
  BY DEF TakeEffect, Runs, Proceeds
<1>2. r \in Asked /\ r.base \in Nat /\ r.kind \in MutationKinds
  BY <1>1, CallFacts
<1>3. /\ LedgerWell'
      /\ Grows(r) \/ (Stays /\ verdicts'[Key(r)].decision.status # "accepted")
  BY <1>1, <1>2, DecideStep DEF ToolsInv
<1>4. LedgerOn
  BY <1>2, <1>3 DEF LedgerOn
<1>5. Version \in Nat
  BY DEF ToolsInv, LedgerWell, Version
<1>6. CASE Grows(r)
  <2>1. x = Result("OK", Version + 1)
    BY <1>6 DEF Grows, Outcome, Accepted
  <2>2. x \in Answers
    BY <1>5, <2>1 DEF Result, Answers
  <2>3. /\ Moves(c, x) /\ ReadsOn /\ Row(c).callback = c
        /\ told' = told \cup {[callback |-> c, result |-> x]}
    <3>1. Final(c, x) = x
      BY <1>1 DEF Final
    <3> HIDE DEF x
    <3> QED BY <1>1, <2>2, <3>1, CompleteMoves
  <2>4. c.tool = "importApprovedWeek" => c \in Covers[current]
    <3>1. /\ live[h][c].at <= Version
          /\ live[h][c].at = Version => live[h][c].seen = current
          /\ r.base <= live[h][c].at
      BY <1>1 DEF ToolsInv, ReadingsFit
    <3>2. live[h][c] \in Reading
      BY DEF ToolsInv, CallsTyped
    <3>3. live[h][c].at \in Nat
      BY <3>2 DEF Reading
    <3>4. r.base = Version
      BY <1>6 DEF Grows
    <3>5. live[h][c].at = Version
      BY <1>5, <3>1, <3>3, <3>4
    <3> QED BY <1>1, <3>1, <3>5 DEF Covered
  <2>5. EffectsAccounted'
    BY <1>1, <1>6, <2>1, <2>3, <2>4, EffectTaken
  <2> HIDE DEF x
  <2> QED BY <1>1, <1>4, <2>2, <2>3, <2>5, RowsMove
<1>7. CASE Stays /\ verdicts'[Key(r)].decision.status # "accepted"
  <2>1. ledger' = ledger
    BY <1>7 DEF Stays
  <2>2. x \in Answers /\ x.code # "OK"
    <3>1. PICK d : Rule(r, d) /\ (d = Conflict(Version) \/ d = DomainRejected \/ d.status = "accepted")
      <4>1. r.kind # "planner_undo" /\ r.kind # "workspace_bootstrap"
        BY <1>2, RequestsAssumption
      <4>2. CASE AcceptBatch(r)
        <5>1. Rule(r, Accepted(Version + 1))
          BY <4>2 DEF AcceptBatch, Extend
        <5> QED BY <5>1 DEF Accepted
      <4>3. CASE RefuseStale(r) \/ RefuseBatch(r)
        BY <4>3 DEF RefuseStale, RefuseBatch
      <4> QED BY <1>1, <4>1, <4>2, <4>3 DEF DecideRequest, AcceptUndo, SetUp, RefuseUndo, RefuseSetUp
    <3>2. Key(r) \in Keys
      <4>1. r \in Requests
        BY <1>2, AskedAssumption
      <4>2. r.kind \in Kinds /\ r.id \in RequestIds
        BY <4>1 DEF Requests, Mutations, Undos, Bootstraps, Kinds
      <4> QED BY <4>2 DEF Key, Keys
    <3>3. verdicts'[Key(r)].decision = d
      BY <3>1, <3>2 DEF Rule, ToolsInv, LedgerWell
    <3>4. CASE d = Conflict(Version)
      <4>1. x = Result("VERSION_CONFLICT", Version)
        BY <3>3, <3>4 DEF Outcome, Conflict
      <4> QED BY <1>5, <4>1 DEF Result, Answers, Refusals
    <3>5. CASE d = DomainRejected
      <4>1. x = Result("DOMAIN_REJECTED", Version)
        BY <3>3, <3>5 DEF Outcome, DomainRejected
      <4> QED BY <1>5, <4>1 DEF Result, Answers, Refusals
    <3> QED BY <1>7, <3>1, <3>3, <3>4, <3>5
  <2> HIDE DEF x
  <2> QED BY <1>1, <1>4, <2>1, <2>2, CompletesQuietly
<1> QED BY <1>3, <1>6, <1>7

LEMMA FinishStep ==
  ASSUME ToolsInv, NEW h \in Hosts, NEW c \in Callbacks, Finish(h, c)
  PROVE  ToolsInv'
<1>1. {"INVALID_ARGUMENTS", "DOMAIN_REJECTED", "VERSION_CONFLICT"} \subseteq Refusals
  BY DEF Refusals
<1>2. CASE AnswerQuery(h, c)
  <2>1. c \notin Calls /\ Live(h, c) /\ UNCHANGED ledgerVars
    BY <1>2 DEF AnswerQuery, Proceeds, Calls
  <2>2. PICK x \in Answers : Complete(h, c, x)
    <3>1. live[h][c] \in Reading /\ Version \in Nat
      BY DEF ToolsInv, CallsTyped, LedgerWell, Version
    <3>2. live[h][c].at \in Nat
      BY <3>1 DEF Reading
    <3>3. \A code \in {"OK"} \cup Refusals, n \in Nat : Result(code, n) \in Answers
      BY DEF Result, Answers
    <3> QED BY <1>1, <1>2, <3>1, <3>2, <3>3 DEF AnswerQuery
  <2> QED BY <2>1, <2>2, StaysUnchanged, CompletesQuietly
<1>3. CASE RefuseCall(h, c)
  BY <1>1, <1>3, RefuseStep DEF RefuseCall, Proceeds
<1>4. CASE RefuseRecipe(h, c)
  BY <1>1, <1>4, RefuseStep DEF RefuseRecipe, Proceeds
<1>5. CASE RefuseWeek(h, c)
  BY <1>1, <1>5, RefuseStep DEF RefuseWeek, Runs, Proceeds
<1>6. CASE TakeEffect(h, c)
  BY <1>6, TakeEffectStep
<1>7. CASE LoseCompletion(h, c)
  <2>1. /\ Live(h, c) /\ Row(c).result # Running /\ Tell(c, Row(c).result)
        /\ Stop(h, c) /\ UNCHANGED <<ledgerVars, rows>>
    BY <1>7 DEF LoseCompletion, Runs, Proceeds
  <2>2. Row(c).callback = c /\ Row(c) \in Stored
    BY <2>1, CallFacts DEF ToolsInv, RowsOwned, CallsTyped, Row
  <2>3. Row(c).result \in Answers
    BY <2>1, <2>2 DEF Stored
  <2>4. Fits([callback |-> c, result |-> Row(c).result])
    BY <2>2 DEF Fits
  <2>5. \A a \in told' : a \in told \/ Fits(a)
    BY <2>1, <2>4 DEF Tell
  <2>6. told' \subseteq [callback : Callbacks, result : Answers]
    BY <2>1, <2>3 DEF Tell, ToolsInv, CallsTyped
  <2>7. ReadsOn
    BY <2>1, StopReads DEF ToolsInv
  <2> QED BY <2>1, <2>5, <2>6, <2>7, StaysUnchanged, RowsRest
<1> QED BY <1>2, <1>3, <1>4, <1>5, <1>6, <1>7 DEF Finish

LEMMA ToolsStep ==
  ASSUME ToolsInv, [Next]_vars
  PROVE  ToolsInv'
<1>1. told \subseteq [callback : Callbacks, result : Answers]
  BY DEF ToolsInv, CallsTyped
<1>2. ASSUME UNCHANGED live PROVE ReadsOn
  BY <1>2 DEF ReadsOn, ToolsInv, CallsTyped
<1>3. ASSUME NEW h \in Hosts, Restart(h) PROVE ToolsInv'
  <2>1. NotLive \in Reading
    BY DEF NotLive, Reading
  <2>2. ReadsOn
    BY <1>3, <2>1 DEF Restart, ReadsOn, ToolsInv, CallsTyped
  <2> QED BY <1>1, <1>3, <2>2, StaysUnchanged, RowsRest DEF Restart
<1>4. ASSUME NEW h \in Hosts, NEW c \in Callbacks, Throw(h, c) PROVE ToolsInv'
  <2>1. Live(h, c) /\ UNCHANGED ledgerVars
    BY <1>4 DEF Throw, Proceeds
  <2>2. CASE Refuse(h, c, "INVALID_ARGUMENTS")
    BY <2>1, <2>2, RefuseStep DEF Refusals
  <2>3. CASE Stop(h, c) /\ UNCHANGED <<rows, active, told>>
    BY <1>1, <2>1, <2>3, StaysUnchanged, StopReads, RowsRest DEF ToolsInv
  <2> QED BY <1>4, <2>2, <2>3 DEF Throw
<1>5. ASSUME NEW r \in Asked \ Native, Elsewhere(r) PROVE ToolsInv'
  <2>1. DecideRequest(r) /\ UNCHANGED <<rows, live, told>>
    BY <1>5 DEF Elsewhere, callVars
  <2>2. LedgerWell' /\ (Grows(r) \/ Stays)
    BY <2>1, DecideStep DEF ToolsInv
  <2>3. LedgerOn /\ (ledger' = ledger \/ \E q \in Asked \ Native : Grows(q))
    BY <2>2 DEF LedgerOn, Stays
  <2> QED BY <1>1, <1>2, <2>1, <2>3, RowsRest
<1>6. ASSUME NEW t \in Turns, EndTurn(t) PROVE ToolsInv'
  BY <1>1, <1>2, <1>6, StaysUnchanged, RowsRest DEF EndTurn
<1>7. CASE UNCHANGED vars
  <2>1. UNCHANGED <<rows, live, told>> /\ UNCHANGED ledgerVars
    BY <1>7 DEF vars, callVars
  <2> QED BY <1>1, <1>2, <2>1, StaysUnchanged, RowsRest
<1> QED BY <1>3, <1>4, <1>5, <1>6, <1>7, AnswerStep, FinishStep DEF Next

LEMMA ToolsStart ==
  ASSUME Init
  PROVE  ToolsInv
<1>1. /\ ledger = <<>> /\ Version = 0 /\ ledger \in Seq(Entries)
  BY DEF Init, Version
<1>2. LedgerWell
  BY <1>1, CallbacksAssumption DEF Init, LedgerWell
<1>3. NoRow \in Stored /\ NotLive \in Reading
  BY DEF NoRow, Stored, NotLive, Reading
<1>4. CallsTyped
  BY <1>3 DEF Init, CallsTyped
<1>5. \A c \in Callbacks : Row(c) = NoRow
  BY CallFacts DEF Init, Row
<1>6. \A h \in Hosts, c \in Callbacks : ~Live(h, c)
  BY DEF Init, Live
<1>7. RowsOwned /\ ReadingsFit
  BY <1>5, <1>6 DEF RowsOwned, ReadingsFit, Init
<1>8. EffectsAccounted
  BY <1>1, <1>5, CallFacts DEF EffectsAccounted, EffectsRecorded, WeekReplacedAsChecked, NoRow, Running
<1>9. ToldFits
  BY DEF Init, ToldFits
<1>10. RowsLimited
  <2>1. \A t : Reserved(t) = {}
    BY DEF Init, Reserved
  <2>2. IsFiniteSet({}) /\ Cardinality({}) = 0 /\ CallLimit >= 0
    BY FS_EmptySet, CallbacksAssumption
  <2> QED BY <2>1, <2>2 DEF RowsLimited
<1> QED BY <1>2, <1>4, <1>7, <1>8, <1>9, <1>10 DEF ToolsInv

-----------------------------------------------------------------------------
LEMMA ToolsAlwaysSound ==
  Spec => []ToolsInv
<1>1. Init => ToolsInv
  BY ToolsStart
<1>2. ToolsInv /\ [Next]_vars => ToolsInv'
  BY ToolsStep
<1> QED BY <1>1, <1>2, PTL DEF Spec

\* Every change that Codex made is recorded by its call, every call that
\* succeeded made the change it names, and a week replaced what it was
\* compared with: for any hosts, restarts, deliveries and other callers.
THEOREM EffectsAlwaysAccounted ==
  Spec => []EffectsAccounted
<1>1. ToolsInv => EffectsAccounted
  BY DEF ToolsInv
<1> QED BY <1>1, ToolsAlwaysSound, PTL

\* Whoever asks for a call gets one answer, and a callback that was refused
\* has no effect, then or later.
THEOREM RefusalsAreFinal ==
  Spec => [](AnswersStored /\ RefusedHasNoEffect)
<1>1. ToolsInv => AnswersStored /\ RefusedHasNoEffect
  <2> SUFFICES ASSUME ToolsInv PROVE AnswersStored /\ RefusedHasNoEffect
    OBVIOUS
  <2>1. \A a \in told : a.callback \in Callbacks /\ a.callback # NoState /\ Fits(a)
    BY CallFacts DEF ToolsInv, CallsTyped, ToldFits
  <2>2. AnswersStored
    BY <2>1 DEF AnswersStored, Fits, NoRow
  <2>3. ASSUME NEW a \in told, a.callback \in Calls, a.result.code # "OK",
               NEW i \in 1..Version, ledger[i].request = a.callback.request
        PROVE  FALSE
    <3>1. Row(a.callback) = [callback |-> a.callback, result |-> Result("OK", i)]
      BY <2>3 DEF ToolsInv, EffectsAccounted, EffectsRecorded
    <3> QED BY <2>1, <2>3, <3>1 DEF Fits, Result, NoRow
  <2> QED BY <2>2, <2>3 DEF RefusedHasNoEffect
<1> QED BY <1>1, ToolsAlwaysSound, PTL

\* A turn never has more rows than the limit, whoever serves its calls.
THEOREM TurnsAlwaysLimited ==
  Spec => [](\A t \in Turns : Cardinality(Reserved(t)) <= CallLimit)
<1>1. ToolsInv => \A t \in Turns : Cardinality(Reserved(t)) <= CallLimit
  BY DEF ToolsInv, RowsLimited
<1> QED BY <1>1, ToolsAlwaysSound, PTL

-----------------------------------------------------------------------------
(* The connection to the app-server.  Whatever a connected app-server waits *)
(* for is held in exactly one place, and is answered from there: it is     *)
(* deferred, with a tool, or shown to the household.                       *)

Resumes == {"no", "ok", "error"}
Brief == [stage : {"idle", "spawning", "initialize", "closing"}, child : 0..MaxChildren,
          resume : Resumes]
Listing == [stage : {"list", "read"}, child : 0..MaxChildren, resume : Resumes, pages : Nat,
            items : SUBSET Items, more : BOOLEAN, thread : Threads \cup {None}, tries : Nat,
            source : {"none", "lossy", "planner", "other"}, turn : SessionTurns \cup {0}]
Frames == ChildRequests \cup Notifications
Questions == [id : RpcIds, thread : Own]
Sessions ==
  [roots : SUBSET Threads, archived : SUBSET Threads, active : [Threads -> Nat],
   interactions : 0..MaxChildren, entries : [Children -> SUBSET Questions],
   calls : SUBSET [child : Children, id : RpcIds], owed : [Children -> SUBSET RpcIds],
   thrown : BOOLEAN, stray : BOOLEAN]

SessionTyped ==
  /\ child \in [Children -> {"none", "spawning", "running", "ended"}]
  /\ link \in [Children -> {"none", "open", "failed", "closed"}]
  /\ clients \in [client : 0..MaxChildren, openingClient : 0..MaxChildren]
  /\ opening \in Brief \cup Listing
  /\ deferred \in Seq(Frames)
  /\ session \in Sessions
  /\ closing \in {"no", "begun", "done"}

\* The ids of a child that are with tools, and with the household.
ToolIds(s, c) == {id \in RpcIds : [child |-> c, id |-> id] \in s.calls}
ShownIds(s, c) == {q.id : q \in s.entries[c]}

Partition(s, c, held) ==
  /\ s.owed[c] = held \cup ToolIds(s, c) \cup ShownIds(s, c)
  /\ held \cap (ToolIds(s, c) \cup ShownIds(s, c)) = {}
  /\ ToolIds(s, c) \cap ShownIds(s, c) = {}
  /\ \A q, r \in s.entries[c] : q.id = r.id => q = r
  /\ s.entries[c] # {} => s.interactions = c

Up == {c \in Children : link[c] = "open"}
Accounts(s, held, up) == ~s.stray /\ \A c \in up : Partition(s, c, held[c])

\* What the frames deferred after the first k ask.
DeferredIds(k) == {deferred[i].id : i \in {j \in k+1..Len(deferred) : IsRequest(deferred[j])}}
HeldBy(c, ids) == [d \in Children |-> IF d = c THEN ids ELSE {}]
Distinct ==
  \A i, j \in 1..Len(deferred) :
    IsRequest(deferred[i]) /\ IsRequest(deferred[j]) /\ deferred[i].id = deferred[j].id => i = j

\* Nothing was asked by a process that is not connected yet.
Untouched(s, c) ==
  s.entries[c] = {} /\ ToolIds(s, c) = {} /\ s.interactions # c

OpeningFits ==
  /\ opening.stage = "idle" => opening = NoOpening
  /\ opening # NoOpening => opening.child \in Children /\ ~Healthy
  /\ opening.stage \notin Waiting =>
       opening.resume = "no" /\ deferred = <<>> /\ clients.openingClient = None
  /\ opening.stage \in Waiting =>
       /\ link[opening.child] # "none" /\ opening.child # clients.client
       /\ Untouched(session, opening.child)
       /\ link[opening.child] = "open" => clients.openingClient = opening.child
  /\ clients.openingClient \in {None, opening.child}
  /\ opening.stage = "spawning" => child[opening.child] = "spawning"
  /\ opening.stage = "read" => opening.thread \in Threads
ChildrenFit ==
  \A c \in Children :
    /\ child[c] = "spawning" => opening.stage = "spawning" /\ opening.child = c
    /\ child[c] \in {"none", "spawning"} => link[c] = "none"
    /\ link[c] = "none" =>
         /\ child[c] # "running" /\ c \notin {clients.client, clients.openingClient}
         /\ Untouched(session, c) /\ session.owed[c] = {}
    /\ link[c] = "open" =>
         c = clients.client \/ (c = opening.child /\ opening.stage \in Waiting)
ClientsFit ==
  /\ session.interactions \in {None, clients.client}
  /\ Healthy => session.interactions = clients.client
  /\ closing # "no" => clients.client = None
  /\ closing = "done" =>
       /\ opening = NoOpening
       /\ \A c \in Children : child[c] \in {"none", "ended"} \/ link[c] = "failed"

SessionInv ==
  /\ SessionTyped /\ OpeningFits /\ ChildrenFit /\ ClientsFit
  /\ Distinct /\ Accounts(session, HeldBy(opening.child, DeferredIds(0)), Up)

-----------------------------------------------------------------------------
(* Answers and frames. *)

\* A child whose books are the same in r as in s.
SameBooks(s, r, c) ==
  r.entries[c] = s.entries[c] /\ r.owed[c] = s.owed[c] /\ ToolIds(r, c) = ToolIds(s, c)

LEMMA PartitionKept ==
  ASSUME NEW s, NEW r, NEW c, NEW held, Partition(s, c, held), SameBooks(s, r, c),
         r.interactions = s.interactions
  PROVE  Partition(r, c, held)
BY DEF Partition, SameBooks, ShownIds

\* An answer settles what was taken from where it was held.
LEMMA ReplyAnswers ==
  ASSUME NEW s \in Sessions, NEW c \in Children, NEW id \in RpcIds, NEW rest \in SUBSET RpcIds,
         link[c] = "open" => Partition(s, c, rest \cup {id}), id \notin rest, ~s.stray
  PROVE  LET r == Reply(s, c, id) IN
           /\ r \in Sessions /\ ~r.stray
           /\ r.interactions = s.interactions /\ r.entries = s.entries /\ r.calls = s.calls
           /\ r.roots = s.roots /\ r.active = s.active
           /\ \A d \in Children : d # c => r.owed[d] = s.owed[d]
           /\ link[c] = "none" => r.owed = s.owed
           /\ link[c] = "open" => Partition(r, c, rest) /\ r.thrown = s.thrown
<1> DEFINE r == Reply(s, c, id)
<1>1. CASE link[c] # "open"
  <2>1. r = [s EXCEPT !.thrown = TRUE]
    BY <1>1 DEF Reply
  <2> QED BY <1>1, <2>1 DEF Sessions
<1>2. CASE link[c] = "open"
  <2>1. id \in s.owed[c]
    BY <1>2 DEF Partition
  <2>2. r = [s EXCEPT !.owed[c] = @ \ {id}]
    BY <1>2, <2>1 DEF Reply
  <2> HIDE DEF r
  <2>3. /\ r \in Sessions /\ r.stray = s.stray /\ r.interactions = s.interactions
        /\ r.entries = s.entries /\ r.calls = s.calls /\ r.thrown = s.thrown
        /\ r.roots = s.roots /\ r.active = s.active
        /\ r.owed[c] = s.owed[c] \ {id}
        /\ \A d \in Children : d # c => r.owed[d] = s.owed[d]
    BY <2>2 DEF Sessions
  <2>4. ToolIds(r, c) = ToolIds(s, c) /\ ShownIds(r, c) = ShownIds(s, c)
    BY <2>3 DEF ToolIds, ShownIds
  <2>5. Partition(r, c, rest)
    BY <1>2, <2>3, <2>4 DEF Partition
  <2> QED BY <1>2, <2>3, <2>5 DEF r
<1> QED BY <1>1, <1>2

LEMMA QuietlyKeeps ==
  ASSUME NEW s \in Sessions
  PROVE  LET r == Quietly(s) IN
           /\ r \in Sessions /\ r.stray = s.stray /\ r.interactions = s.interactions
           /\ r.roots = s.roots /\ r.active = s.active
           /\ r.entries = s.entries /\ r.calls = s.calls /\ r.owed = s.owed
           /\ \A c, held : Partition(r, c, held) <=> Partition(s, c, held)
           /\ \A c : Untouched(r, c) <=> Untouched(s, c)
<1> DEFINE r == Quietly(s)
<1>1. /\ r \in Sessions /\ r.stray = s.stray /\ r.interactions = s.interactions
      /\ r.roots = s.roots /\ r.active = s.active
      /\ r.entries = s.entries /\ r.calls = s.calls /\ r.owed = s.owed
  BY DEF Quietly, Sessions
<1> HIDE DEF r
<1>2. /\ \A c, held : Partition(r, c, held) <=> Partition(s, c, held)
      /\ \A c : Untouched(r, c) <=> Untouched(s, c)
  BY <1>1 DEF Partition, Untouched, ToolIds, ShownIds
<1> QED BY <1>1, <1>2 DEF r

\* What a handled frame leaves alone: everything of other children.
Framed(s, r, c) ==
  /\ r \in Sessions /\ ~r.stray /\ r.interactions = s.interactions
  /\ \A d \in Children : d # c => SameBooks(s, r, d)

\* A question taken into the registry, and a call handed to a tool.
LEMMA RequestHandled ==
  ASSUME NEW s \in Sessions, NEW c \in Children, NEW e \in ChildRequests,
         NEW rest \in SUBSET RpcIds, s.interactions = c, ~s.stray,
         link[c] = "open" => Partition(s, c, rest \cup {e.id}), e.id \notin rest
  PROVE  LET r == Handle(s, c, e) IN
           /\ Framed(s, r, c) /\ r.roots = s.roots /\ r.active = s.active
           /\ link[c] = "open" => Partition(r, c, rest)
<1> DEFINE r == Handle(s, c, e)
<1>1. /\ e.id \in RpcIds /\ IsRequest(e)
      /\ e.kind = "question" => e.thread \in Own
  BY DEF ChildRequests, IsRequest
<1>2. r = HandleRequest(s, c, e)
  BY <1>1 DEF Handle
<1>3. CASE r = Reply(s, c, e.id)
  <2>0. /\ r \in Sessions /\ ~r.stray
        /\ r.interactions = s.interactions /\ r.entries = s.entries /\ r.calls = s.calls
        /\ r.roots = s.roots /\ r.active = s.active
        /\ \A d \in Children : d # c => r.owed[d] = s.owed[d]
        /\ link[c] = "open" => Partition(r, c, rest)
    BY <1>1, <1>3, ReplyAnswers
  <2> HIDE DEF r
  <2>1. \A d \in Children : ToolIds(r, d) = ToolIds(s, d)
    BY <2>0 DEF ToolIds
  <2> QED BY <2>0, <2>1 DEF Framed, SameBooks, r
<1>4. CASE e.kind = "tool" /\ MayAct(s, e)
  <2>1. r = [s EXCEPT !.calls = @ \cup {[child |-> c, id |-> e.id]}]
    BY <1>2, <1>4 DEF HandleRequest
  <2> HIDE DEF r
  <2>2. /\ r \in Sessions /\ r.stray = s.stray /\ r.interactions = s.interactions
        /\ r.entries = s.entries /\ r.owed = s.owed /\ r.roots = s.roots /\ r.active = s.active
        /\ r.calls = s.calls \cup {[child |-> c, id |-> e.id]}
    BY <1>1, <2>1 DEF Sessions
  <2>3. /\ ToolIds(r, c) = ToolIds(s, c) \cup {e.id}
        /\ \A d \in Children : d # c => ToolIds(r, d) = ToolIds(s, d)
        /\ ShownIds(r, c) = ShownIds(s, c)
    BY <1>1, <2>2 DEF ToolIds, ShownIds
  <2>4. link[c] = "open" => Partition(r, c, rest)
    BY <2>2, <2>3 DEF Partition
  <2> QED BY <2>2, <2>3, <2>4 DEF Framed, SameBooks, r
<1>5. CASE e.kind = "question" /\ r = Register(s, c, e)
  <2>1. CASE Cardinality(s.entries[c]) >= MaxQuestions
    BY <1>3, <1>5, <2>1 DEF Register
  <2>2. CASE /\ ~(Cardinality(s.entries[c]) >= MaxQuestions)
             /\ \E q \in s.entries[c] : q.id = e.id
    <3>1. r = [s EXCEPT !.thrown = TRUE]
      BY <1>5, <2>2 DEF Register
    <3>2. link[c] # "open"
      BY <2>2 DEF Partition, ShownIds
    <3> HIDE DEF r
    <3>3. /\ r \in Sessions /\ r.stray = s.stray /\ r.interactions = s.interactions
          /\ r.entries = s.entries /\ r.owed = s.owed /\ r.calls = s.calls
          /\ r.roots = s.roots /\ r.active = s.active
      BY <3>1 DEF Sessions
    <3> QED BY <3>2, <3>3 DEF Framed, SameBooks, ToolIds, r
  <2>3. CASE /\ ~(Cardinality(s.entries[c]) >= MaxQuestions)
             /\ ~\E q \in s.entries[c] : q.id = e.id
    <3> DEFINE q == [id |-> e.id, thread |-> e.thread]
    <3>0. q \in Questions /\ q.id = e.id
      BY <1>1, <1>5 DEF Questions
    <3>1. r = [s EXCEPT !.entries[c] = @ \cup {q}]
      BY <1>5, <2>3 DEF Register
    <3> HIDE DEF r, q
    <3>2. /\ r \in Sessions /\ r.stray = s.stray /\ r.interactions = s.interactions
          /\ r.owed = s.owed /\ r.calls = s.calls /\ r.roots = s.roots /\ r.active = s.active
          /\ r.entries[c] = s.entries[c] \cup {q}
          /\ \A d \in Children : d # c => r.entries[d] = s.entries[d]
      BY <3>0, <3>1 DEF Sessions
    <3>3. /\ ShownIds(r, c) = ShownIds(s, c) \cup {e.id}
          /\ \A d : ToolIds(r, d) = ToolIds(s, d)
      BY <3>0, <3>2 DEF ToolIds, ShownIds
    <3>4. link[c] = "open" => Partition(r, c, rest)
      <4> SUFFICES ASSUME link[c] = "open" PROVE Partition(r, c, rest)
        OBVIOUS
      <4>1. \A a, b \in r.entries[c] : a.id = b.id => a = b
        BY <2>3, <3>0, <3>2 DEF Partition
      <4> QED BY <3>2, <3>3, <4>1 DEF Partition
    <3> QED BY <3>2, <3>3, <3>4 DEF Framed, SameBooks, r
  <2> QED BY <2>1, <2>2, <2>3
<1> QED BY <1>2, <1>3, <1>4, <1>5 DEF HandleRequest

\* A notification answers nothing; the app-server may resolve a question.
LEMMA NotificationHandled ==
  ASSUME NEW s \in Sessions, NEW c \in Children, NEW e \in Notifications,
         NEW held \in SUBSET RpcIds, s.interactions \in {None, c}, ~s.stray,
         link[c] = "open" => Partition(s, c, held)
  PROVE  LET r == Handle(s, c, e) IN
           Framed(s, r, c) /\ (link[c] = "open" => Partition(r, c, held))
<1> DEFINE r == Handle(s, c, e)
<1>1. ~IsRequest(e) /\ r = HandleNotification(s, e)
  BY DEF Notifications, IsRequest, Handle
<1>2. ASSUME NEW p, p \in Sessions, p.stray = s.stray, p.interactions = s.interactions,
             p.entries = s.entries, p.owed = s.owed, p.calls = s.calls
      PROVE  Framed(s, p, c) /\ (link[c] = "open" => Partition(p, c, held))
  BY <1>2, PartitionKept DEF Framed, SameBooks, ToolIds
<1>3. CASE e.kind = "started"
  <2>1. e.thread \in Threads
    BY <1>3 DEF Notifications, Threads
  <2>2. r = Observed(s, e.thread, e.source)
    BY <1>1, <1>3 DEF HandleNotification
  <2>3. r = [s EXCEPT !.roots = @ \cup {i.thread : i \in {j \in {[thread |-> e.thread, source |-> e.source]} :
                                      j.thread \notin s.archived /\ IsRoot(s, j.thread, j.source)}}]
    BY <2>2 DEF Observed, ObservedAll
  <2> HIDE DEF r
  <2>4. /\ r \in Sessions /\ r.stray = s.stray /\ r.interactions = s.interactions
        /\ r.entries = s.entries /\ r.owed = s.owed /\ r.calls = s.calls
    BY <2>1, <2>3 DEF Sessions
  <2> QED BY <1>2, <2>4 DEF r
<1>4. CASE e.kind = "archived"
  <2>1. e.thread \in Threads
    BY <1>4 DEF Notifications, Threads
  <2>2. r = Forgotten(s, e.thread)
    BY <1>1, <1>4 DEF HandleNotification
  <2>3. /\ r \in Sessions /\ r.stray = s.stray /\ r.interactions = s.interactions
        /\ r.entries = s.entries /\ r.owed = s.owed /\ r.calls = s.calls
    <3> DEFINE f == [s EXCEPT !.archived = @ \cup {e.thread}, !.roots = @ \ {e.thread},
                             !.active[e.thread] = 0]
    <3>1. r = s \/ r = f
      BY <2>2 DEF Forgotten
    <3>2. /\ f \in Sessions /\ f.stray = s.stray /\ f.interactions = s.interactions
          /\ f.entries = s.entries /\ f.owed = s.owed /\ f.calls = s.calls
      BY <2>1 DEF Sessions
    <3> HIDE DEF r, f
    <3> QED BY <3>1, <3>2
  <2> HIDE DEF r
  <2> QED BY <1>2, <2>3 DEF r
<1>5. CASE e.kind \in {"turnStarted", "turnCompleted"}
  <2>1. e.thread \in Threads /\ e.turn \in Nat
    <3>1. e \in [kind : {"turnStarted", "turnCompleted"}, thread : Own, turn : SessionTurns]
      BY <1>5 DEF Notifications
    <3>2. \A t \in SessionTurns : t \in Nat
      BY SessionAssumption
    <3> QED BY <3>1, <3>2 DEF Threads
  <2>2. r = s \/ r = [s EXCEPT !.active[e.thread] = e.turn] \/ r = [s EXCEPT !.active[e.thread] = 0]
    BY <1>1, <1>5 DEF HandleNotification
  <2> HIDE DEF r
  <2>3. /\ r \in Sessions /\ r.stray = s.stray /\ r.interactions = s.interactions
        /\ r.entries = s.entries /\ r.owed = s.owed /\ r.calls = s.calls
    BY <2>1, <2>2 DEF Sessions
  <2> QED BY <1>2, <2>3 DEF r
<1>6. CASE e.kind = "resolved"
  <2> DEFINE found == {q \in s.entries[c] : q.id = e.id}
  <2>1. r = Resolved(s, e)
    BY <1>1, <1>6 DEF HandleNotification
  <2>2. CASE s.interactions = None \/ found = {}
    <3>1. r = s
      BY <2>1, <2>2 DEF Resolved
    <3> QED BY <1>2, <3>1
  <2>3. CASE s.interactions = c /\ s.interactions # None /\ found # {} /\ \E q \in found : q.thread # e.thread
    <3>1. r = [s EXCEPT !.thrown = TRUE]
      BY <2>1, <2>3 DEF Resolved
    <3> HIDE DEF r
    <3>2. /\ r \in Sessions /\ r.stray = s.stray /\ r.interactions = s.interactions
          /\ r.entries = s.entries /\ r.owed = s.owed /\ r.calls = s.calls
      BY <3>1 DEF Sessions
    <3> QED BY <1>2, <3>2 DEF r
  <2>4. CASE s.interactions = c /\ s.interactions # None /\ found # {} /\ ~\E q \in found : q.thread # e.thread
    <3>1. r = [s EXCEPT !.entries[c] = @ \ found, !.owed[c] = @ \ {e.id}]
      BY <2>1, <2>4 DEF Resolved
    <3> HIDE DEF r
    <3>2. /\ r \in Sessions /\ r.stray = s.stray /\ r.interactions = s.interactions
          /\ r.calls = s.calls
          /\ r.entries[c] = s.entries[c] \ found /\ r.owed[c] = s.owed[c] \ {e.id}
          /\ \A d \in Children : d # c => r.entries[d] = s.entries[d] /\ r.owed[d] = s.owed[d]
      BY <3>1 DEF Sessions
    <3>3. /\ ShownIds(r, c) = ShownIds(s, c) \ {e.id} /\ e.id \in ShownIds(s, c)
          /\ \A d : ToolIds(r, d) = ToolIds(s, d)
      <4>1. ShownIds(r, c) = ShownIds(s, c) \ {e.id}
        BY <3>2 DEF ShownIds
      <4>2. e.id \in ShownIds(s, c)
        BY <2>4 DEF ShownIds
      <4> QED BY <3>2, <4>1, <4>2 DEF ToolIds
    <3>4. link[c] = "open" => Partition(r, c, held)
      BY <3>2, <3>3 DEF Partition
    <3> QED BY <3>2, <3>3, <3>4 DEF Framed, SameBooks, r
  <2> QED BY <2>2, <2>3, <2>4
<1>7. CASE e.kind = "malformed"
  <2>1. r = [s EXCEPT !.thrown = TRUE]
    BY <1>1, <1>7 DEF HandleNotification
  <2> HIDE DEF r
  <2>2. /\ r \in Sessions /\ r.stray = s.stray /\ r.interactions = s.interactions
        /\ r.entries = s.entries /\ r.owed = s.owed /\ r.calls = s.calls
    BY <2>1 DEF Sessions
  <2> QED BY <1>2, <2>2 DEF r
<1> QED BY <1>3, <1>4, <1>5, <1>6, <1>7 DEF Notifications

LEMMA ChildrenFacts ==
  /\ MaxChildren \in Nat \ {0} /\ Children = 1..MaxChildren /\ 0..MaxChildren = Children \cup {None}
  /\ None \notin Children
BY SessionAssumption DEF Children, None

\* A question is answered from the registry.
LEMMA SettleAnswers ==
  ASSUME NEW s \in Sessions, NEW c \in Children, NEW q \in s.entries[c],
         NEW held \in SUBSET RpcIds, ~s.stray,
         link[c] = "open" => Partition(s, c, held)
  PROVE  LET r == Settle(s, c, q) IN
           Framed(s, r, c) /\ (link[c] = "open" => Partition(r, c, held))
<1> DEFINE t == [s EXCEPT !.entries[c] = @ \ {q}]
           r == Settle(s, c, q)
<1>1. q.id \in RpcIds
  BY DEF Sessions, Questions
<1>2. /\ t \in Sessions /\ t.stray = s.stray /\ t.interactions = s.interactions
      /\ t.calls = s.calls /\ t.owed = s.owed
      /\ t.entries[c] = s.entries[c] \ {q}
      /\ \A d \in Children : d # c => t.entries[d] = s.entries[d]
  BY DEF Sessions
<1>3. r = Reply(t, c, q.id)
  BY DEF Settle
<1> HIDE DEF t, r
<1>4. link[c] = "open" => Partition(t, c, held \cup {q.id}) /\ q.id \notin held
  <2> SUFFICES ASSUME link[c] = "open" PROVE Partition(t, c, held \cup {q.id}) /\ q.id \notin held
    OBVIOUS
  <2>1. Partition(s, c, held)
    OBVIOUS
  <2>2. ShownIds(t, c) = ShownIds(s, c) \ {q.id} /\ q.id \in ShownIds(s, c)
    <3>1. ShownIds(t, c) \subseteq ShownIds(s, c) /\ q.id \in ShownIds(s, c)
      BY <1>2 DEF ShownIds
    <3>2. q.id \notin ShownIds(t, c)
      BY <1>2, <2>1 DEF ShownIds, Partition
    <3>3. \A id \in ShownIds(s, c) : id # q.id => id \in ShownIds(t, c)
      BY <1>2 DEF ShownIds
    <3> QED BY <3>1, <3>2, <3>3
  <2>3. ToolIds(t, c) = ToolIds(s, c)
    BY <1>2 DEF ToolIds
  <2>4. \A x, y \in t.entries[c] : x.id = y.id => x = y
    BY <1>2, <2>1 DEF Partition
  <2>5. t.entries[c] # {} => t.interactions = c
    BY <1>2, <2>1 DEF Partition
  <2> QED BY <1>2, <2>1, <2>2, <2>3, <2>4, <2>5 DEF Partition
<1>5. /\ r \in Sessions /\ ~r.stray
      /\ r.interactions = t.interactions /\ r.entries = t.entries /\ r.calls = t.calls
      /\ \A d \in Children : d # c => r.owed[d] = t.owed[d]
      /\ link[c] = "open" => Partition(r, c, held)
  <2>1. q.id \notin held \/ link[c] # "open"
    BY <1>4
  <2>2. CASE link[c] # "open"
    <3>1. r = [t EXCEPT !.thrown = TRUE]
      BY <1>3, <2>2 DEF Reply
    <3> QED BY <1>2, <2>2, <3>1 DEF Sessions
  <2>3. CASE link[c] = "open"
    BY <1>1, <1>2, <1>3, <1>4, <2>3, ReplyAnswers
  <2> QED BY <2>2, <2>3
<1>6. \A d \in Children : ToolIds(r, d) = ToolIds(s, d)
  BY <1>2, <1>5 DEF ToolIds
<1> QED BY <1>2, <1>5, <1>6 DEF Framed, SameBooks, r

\* A registry that closes answers what it shows, if that still works.
LEMMA ShutAnswers ==
  ASSUME NEW s \in Sessions, NEW c \in 0..MaxChildren, ~s.stray,
         c \in Up => ShownIds(s, c) \subseteq s.owed[c]
  PROVE  LET r == Shut(s, c) IN
           /\ Framed(s, r, c) /\ r.roots = s.roots /\ r.active = s.active
           /\ c \in Children => r.entries[c] = {} /\ ToolIds(r, c) = ToolIds(s, c)
           /\ c \in Children /\ link[c] # "open" => r.owed[c] = s.owed[c]
<1> DEFINE r == Shut(s, c)
<1>1. CASE c = None
  BY <1>1, ChildrenFacts DEF Shut, Framed, SameBooks
<1>2. CASE c \in Children /\ link[c] # "open"
  <2>1. r = [s EXCEPT !.entries[c] = {}, !.thrown = FALSE]
    BY <1>2, ChildrenFacts DEF Shut
  <2> HIDE DEF r
  <2>2. /\ r \in Sessions /\ r.stray = s.stray /\ r.interactions = s.interactions
        /\ r.roots = s.roots /\ r.active = s.active
        /\ r.calls = s.calls /\ r.owed = s.owed /\ r.entries[c] = {}
        /\ \A d \in Children : d # c => r.entries[d] = s.entries[d]
    BY <1>2, <2>1 DEF Sessions
  <2> QED BY <1>2, <2>2 DEF Framed, SameBooks, ToolIds, r
<1>3. CASE c \in Children /\ link[c] = "open"
  <2> DEFINE ids == ShownIds(s, c)
             refused == [s EXCEPT !.entries[c] = {}, !.thrown = FALSE]
  <2>0. ids \subseteq s.owed[c]
    BY <1>3 DEF Up
  <2>1. r = [refused EXCEPT !.owed[c] = @ \ ids, !.stray = @ \/ ~(ids \subseteq s.owed[c])]
    BY <1>3, ChildrenFacts DEF Shut, ShownIds
  <2>2. /\ refused \in Sessions /\ refused.stray = s.stray /\ refused.interactions = s.interactions
        /\ refused.roots = s.roots /\ refused.active = s.active
        /\ refused.calls = s.calls /\ refused.owed = s.owed /\ refused.entries[c] = {}
        /\ \A d \in Children : d # c => refused.entries[d] = s.entries[d]
    BY <1>3 DEF Sessions
  <2> HIDE DEF r, refused
  <2>3. [refused EXCEPT !.owed[c] = @ \ ids, !.stray = @ \/ ~(ids \subseteq s.owed[c])]
          = [refused EXCEPT !.owed[c] = @ \ ids, !.stray = FALSE]
    BY <2>0, <2>2
  <2> HIDE DEF ids
  <2>4. /\ r \in Sessions /\ ~r.stray /\ r.interactions = s.interactions
        /\ r.roots = s.roots /\ r.active = s.active
        /\ r.calls = s.calls /\ r.entries[c] = {}
        /\ \A d \in Children : d # c => r.entries[d] = s.entries[d] /\ r.owed[d] = s.owed[d]
    BY <1>3, <2>1, <2>2, <2>3 DEF Sessions
  <2> QED BY <1>3, <2>4 DEF Framed, SameBooks, ToolIds, r
<1> QED BY <1>1, <1>2, <1>3, ChildrenFacts

LEMMA ClearedAnswers ==
  ASSUME NEW s \in Sessions, ~s.stray,
         s.interactions \in Up => ShownIds(s, s.interactions) \subseteq s.owed[s.interactions]
  PROVE  LET r == Cleared(s) IN
           /\ r \in Sessions /\ ~r.stray /\ r.interactions = None /\ r.roots = {}
           /\ r.active = [t \in Threads |-> 0]
           /\ \A d \in Children : Untouched(s, d) => Untouched(r, d)
           /\ \A d \in Children : link[d] # "open" => r.owed[d] = s.owed[d]
<1> DEFINE i == s.interactions
           t == Shut(s, i)
           r == Cleared(s)
<1>1. i \in 0..MaxChildren
  BY DEF Sessions
<1>2. /\ Framed(s, t, i)
      /\ i \in Children => t.entries[i] = {} /\ ToolIds(t, i) = ToolIds(s, i)
      /\ i \in Children /\ link[i] # "open" => t.owed[i] = s.owed[i]
  BY <1>1, ShutAnswers
<1>3. r = [t EXCEPT !.interactions = None, !.roots = {}, !.archived = {},
                    !.active = [x \in Threads |-> 0]]
  BY DEF Cleared
<1> HIDE DEF t, r
<1>4. /\ r \in Sessions /\ r.stray = t.stray /\ r.interactions = None /\ r.roots = {}
      /\ r.active = [x \in Threads |-> 0]
      /\ r.entries = t.entries /\ r.owed = t.owed /\ r.calls = t.calls
  BY <1>2, <1>3, ChildrenFacts DEF Sessions, Framed
<1>5. ASSUME NEW d \in Children PROVE Untouched(s, d) => Untouched(r, d)
  <2>1. ToolIds(r, d) = ToolIds(t, d) /\ None # d
    BY <1>4, ChildrenFacts DEF ToolIds
  <2>2. ToolIds(t, d) = ToolIds(s, d)
    BY <1>2 DEF Framed, SameBooks
  <2>3. t.entries[d] = s.entries[d] \/ t.entries[d] = {}
    BY <1>2 DEF Framed, SameBooks
  <2> QED BY <1>4, <2>1, <2>2, <2>3 DEF Untouched
<1>6. ASSUME NEW d \in Children, link[d] # "open" PROVE r.owed[d] = s.owed[d]
  BY <1>2, <1>4, <1>6 DEF Framed, SameBooks
<1> QED BY <1>2, <1>4, <1>5, <1>6 DEF Framed, r

-----------------------------------------------------------------------------
(* The replay of what was deferred, by induction: the least number of       *)
(* frames after which something does not hold is no number.                *)

LEMMA LeastNat ==
  ASSUME NEW T \in SUBSET Nat, T # {}
  PROVE  \E x \in T : \A y \in T : x <= y
<1>1. PICK x \in T : \A y \in T : <<y, x>> \notin OpToRel(<, Nat)
  BY NatLessThanWellFounded, WFMin
<1>2. \A y \in T : x \in Nat /\ y \in Nat
  OBVIOUS
<1>3. \A y \in T : ~(y < x)
  BY <1>1, <1>2 DEF OpToRel
<1> QED BY <1>2, <1>3

\* The states the replay goes through exist, whatever the frames do.
Replays(s, c, n, g) ==
  g = [k \in 0..n |-> IF k = 0 THEN s
                      ELSE IF g[k-1].thrown THEN g[k-1]
                      ELSE Handle(g[k-1], c, deferred[k])]

LEMMA ReplayExists ==
  ASSUME NEW s, NEW c, NEW n \in Nat
  PROVE  \E g : Replays(s, c, n, g)
<1> DEFINE T == {m \in Nat : ~\E g : Replays(s, c, m, g)}
<1> SUFFICES ASSUME T # {} PROVE FALSE
  OBVIOUS
<1>1. PICK m \in T : \A y \in T : m <= y
  BY LeastNat
<1>2. m \in Nat
  OBVIOUS
<1>3. m # 0
  <2>1. ASSUME m = 0 PROVE FALSE
    <3> DEFINE g == [k \in 0..m |-> s]
    <3>1. Replays(s, c, m, g)
      BY <2>1 DEF Replays
    <3> HIDE DEF g
    <3> QED BY <3>1
  <2> QED BY <2>1
<1>4. m-1 \in Nat /\ m-1 \notin T
  BY <1>1, <1>2, <1>3
<1>5. PICK h : Replays(s, c, m-1, h)
  BY <1>4
<1> DEFINE step == IF h[m-1].thrown THEN h[m-1] ELSE Handle(h[m-1], c, deferred[m])
           g == [k \in 0..m |-> IF k = m THEN step ELSE h[k]]
<1>6. /\ h[0] = s
      /\ \A k \in 1..m-1 : h[k] = IF h[k-1].thrown THEN h[k-1] ELSE Handle(h[k-1], c, deferred[k])
  <2>1. h = [k \in 0..m-1 |-> IF k = 0 THEN s
                              ELSE IF h[k-1].thrown THEN h[k-1]
                              ELSE Handle(h[k-1], c, deferred[k])]
    BY <1>5 DEF Replays
  <2>2. 0 \in 0..m-1 /\ \A k \in 1..m-1 : k \in 0..m-1 /\ k # 0
    BY <1>2, <1>3
  <2> QED BY <2>1, <2>2
<1>7. /\ g[m] = step
      /\ \A k \in 0..m-1 : g[k] = h[k]
      /\ DOMAIN g = 0..m /\ g = [k \in 0..m |-> g[k]]
  BY <1>2, <1>3
<1> HIDE DEF step, g
<1>8. \A k \in 0..m : g[k] = IF k = 0 THEN s
                             ELSE IF g[k-1].thrown THEN g[k-1] ELSE Handle(g[k-1], c, deferred[k])
  <2> SUFFICES ASSUME NEW k \in 0..m
               PROVE  g[k] = IF k = 0 THEN s
                             ELSE IF g[k-1].thrown THEN g[k-1] ELSE Handle(g[k-1], c, deferred[k])
    OBVIOUS
  <2>1. CASE k = 0
    <3>1. 0 \in 0..m-1
      BY <1>2, <1>3
    <3> QED BY <1>6, <1>7, <2>1, <3>1
  <2>2. CASE k = m
    <3>1. m-1 \in 0..m-1
      BY <1>2, <1>3
    <3>2. g[m-1] = h[m-1]
      BY <1>7, <3>1
    <3> QED BY <1>3, <1>7, <2>2, <3>2 DEF step
  <2>3. CASE k \in 1..m-1
    <3>1. k-1 \in 0..m-1 /\ k \in 0..m-1 /\ k # 0
      BY <1>2, <2>3
    <3>2. g[k-1] = h[k-1] /\ g[k] = h[k]
      BY <1>7, <3>1
    <3> QED BY <1>6, <2>3, <3>1, <3>2
  <2> QED BY <1>2, <2>1, <2>2, <2>3
<1>9. Replays(s, c, m, g)
  <2>1. g = [k \in 0..m |-> IF k = 0 THEN s
                            ELSE IF g[k-1].thrown THEN g[k-1] ELSE Handle(g[k-1], c, deferred[k])]
    BY <1>7, <1>8
  <2> QED BY <2>1 DEF Replays
<1> QED BY <1>9

LEMMA ReplaySteps ==
  ASSUME NEW s, NEW c, deferred \in Seq(Frames)
  PROVE  \E g : /\ g[0] = s /\ ReplayDeferred(s, c) = g[Len(deferred)]
                /\ \A k \in 1..Len(deferred) :
                      g[k] = IF g[k-1].thrown THEN g[k-1] ELSE Handle(g[k-1], c, deferred[k])
<1> DEFINE n == Len(deferred)
           g == CHOOSE h : h = [k \in 0..n |-> IF k = 0 THEN s
                                 ELSE IF h[k-1].thrown THEN h[k-1] ELSE Handle(h[k-1], c, deferred[k])]
<1>1. n \in Nat
  OBVIOUS
<1>2. ReplayDeferred(s, c) = g[n]
  BY DEF ReplayDeferred
<1>3. \E h : h = [k \in 0..n |-> IF k = 0 THEN s
                                 ELSE IF h[k-1].thrown THEN h[k-1] ELSE Handle(h[k-1], c, deferred[k])]
  <2> HIDE DEF n
  <2>1. \E h : Replays(s, c, n, h)
    BY <1>1, ReplayExists
  <2> QED BY <2>1, Zenon DEF Replays
<1>4. g = [k \in 0..n |-> IF k = 0 THEN s
                          ELSE IF g[k-1].thrown THEN g[k-1] ELSE Handle(g[k-1], c, deferred[k])]
  <2> HIDE DEF n
  <2> QED BY <1>3, Zenon
<1> HIDE DEF g, n
<1>5. g[0] = s
  <2>1. 0 \in 0..n
    BY <1>1
  <2> QED BY <1>4, <2>1
<1>6. \A k \in 1..n : g[k] = IF g[k-1].thrown THEN g[k-1] ELSE Handle(g[k-1], c, deferred[k])
  <2>1. \A k \in 1..n : k \in 0..n /\ k # 0
    BY <1>1
  <2> QED BY <1>4, <2>1
<1> QED BY <1>2, <1>5, <1>6 DEF n

LEMMA DeferredFacts ==
  ASSUME deferred \in Seq(Frames), Distinct, NEW k \in 1..Len(deferred)
  PROVE  /\ DeferredIds(k) \in SUBSET RpcIds
         /\ deferred[k] \in ChildRequests \/ deferred[k] \in Notifications
         /\ deferred[k] \in ChildRequests =>
              /\ DeferredIds(k-1) = DeferredIds(k) \cup {deferred[k].id}
              /\ deferred[k].id \notin DeferredIds(k)
         /\ deferred[k] \in Notifications => DeferredIds(k-1) = DeferredIds(k)
<1> DEFINE n == Len(deferred)
<1>1. n \in Nat /\ \A j \in 1..n : deferred[j] \in Frames
  OBVIOUS
<1>2. \A e \in Frames : (e \in ChildRequests <=> IsRequest(e)) /\ (e \in Notifications <=> ~IsRequest(e))
  BY DEF Frames, ChildRequests, Notifications, IsRequest
<1>3. \A e \in Frames : IsRequest(e) => e.id \in RpcIds
  <2>1. \A e \in ChildRequests : e.id \in RpcIds
    BY DEF ChildRequests
  <2> QED BY <1>2, <2>1
<1>4. deferred[k] \in Frames /\ k \in 1..n
  BY <1>1
<1>5. \A j \in k+1..n : j \in 1..n /\ j # k
  BY <1>1
<1>6. \A j \in k-1+1..n : j = k \/ j \in k+1..n
  BY <1>1
<1>7. k \in k-1+1..n /\ k+1..n \subseteq k-1+1..n
  BY <1>1
<1>8. DeferredIds(k) \in SUBSET RpcIds
  BY <1>1, <1>3, <1>5 DEF DeferredIds
<1>9. IsRequest(deferred[k]) => /\ DeferredIds(k-1) = DeferredIds(k) \cup {deferred[k].id}
                                /\ deferred[k].id \notin DeferredIds(k)
  <2> SUFFICES ASSUME IsRequest(deferred[k])
               PROVE  /\ DeferredIds(k-1) = DeferredIds(k) \cup {deferred[k].id}
                      /\ deferred[k].id \notin DeferredIds(k)
    OBVIOUS
  <2>1. DeferredIds(k-1) = DeferredIds(k) \cup {deferred[k].id}
    BY <1>6, <1>7 DEF DeferredIds
  <2>2. deferred[k].id \notin DeferredIds(k)
    BY <1>4, <1>5 DEF DeferredIds, Distinct
  <2> QED BY <2>1, <2>2
<1>10. ~IsRequest(deferred[k]) => DeferredIds(k-1) = DeferredIds(k)
  BY <1>6, <1>7 DEF DeferredIds
<1> QED BY <1>2, <1>4, <1>8, <1>9, <1>10 DEF Frames

LEMMA ReplayAnswers ==
  ASSUME NEW s \in Sessions, NEW c \in Children, deferred \in Seq(Frames), Distinct,
         s.interactions = c, ~s.stray,
         link[c] = "open" => Partition(s, c, DeferredIds(0))
  PROVE  LET r == ReplayDeferred(s, c) IN
           /\ Framed(s, r, c)
           /\ link[c] = "open" /\ ~r.thrown => Partition(r, c, {})
           /\ link[c] = "open" => ShownIds(r, c) \subseteq r.owed[c]
<1> DEFINE n == Len(deferred)
<1>1. PICK g : /\ g[0] = s /\ ReplayDeferred(s, c) = g[n]
               /\ \A k \in 1..n : g[k] = IF g[k-1].thrown THEN g[k-1] ELSE Handle(g[k-1], c, deferred[k])
  BY ReplaySteps
<1> DEFINE Good(k) == /\ Framed(s, g[k], c)
                      /\ link[c] = "open" /\ ~g[k].thrown => Partition(g[k], c, DeferredIds(k))
                      /\ link[c] = "open" => ShownIds(g[k], c) \subseteq g[k].owed[c]
           T == {k \in 0..n : ~Good(k)}
<1>2. n \in Nat
  OBVIOUS
<1>3. ASSUME T # {} PROVE FALSE
  <2>1. T \in SUBSET Nat
    BY <1>2
  <2>2. PICK k \in T : \A y \in T : k <= y
    BY <1>3, <2>1, LeastNat
  <2>3. k # 0
    BY <1>1, <2>2 DEF Framed, SameBooks, Partition
  <2>4. k \in 1..n /\ k-1 \in 0..n /\ k-1 \notin T
    BY <1>2, <2>2, <2>3
  <2>5. Good(k-1)
    BY <2>4
  <2> DEFINE p == g[k-1]
             r == g[k]
             e == deferred[k]
  <2>6. r = IF p.thrown THEN p ELSE Handle(p, c, e)
    BY <1>1, <2>4
  <2>7. p \in Sessions /\ ~p.stray /\ p.interactions = c
    BY <2>5 DEF Framed
  <2>8. CASE p.thrown
    BY <2>2, <2>5, <2>6, <2>8
  <2>9. CASE ~p.thrown
    <3>1. r = Handle(p, c, e) /\ (link[c] = "open" => Partition(p, c, DeferredIds(k-1)))
      BY <2>5, <2>6, <2>9
    <3>2. /\ DeferredIds(k) \in SUBSET RpcIds
          /\ e \in ChildRequests \/ e \in Notifications
          /\ e \in ChildRequests =>
                 DeferredIds(k-1) = DeferredIds(k) \cup {e.id} /\ e.id \notin DeferredIds(k)
          /\ e \in Notifications => DeferredIds(k-1) = DeferredIds(k)
      BY <2>4, DeferredFacts
    <3>3. Framed(p, r, c) /\ (link[c] = "open" => Partition(r, c, DeferredIds(k)))
      <4> HIDE DEF p, r, e, Good, T
      <4>1. CASE e \in ChildRequests
        BY <2>7, <3>1, <3>2, <4>1, RequestHandled
      <4>2. CASE e \in Notifications
        BY <2>7, <3>1, <3>2, <4>2, NotificationHandled
      <4> QED BY <3>2, <4>1, <4>2
    <3>4. Framed(s, r, c)
      BY <2>5, <3>3 DEF Framed, SameBooks
    <3>5. link[c] = "open" => ShownIds(r, c) \subseteq r.owed[c]
      BY <3>3 DEF Partition
    <3> QED BY <2>2, <3>3, <3>4, <3>5
  <2> QED BY <2>8, <2>9
<1>4. Good(n)
  BY <1>2, <1>3
<1>5. DeferredIds(n) = {}
  BY <1>2 DEF DeferredIds
<1> QED BY <1>1, <1>4, <1>5

-----------------------------------------------------------------------------
(* Steps that leave the connection as it is. *)

\* Nothing of what is asked and answered differs.
Alike(s, r) ==
  /\ r \in Sessions /\ r.stray = s.stray /\ r.interactions = s.interactions
  /\ r.entries = s.entries /\ r.owed = s.owed /\ r.calls = s.calls

LEMMA AlikeObserved ==
  ASSUME NEW s \in Sessions, NEW items, items \subseteq Items
  PROVE  Alike(s, ObservedAll(s, items))
<1> DEFINE more == {i.thread : i \in {j \in items : j.thread \notin s.archived /\ IsRoot(s, j.thread, j.source)}}
           r == [s EXCEPT !.roots = @ \cup more]
<1>1. more \subseteq Threads
  <2>1. \A i \in Items : i.thread \in Threads
    BY DEF Items, Threads
  <2> QED BY <2>1
<1>2. ObservedAll(s, items) = r
  BY DEF ObservedAll
<1> HIDE DEF more
<1>3. Alike(s, r)
  BY <1>1 DEF Alike, Sessions
<1> QED BY <1>2, <1>3

LEMMA AlikeOne ==
  ASSUME NEW s \in Sessions, NEW t \in Threads, NEW source
  PROVE  Alike(s, Observed(s, t, source))
<1> DEFINE more == {i.thread : i \in {j \in {[thread |-> t, source |-> source]} :
                                         j.thread \notin s.archived /\ IsRoot(s, j.thread, j.source)}}
           r == [s EXCEPT !.roots = @ \cup more]
<1>1. more \subseteq Threads
  OBVIOUS
<1>2. Observed(s, t, source) = r
  BY DEF Observed, ObservedAll
<1> HIDE DEF more
<1>3. Alike(s, r)
  BY <1>1 DEF Alike, Sessions
<1> QED BY <1>2, <1>3

LEMMA AlikeSynced ==
  ASSUME NEW s \in Sessions, NEW t, NEW turn \in Nat, NEW status
  PROVE  Alike(s, Synced(s, t, turn, status))
<1>1. CASE t \notin s.roots
  BY <1>1 DEF Synced, Alike
<1>2. CASE t \in s.roots
  <2>1. t \in Threads
    BY <1>2 DEF Sessions
  <2>2. \A v \in Nat : Alike(s, [s EXCEPT !.active[t] = v])
    BY <2>1 DEF Alike, Sessions
  <2>3. Alike(s, s)
    BY DEF Alike
  <2> QED BY <2>2, <2>3 DEF Synced
<1> QED BY <1>1, <1>2

LEMMA AlikeTrans ==
  ASSUME NEW s, NEW r, NEW p, Alike(s, r), Alike(r, p)
  PROVE  Alike(s, p)
BY DEF Alike

LEMMA AlikeKeeps ==
  ASSUME NEW s \in Sessions, NEW r, Alike(s, r)
  PROVE  /\ \A c, held : Partition(s, c, held) <=> Partition(r, c, held)
         /\ \A c : Untouched(s, c) <=> Untouched(r, c)
         /\ \A c : ShownIds(s, c) = ShownIds(r, c)
BY DEF Alike, Partition, Untouched, ToolIds, ShownIds

\* One app-server is connected at most; none besides the one being opened.
LEMMA OneUp ==
  ASSUME SessionInv
  PROVE  /\ \A c, d \in Up : c = d
         /\ opening # NoOpening => Up \subseteq {opening.child}
         /\ \A c \in Up : opening # NoOpening => opening.stage \in Waiting
         /\ \A c \in Up : Healthy <=> opening = NoOpening
<1>1. \A c \in Up : c = clients.client => Healthy
  BY ChildrenFacts DEF Up, Healthy
<1>2. \A c \in Up : c = clients.client \/ (c = opening.child /\ opening.stage \in Waiting)
  BY DEF SessionInv, ChildrenFit, Up
<1>3. opening # NoOpening => ~Healthy
  BY DEF SessionInv, OpeningFits
<1>4. \A c \in Up : opening = NoOpening => c = clients.client
  BY <1>2 DEF NoOpening, Waiting
<1> QED BY <1>1, <1>2, <1>3, <1>4

\* What a connected app-server has asked is held where it should be.
LEMMA UpFacts ==
  ASSUME SessionInv
  PROVE  /\ session \in Sessions /\ ~session.stray
         /\ deferred \in Seq(Frames) /\ Distinct
         /\ \A c \in Children : link[c] = "open" =>
               Partition(session, c, IF c = opening.child THEN DeferredIds(0) ELSE {})
         /\ \A c \in Up : ShownIds(session, c) \subseteq session.owed[c]
         /\ DeferredIds(0) \in SUBSET RpcIds
         /\ opening.stage \notin Waiting => DeferredIds(0) = {}
<1>1. /\ session \in Sessions /\ ~session.stray /\ deferred \in Seq(Frames) /\ Distinct
      /\ \A c \in Up : Partition(session, c, HeldBy(opening.child, DeferredIds(0))[c])
  BY DEF SessionInv, SessionTyped, Accounts
<1>2. \A c \in Up : HeldBy(opening.child, DeferredIds(0))[c] = IF c = opening.child THEN DeferredIds(0) ELSE {}
  BY DEF HeldBy, Up
<1>3. \A c \in Up : Partition(session, c, IF c = opening.child THEN DeferredIds(0) ELSE {})
  BY <1>1, <1>2
<1>4. \A c \in Up : ShownIds(session, c) \subseteq session.owed[c]
  BY <1>3 DEF Partition
<1>5. DeferredIds(0) \in SUBSET RpcIds
  <2>1. \A e \in Frames : IsRequest(e) => e.id \in RpcIds
    BY DEF Frames, ChildRequests, Notifications, IsRequest
  <2>2. \A i \in 0+1..Len(deferred) : deferred[i] \in Frames
    BY <1>1
  <2> QED BY <2>1, <2>2 DEF DeferredIds
<1>6. ASSUME opening.stage \notin Waiting PROVE DeferredIds(0) = {}
  <2>1. deferred = <<>>
    BY <1>6 DEF SessionInv, OpeningFits
  <2>2. 0+1..Len(deferred) = {}
    BY <2>1
  <2> QED BY <2>2 DEF DeferredIds
<1>7. \A c \in Children : link[c] = "open" => c \in Up
  BY DEF Up
<1> QED BY <1>1, <1>3, <1>4, <1>5, <1>6, <1>7

\* A step of the connected app-server's books only.
LEMMA BooksMove ==
  ASSUME SessionInv, UNCHANGED <<child, link, clients, opening, deferred, closing>>,
         NEW c \in Children, Framed(session, session', c), link[c] # "none",
         link[c] = "open" => Partition(session', c, IF c = opening.child THEN DeferredIds(0) ELSE {}),
         Untouched(session, c) => Untouched(session', c)
  PROVE  SessionInv'
<1>1. session' \in Sessions /\ ~session'.stray /\ session'.interactions = session.interactions
  BY DEF Framed
<1>2. SessionTyped'
  BY <1>1 DEF SessionInv, SessionTyped
<1>3. \A d \in Children : Untouched(session, d) => Untouched(session', d)
  BY <1>1 DEF Framed, SameBooks, Untouched
<1>4. OpeningFits'
  BY <1>3 DEF SessionInv, OpeningFits, Healthy, NoOpening, Waiting
<1>5. ChildrenFit'
  <2>1. \A d \in Children : link[d] = "none" => session'.owed[d] = session.owed[d]
    BY DEF Framed, SameBooks
  <2> QED BY <1>3, <2>1 DEF SessionInv, ChildrenFit, Waiting
<1>6. ClientsFit'
  BY <1>1 DEF SessionInv, ClientsFit, Healthy, NoOpening
<1>7. Distinct' /\ DeferredIds(0)' = DeferredIds(0) /\ Up' = Up
  BY DEF SessionInv, Distinct, DeferredIds, Up
<1>8. \A d \in Up : Partition(session', d, HeldBy(opening.child, DeferredIds(0))[d])
  <2> SUFFICES ASSUME NEW d \in Up
               PROVE  Partition(session', d, HeldBy(opening.child, DeferredIds(0))[d])
    OBVIOUS
  <2>1. d \in Children /\ link[d] = "open"
    BY DEF Up
  <2>2. HeldBy(opening.child, DeferredIds(0))[d] = IF d = opening.child THEN DeferredIds(0) ELSE {}
    BY <2>1 DEF HeldBy
  <2>3. CASE d = c
    BY <2>1, <2>2, <2>3
  <2>4. CASE d # c
    <3>1. SameBooks(session, session', d)
      BY <2>1, <2>4 DEF Framed
    <3>2. Partition(session, d, IF d = opening.child THEN DeferredIds(0) ELSE {})
      BY <2>1, UpFacts
    <3> QED BY <1>1, <2>2, <3>1, <3>2, PartitionKept
  <2> QED BY <2>3, <2>4
<1>9. Accounts(session, HeldBy(opening.child, DeferredIds(0)), Up)'
  BY <1>1, <1>7, <1>8 DEF Accounts
<1> QED BY <1>2, <1>4, <1>5, <1>6, <1>7, <1>9 DEF SessionInv

\* A step of the opening that answers nothing.
LEMMA OpeningMoves ==
  ASSUME SessionInv, UNCHANGED <<child, link, clients, deferred, closing>>,
         Alike(session, session'), opening.stage \in Waiting, opening'.stage \in Waiting,
         opening' \in Brief \cup Listing, opening'.child = opening.child,
         opening'.stage = "read" => opening'.thread \in Threads
  PROVE  SessionInv'
<1>1. opening # NoOpening /\ opening' # NoOpening
  BY DEF Waiting, NoOpening
<1>2. session' \in Sessions /\ ~session'.stray /\ session'.interactions = session.interactions
  BY UpFacts DEF Alike
<1>3. /\ \A c, held : Partition(session, c, held) <=> Partition(session', c, held)
      /\ \A c : Untouched(session, c) <=> Untouched(session', c)
      /\ session'.owed = session.owed
  BY UpFacts, AlikeKeeps DEF Alike
<1>4. SessionTyped'
  BY <1>2 DEF SessionInv, SessionTyped
<1>5. OpeningFits'
  BY <1>1, <1>3 DEF SessionInv, OpeningFits, Healthy, NoOpening, Waiting
<1>6. ChildrenFit'
  BY <1>3 DEF SessionInv, ChildrenFit, Waiting
<1>7. ClientsFit'
  BY <1>1, <1>2 DEF SessionInv, ClientsFit, Healthy, NoOpening
<1>8. Distinct' /\ DeferredIds(0)' = DeferredIds(0) /\ Up' = Up
  BY DEF SessionInv, Distinct, DeferredIds, Up
<1>9. Accounts(session, HeldBy(opening.child, DeferredIds(0)), Up)'
  BY <1>2, <1>3, <1>8 DEF SessionInv, Accounts, HeldBy
<1> QED BY <1>4, <1>5, <1>6, <1>7, <1>8, <1>9 DEF SessionInv

-----------------------------------------------------------------------------
(* A client that fails, or is closed: then no app-server is connected. *)

LEMMA NoneUp ==
  ASSUME SessionInv, NEW c \in Children, closing # "done",
         closing' = closing \/ (closing' = "begun" /\ clients'.client = None),
         session' \in Sessions, ~session'.stray,
         session'.interactions \in {None, clients'.client},
         \A d \in Children : Untouched(session, d) /\ (link[d] = "none" \/ opening'.stage # "closing")
                               => Untouched(session', d),
         \A d \in Children : link[d] = "none" => session'.owed[d] = session.owed[d],
         link' \in [Children -> {"none", "open", "failed", "closed"}],
         \A d \in Children : link'[d] # "open" /\ (link'[d] = "none" <=> link[d] = "none"),
         clients' \in [client : 0..MaxChildren, openingClient : 0..MaxChildren],
         clients'.client \in {None, clients.client},
         clients'.openingClient \in {None, clients.openingClient},
         child' = child \/ (child' = [child EXCEPT ![c] = "ended"] /\ link[c] # "none"),
         \/ (opening' = opening \/ opening' = Rejected(c)) /\ deferred' = deferred
         \/ /\ opening' = [stage |-> "closing", child |-> c, resume |-> "no"] /\ deferred' = <<>>
            /\ c = opening.child /\ opening.stage \in Waiting
            /\ child' = child /\ clients'.openingClient = None
  PROVE  SessionInv'
<1>1. /\ link' \in [Children -> {"none", "open", "failed", "closed"}]
      /\ \A d \in Children : link'[d] # "open" /\ (link'[d] = "none" <=> link[d] = "none")
  OBVIOUS
<1>2. /\ child' \in [Children -> {"none", "spawning", "running", "ended"}]
      /\ \A d \in Children : child'[d] = child[d] \/ (d = c /\ child'[d] = "ended" /\ link[c] # "none")
  BY DEF SessionInv, SessionTyped
<1>3. /\ Rejected(c) \in Brief \cup Listing
      /\ Rejected(c).stage = opening.stage /\ Rejected(c).child = opening.child
      /\ opening.stage = "read" => Rejected(c).thread = opening.thread
      /\ Rejected(c) = opening \/ opening.stage \in Waiting
  <2>1. opening \in Brief \cup Listing
    BY DEF SessionInv, SessionTyped
  <2>2. ASSUME opening \in Brief
        PROVE  [opening EXCEPT !.resume = "error"] \in Brief
    BY <2>2 DEF Brief, Resumes
  <2>3. ASSUME opening \in Listing
        PROVE  [opening EXCEPT !.resume = "error"] \in Listing
    BY <2>3 DEF Listing, Resumes
  <2>4. /\ [opening EXCEPT !.resume = "error"].stage = opening.stage
        /\ [opening EXCEPT !.resume = "error"].child = opening.child
        /\ opening.stage = "read" => [opening EXCEPT !.resume = "error"].thread = opening.thread
    BY <2>1 DEF Brief, Listing
  <2> QED BY <2>1, <2>2, <2>3, <2>4 DEF Rejected
<1>4. Up' = {} /\ ~Healthy'
  <2>1. clients'.client \in Children \cup {None}
    BY ChildrenFacts
  <2> QED BY <1>1, <2>1 DEF Up, Healthy
<1>5. [stage |-> "closing", child |-> c, resume |-> "no"] \in Brief /\ c # None
  BY ChildrenFacts DEF Brief, Resumes
<1>6. SessionTyped'
  <2>1. deferred \in Seq(Frames) /\ <<>> \in Seq(Frames) /\ closing \in {"no", "begun", "done"}
    BY DEF SessionInv, SessionTyped
  <2>2. deferred' \in Seq(Frames) /\ opening' \in Brief \cup Listing
    BY <1>3, <1>5, <2>1 DEF SessionInv, SessionTyped
  <2>3. closing' \in {"no", "begun", "done"}
    BY <2>1
  <2> QED BY <1>1, <1>2, <2>1, <2>2, <2>3 DEF SessionTyped
<1>7. CASE (opening' = opening \/ opening' = Rejected(c)) /\ deferred' = deferred
  <2>1. /\ opening'.stage = opening.stage /\ opening'.child = opening.child
        /\ opening' = opening \/ opening.stage \in Waiting
    BY <1>3, <1>7
  <2>2. NoOpening.stage \notin Waiting
    BY DEF NoOpening, Waiting
  <2>3. opening' = NoOpening <=> opening = NoOpening
    BY <2>1, <2>2
  <2>4. OpeningFits'
    <3>1. opening.stage \in Waiting => Untouched(session', opening.child)
      <4>1. opening.stage \in Waiting => opening.child \in Children
        BY <2>2 DEF SessionInv, OpeningFits
      <4>2. opening.stage \in Waiting => opening'.stage # "closing"
        BY <2>1 DEF Waiting
      <4> QED BY <4>1, <4>2 DEF SessionInv, OpeningFits
    <3>2. opening'.stage = "idle" => opening' = NoOpening
      BY <2>1, <2>3 DEF SessionInv, OpeningFits
    <3>3. opening' # NoOpening => opening'.child \in Children /\ ~Healthy'
      BY <1>4, <2>1, <2>3 DEF SessionInv, OpeningFits
    <3>4. opening'.stage \notin Waiting =>
            opening'.resume = "no" /\ deferred' = <<>> /\ clients'.openingClient = None
      BY <1>7, <2>1 DEF SessionInv, OpeningFits
    <3>5. opening'.stage \in Waiting =>
            link'[opening'.child] # "none" /\ opening'.child # clients'.client
      <4>1. opening.stage \in Waiting =>
              /\ opening.child \in Children /\ link[opening.child] # "none"
              /\ opening.child # clients.client
        BY <2>2 DEF SessionInv, OpeningFits
      <4> QED BY <1>1, <2>1, <4>1, ChildrenFacts
    <3>6. clients'.openingClient \in {None, opening'.child}
      BY <2>1 DEF SessionInv, OpeningFits
    <3>7. opening'.stage \in Waiting => link'[opening'.child] # "open"
      BY <1>1, <2>1, <2>2 DEF SessionInv, OpeningFits
    <3>8. opening'.stage = "spawning" => child'[opening'.child] = "spawning"
      <4>1. opening.stage = "spawning" =>
              /\ opening.child \in Children /\ child[opening.child] = "spawning"
              /\ opening # NoOpening
        BY DEF SessionInv, OpeningFits, NoOpening
      <4>2. link[c] # "none" => child[c] # "spawning"
        BY DEF SessionInv, ChildrenFit
      <4> QED BY <1>2, <2>1, <4>1, <4>2
    <3>9. opening'.stage = "read" => opening'.thread \in Threads
      BY <1>3, <1>7, <2>1 DEF SessionInv, OpeningFits
    <3> QED BY <2>1, <3>1, <3>2, <3>3, <3>4, <3>5, <3>6, <3>7, <3>8, <3>9 DEF OpeningFits
  <2>5. ChildrenFit'
    <3> SUFFICES ASSUME NEW d \in Children
                 PROVE  /\ child'[d] = "spawning" => opening'.stage = "spawning" /\ opening'.child = d
                        /\ child'[d] \in {"none", "spawning"} => link'[d] = "none"
                        /\ link'[d] = "none" =>
                             /\ child'[d] # "running" /\ d \notin {clients'.client, clients'.openingClient}
                             /\ Untouched(session', d) /\ session'.owed[d] = {}
      BY <1>1 DEF ChildrenFit
    <3>1. /\ child[d] = "spawning" => opening.stage = "spawning" /\ opening.child = d
          /\ child[d] \in {"none", "spawning"} => link[d] = "none"
          /\ link[d] = "none" =>
               /\ child[d] # "running" /\ d \notin {clients.client, clients.openingClient}
               /\ Untouched(session, d) /\ session.owed[d] = {}
      BY DEF SessionInv, ChildrenFit
    <3>2. child'[d] = child[d] \/ (child'[d] = "ended" /\ link[d] # "none")
      BY <1>2
    <3>3. link[d] = "none" => Untouched(session', d) /\ session'.owed[d] = {}
      BY <3>1
    <3>4. link'[d] = "none" <=> link[d] = "none"
      BY <1>1
    <3> QED BY <2>1, <3>1, <3>2, <3>3, <3>4, ChildrenFacts
  <2>6. ClientsFit'
    BY <1>4, ChildrenFacts DEF SessionInv, ClientsFit
  <2>7. Distinct'
    BY <1>7 DEF SessionInv, Distinct
  <2> QED BY <1>4, <1>6, <2>4, <2>5, <2>6, <2>7 DEF SessionInv, Accounts
<1>8. CASE /\ opening' = [stage |-> "closing", child |-> c, resume |-> "no"] /\ deferred' = <<>>
           /\ c = opening.child /\ opening.stage \in Waiting /\ child' = child
           /\ clients'.openingClient = None
  <2>1. opening'.stage = "closing" /\ opening'.child = c /\ opening'.resume = "no" /\ opening' # NoOpening
    BY <1>8 DEF NoOpening
  <2>2. OpeningFits'
    BY <1>4, <1>8, <2>1 DEF OpeningFits, Waiting
  <2>3. ChildrenFit'
    <3> SUFFICES ASSUME NEW d \in Children
                 PROVE  /\ child[d] # "spawning"
                        /\ child[d] = "none" => link'[d] = "none"
                        /\ link'[d] = "none" =>
                             /\ child[d] # "running" /\ d \notin {clients'.client, clients'.openingClient}
                             /\ Untouched(session', d) /\ session'.owed[d] = {}
      BY <1>1, <1>8 DEF ChildrenFit
    <3>1. /\ child[d] # "spawning"
          /\ child[d] = "none" => link[d] = "none"
          /\ link[d] = "none" =>
               /\ child[d] # "running" /\ d \notin {clients.client, clients.openingClient}
               /\ Untouched(session, d) /\ session.owed[d] = {}
      BY <1>8 DEF SessionInv, ChildrenFit, Waiting
    <3>2. link'[d] = "none" <=> link[d] = "none"
      BY <1>1
    <3> QED BY <3>1, <3>2, ChildrenFacts
  <2>4. ClientsFit'
    BY <1>4, ChildrenFacts DEF SessionInv, ClientsFit
  <2>5. Distinct'
    BY <1>8 DEF Distinct
  <2> QED BY <1>4, <1>6, <2>2, <2>3, <2>4, <2>5 DEF SessionInv, Accounts
<1> QED BY <1>7, <1>8

\* HandleFailure forgets the client.
LEMMA ClientDropped ==
  ASSUME SessionInv, NEW c \in Children,
         clients' = [f \in DOMAIN clients |-> IF clients[f] = c THEN None ELSE clients[f]]
  PROVE  /\ clients' \in [client : 0..MaxChildren, openingClient : 0..MaxChildren]
         /\ clients'.client = IF clients.client = c THEN None ELSE clients.client
         /\ clients'.openingClient = IF clients.openingClient = c THEN None ELSE clients.openingClient
<1>1. clients \in [client : 0..MaxChildren, openingClient : 0..MaxChildren]
  BY DEF SessionInv, SessionTyped
<1>2. DOMAIN clients = {"client", "openingClient"}
  BY <1>1
<1> QED BY <1>1, <1>2, ChildrenFacts

LEMMA SignalFails ==
  ASSUME SessionInv, NEW c \in Up, NEW s, Framed(session, s, c),
         Untouched(session, c) => Untouched(s, c),
         SignalFailure(c, s), child' = child \/ child' = [child EXCEPT ![c] = "ended"],
         UNCHANGED <<deferred, closing>>
  PROVE  SessionInv'
<1> DEFINE u == [s EXCEPT !.entries[c] = {}]
           t == Quietly(u)
<1>0. c \in Children /\ link[c] = "open" /\ link[c] # "none" /\ c # None
  BY ChildrenFacts DEF Up
<1>1. s \in Sessions /\ ~s.stray /\ s.interactions = session.interactions
  BY DEF Framed
<1>2. /\ u \in Sessions /\ ~u.stray /\ u.interactions = session.interactions
      /\ u.calls = s.calls /\ u.owed = s.owed /\ u.entries[c] = {}
      /\ \A d \in Children : d # c => u.entries[d] = s.entries[d]
  BY <1>0, <1>1 DEF Sessions
<1>3. \A d \in Children : Untouched(session, d) => Untouched(u, d)
  <2> HIDE DEF u
  <2>1. \A d \in Children : ToolIds(u, d) = ToolIds(s, d)
    BY <1>2 DEF ToolIds
  <2> QED BY <1>1, <1>2, <2>1 DEF Framed, SameBooks, Untouched
<1>4. \A d \in Children : link[d] = "none" => u.owed[d] = session.owed[d]
  BY <1>0, <1>2 DEF Framed, SameBooks
<1> HIDE DEF u
<1>5. /\ t \in Sessions /\ ~t.stray /\ t.interactions = session.interactions
      /\ t.entries = u.entries /\ t.owed = u.owed
      /\ \A d \in Children : Untouched(session, d) => Untouched(t, d)
  BY <1>2, <1>3, QuietlyKeeps
<1>6. /\ link' = [link EXCEPT ![c] = "failed"] /\ opening' = Rejected(c)
      /\ session' = IF c \in {clients.client, clients.openingClient} THEN Cleared(t) ELSE t
      /\ clients' = [f \in DOMAIN clients |-> IF clients[f] = c THEN None ELSE clients[f]]
  BY DEF SignalFailure, HandleFailure, u
<1>7. c \in {clients.client, clients.openingClient}
  BY <1>0 DEF SessionInv, ChildrenFit, OpeningFits
<1>8. Up \subseteq {c}
  BY OneUp
<1> HIDE DEF t
<1>9. t.interactions \in Up => ShownIds(t, t.interactions) \subseteq t.owed[t.interactions]
  BY <1>2, <1>5, <1>8 DEF ShownIds
<1>10. /\ session' \in Sessions /\ ~session'.stray /\ session'.interactions = None
       /\ \A d \in Children : Untouched(session, d) => Untouched(session', d)
       /\ \A d \in Children : link[d] = "none" => session'.owed[d] = session.owed[d]
  <2>1. session' = Cleared(t)
    BY <1>6, <1>7
  <2>2. /\ Cleared(t) \in Sessions /\ ~Cleared(t).stray /\ Cleared(t).interactions = None
        /\ \A d \in Children : Untouched(t, d) => Untouched(Cleared(t), d)
        /\ \A d \in Children : link[d] # "open" => Cleared(t).owed[d] = t.owed[d]
    BY <1>5, <1>9, ClearedAnswers
  <2> QED BY <1>4, <1>5, <2>1, <2>2
<1>11. closing # "done"
  <2>1. c = clients.client \/ opening.stage \in Waiting
    BY <1>0 DEF SessionInv, ChildrenFit
  <2> QED BY <1>0, <2>1 DEF SessionInv, ClientsFit, Waiting, NoOpening
<1>12. /\ clients' \in [client : 0..MaxChildren, openingClient : 0..MaxChildren]
       /\ clients'.client \in {None, clients.client}
       /\ clients'.openingClient \in {None, clients.openingClient}
  BY <1>0, <1>6, ClientDropped
<1>13. /\ link' \in [Children -> {"none", "open", "failed", "closed"}]
       /\ \A d \in Children : link'[d] # "open" /\ (link'[d] = "none" <=> link[d] = "none")
  BY <1>0, <1>6, <1>8 DEF SessionInv, SessionTyped, Up
<1> QED BY <1>0, <1>6, <1>10, <1>11, <1>12, <1>13, NoneUp

LEMMA AbortFits ==
  ASSUME SessionInv, opening.stage \in Waiting, NEW s, Alike(session, s),
         Abort(opening.child, s), UNCHANGED <<child, closing>>
  PROVE  SessionInv'
<1> DEFINE c == opening.child
           q == Quietly(s)
           t == Shut(q, c)
<1>0. /\ c \in Children /\ c # None /\ link[c] # "none" /\ c # clients.client
      /\ opening # NoOpening /\ closing # "done" /\ Up \subseteq {c}
      /\ Untouched(session, c)
      /\ clients.openingClient \in {None, c}
      /\ link[c] = "open" => clients.openingClient = c
  <2>1. opening # NoOpening
    BY DEF Waiting, NoOpening
  <2> QED BY <2>1, ChildrenFacts, OneUp DEF SessionInv, OpeningFits, ClientsFit
<1>1. /\ s \in Sessions /\ ~s.stray /\ s.interactions = session.interactions
      /\ s.owed = session.owed
      /\ \A d \in Children : Untouched(session, d) <=> Untouched(s, d)
  BY UpFacts, AlikeKeeps DEF Alike
<1>2. /\ q \in Sessions /\ ~q.stray /\ q.interactions = session.interactions
      /\ q.owed = session.owed
      /\ \A d \in Children : Untouched(session, d) <=> Untouched(q, d)
  BY <1>1, QuietlyKeeps
<1> HIDE DEF q, c
<1>3. Untouched(q, c)
  BY <1>0, <1>2
<1>4. /\ Framed(q, t, c) /\ t.entries[c] = {} /\ ToolIds(t, c) = ToolIds(q, c)
      /\ link[c] # "open" => t.owed[c] = q.owed[c]
  <2>1. c \in 0..MaxChildren /\ ShownIds(q, c) = {}
    BY <1>0, <1>3, ChildrenFacts DEF Untouched, ShownIds
  <2> QED BY <1>0, <1>2, <2>1, ShutAnswers
<1> HIDE DEF t
<1>5. /\ t \in Sessions /\ ~t.stray /\ t.interactions = session.interactions
      /\ \A d \in Children : Untouched(session, d) => Untouched(t, d)
      /\ \A d \in Children : link[d] # "open" => t.owed[d] = session.owed[d]
  BY <1>2, <1>4 DEF Framed, SameBooks, Untouched
<1>6. /\ link' = [link EXCEPT ![c] = "closed"]
      /\ opening' = [stage |-> "closing", child |-> c, resume |-> "no"] /\ deferred' = <<>>
      /\ session' = IF c \in {clients.client, clients.openingClient} THEN Cleared(t) ELSE t
      /\ clients' = [f \in DOMAIN clients |-> IF clients[f] = c THEN None ELSE clients[f]]
  BY DEF Abort, HandleFailure, c, q, t
<1>7. /\ clients' \in [client : 0..MaxChildren, openingClient : 0..MaxChildren]
      /\ clients'.client = clients.client /\ clients'.openingClient = None
  BY <1>0, <1>6, ClientDropped
<1>8. t.interactions \in Up => ShownIds(t, t.interactions) \subseteq t.owed[t.interactions]
  BY <1>0, <1>4, <1>5 DEF ShownIds
<1>9. /\ session' \in Sessions /\ ~session'.stray /\ session'.interactions \in {None, clients'.client}
      /\ \A d \in Children : Untouched(session, d) => Untouched(session', d)
      /\ \A d \in Children : link[d] = "none" => session'.owed[d] = session.owed[d]
  <2>1. CASE session' = Cleared(t)
    BY <1>5, <1>8, <2>1, ClearedAnswers
  <2>2. CASE session' = t
    BY <1>5, <1>7, <2>2 DEF SessionInv, ClientsFit
  <2> QED BY <1>6, <2>1, <2>2
<1>10. c = opening.child
  BY DEF c
<1>11. /\ link' \in [Children -> {"none", "open", "failed", "closed"}]
       /\ \A d \in Children : link'[d] # "open" /\ (link'[d] = "none" <=> link[d] = "none")
  BY <1>0, <1>6 DEF SessionInv, SessionTyped, Up
<1> QED BY <1>0, <1>6, <1>7, <1>9, <1>10, <1>11, NoneUp

\* The client that was opened becomes the session's.
LEMMA FinishFits ==
  ASSUME SessionInv, opening.stage \in Waiting, NEW s, Alike(session, s),
         FinishOpening(opening.child, s), UNCHANGED <<child, closing>>
  PROVE  SessionInv'
<1> DEFINE c == opening.child
           i == s.interactions
           t == Shut(s, i)
           b == [t EXCEPT !.interactions = c]
           r == ReplayDeferred(b, c)
           valid == closing = "no" /\ \A k \in DOMAIN deferred : deferred[k].kind # "malformed"
<1>0. /\ c \in Children /\ c # None /\ link[c] # "none" /\ c # clients.client
      /\ opening # NoOpening /\ closing # "done" /\ Up \subseteq {c}
      /\ deferred \in Seq(Frames) /\ Distinct
  <2>1. opening # NoOpening
    BY DEF Waiting, NoOpening
  <2> QED BY <2>1, ChildrenFacts, OneUp, UpFacts DEF SessionInv, OpeningFits, ClientsFit
<1>1. /\ s \in Sessions /\ ~s.stray /\ s.owed = session.owed
      /\ \A d : Untouched(session, d) <=> Untouched(s, d)
      /\ link[c] = "open" => Partition(s, c, DeferredIds(0))
      /\ i \in 0..MaxChildren /\ i # c /\ i \notin Up
  <2>1. i = session.interactions /\ i \in {None, clients.client}
    BY DEF SessionInv, ClientsFit, Alike
  <2>2. i \in 0..MaxChildren /\ i # c /\ i \notin Up
    <3>1. clients.client \in 0..MaxChildren /\ None \in 0..MaxChildren /\ None \notin Up
      BY ChildrenFacts DEF SessionInv, SessionTyped, Up
    <3> HIDE DEF i, c
    <3> QED BY <1>0, <2>1, <3>1
  <2>3. link[c] = "open" => Partition(session, c, DeferredIds(0))
    BY <1>0, UpFacts
  <2> QED BY <2>2, <2>3, UpFacts, AlikeKeeps DEF Alike
<1> HIDE DEF i, c
<1>2. /\ Framed(s, t, i)
      /\ i \in Children => t.entries[i] = {} /\ ToolIds(t, i) = ToolIds(s, i)
      /\ i \in Children /\ link[i] # "open" => t.owed[i] = s.owed[i]
  BY <1>1, ShutAnswers
<1> HIDE DEF t
<1>3. /\ b \in Sessions /\ ~b.stray /\ b.interactions = c
      /\ b.entries = t.entries /\ b.owed = t.owed /\ b.calls = t.calls
  BY <1>0, <1>2, ChildrenFacts DEF Framed, Sessions
<1> HIDE DEF b
<1>4. \A d \in Children : ToolIds(b, d) = ToolIds(s, d) /\ b.owed[d] = session.owed[d]
  <2>1. \A d \in Children : ToolIds(b, d) = ToolIds(t, d)
    BY <1>3 DEF ToolIds
  <2>2. i \in Children => link[i] # "open"
    BY <1>1 DEF Up
  <2> QED BY <1>1, <1>2, <1>3, <2>1, <2>2 DEF Framed, SameBooks
<1>5. \A d \in Children : b.entries[d] = s.entries[d] \/ b.entries[d] = {}
  BY <1>2, <1>3 DEF Framed, SameBooks
<1>6. \A d \in Children : d # c /\ Untouched(session, d) => Untouched(b, d)
  BY <1>1, <1>3, <1>4, <1>5 DEF Untouched
<1>7. link[c] = "open" => Partition(b, c, DeferredIds(0))
  <2> SUFFICES ASSUME link[c] = "open" PROVE Partition(b, c, DeferredIds(0))
    OBVIOUS
  <2>1. b.entries[c] = s.entries[c] /\ b.owed[c] = s.owed[c] /\ ToolIds(b, c) = ToolIds(s, c)
    BY <1>0, <1>1, <1>2, <1>3, <1>4 DEF Framed, SameBooks
  <2>2. Partition(s, c, DeferredIds(0))
    BY <1>1
  <2> QED BY <1>3, <2>1, <2>2 DEF Partition, ShownIds
<1>8. /\ Framed(b, r, c)
      /\ link[c] = "open" /\ ~r.thrown => Partition(r, c, {})
      /\ link[c] = "open" => ShownIds(r, c) \subseteq r.owed[c]
  BY <1>0, <1>3, <1>7, ReplayAnswers
<1>9. IF valid /\ ~r.thrown
      THEN /\ session' = r
           /\ clients' = [client |-> c, openingClient |-> None]
           /\ opening' = NoOpening /\ deferred' = <<>>
           /\ UNCHANGED link
      ELSE IF valid
      THEN /\ session' = Cleared(Quietly(r)) /\ clients' = [client |-> None, openingClient |-> None]
           /\ link' = [link EXCEPT ![c] = "closed"]
           /\ opening' = [stage |-> "closing", child |-> c, resume |-> "no"] /\ deferred' = <<>>
      ELSE Abort(c, s)
  BY DEF FinishOpening, c, i, t, b
<1> HIDE DEF r
<1>10. /\ r \in Sessions /\ ~r.stray /\ r.interactions = c
       /\ \A d \in Children : d # c /\ Untouched(session, d) => Untouched(r, d)
       /\ \A d \in Children : d # c => r.owed[d] = session.owed[d]
  BY <1>3, <1>4, <1>6, <1>8 DEF Framed, SameBooks, Untouched
<1>11. CASE valid /\ ~r.thrown
  <2> HIDE DEF valid
  <2>1. /\ session' = r /\ clients' = [client |-> c, openingClient |-> None]
        /\ opening' = NoOpening /\ deferred' = <<>> /\ link' = link
    BY <1>9, <1>11
  <2>2. SessionTyped'
    <3>1. <<>> \in Seq(Frames) /\ NoOpening \in Brief
      BY ChildrenFacts DEF NoOpening, Brief, Resumes
    <3>2. [client |-> c, openingClient |-> None] \in [client : 0..MaxChildren, openingClient : 0..MaxChildren]
      BY <1>0, ChildrenFacts
    <3> QED BY <1>10, <2>1, <3>1, <3>2 DEF SessionInv, SessionTyped
  <2>3. OpeningFits'
    BY <2>1 DEF OpeningFits, NoOpening, Waiting
  <2>4. ChildrenFit'
    <3>1. opening.stage # "spawning" /\ clients'.client = c /\ clients'.openingClient = None
      BY <2>1 DEF Waiting
    <3>2. \A d \in Children : link[d] = "open" => d = c
      BY <1>0 DEF Up
    <3> QED BY <1>0, <1>10, <2>1, <3>1, <3>2, ChildrenFacts DEF SessionInv, ChildrenFit
  <2>5. ClientsFit'
    BY <1>10, <1>11, <2>1, <1>0 DEF ClientsFit, valid
  <2>6. Distinct' /\ Up' = Up
    BY <2>1 DEF Distinct, Up
  <2>7. Accounts(session, HeldBy(opening.child, DeferredIds(0)), Up)'
    <3>1. HeldBy(opening'.child, DeferredIds(0)')[c] = {}
      BY <1>0, <2>1 DEF HeldBy, NoOpening
    <3>2. \A d \in Up : d = c /\ link[c] = "open"
      BY <1>0 DEF Up
    <3> QED BY <1>8, <1>10, <1>11, <2>1, <2>6, <3>1, <3>2 DEF Accounts
  <2> QED BY <2>2, <2>3, <2>4, <2>5, <2>6, <2>7 DEF SessionInv
<1>12. CASE valid /\ r.thrown
  <2> DEFINE q == Quietly(r)
  <2>1. /\ session' = Cleared(q) /\ clients' = [client |-> None, openingClient |-> None]
        /\ link' = [link EXCEPT ![c] = "closed"]
        /\ opening' = [stage |-> "closing", child |-> c, resume |-> "no"] /\ deferred' = <<>>
    BY <1>9, <1>12
  <2> HIDE DEF valid
  <2>2. /\ q \in Sessions /\ ~q.stray /\ q.interactions = c /\ q.entries = r.entries /\ q.owed = r.owed
        /\ \A d : Untouched(q, d) <=> Untouched(r, d)
    BY <1>10, QuietlyKeeps
  <2> HIDE DEF q
  <2>3. q.interactions \in Up => ShownIds(q, q.interactions) \subseteq q.owed[q.interactions]
    BY <1>8, <2>2 DEF ShownIds, Up
  <2>4. /\ session' \in Sessions /\ ~session'.stray /\ session'.interactions = None
        /\ \A d \in Children : Untouched(q, d) => Untouched(session', d)
        /\ \A d \in Children : link[d] # "open" => session'.owed[d] = q.owed[d]
    BY <2>1, <2>2, <2>3, ClearedAnswers
  <2>5. /\ \A d \in Children : Untouched(session, d) /\ (link[d] = "none" \/ opening'.stage # "closing")
                                => Untouched(session', d)
        /\ \A d \in Children : link[d] = "none" => session'.owed[d] = session.owed[d]
    BY <1>0, <1>10, <2>1, <2>2, <2>4
  <2>6. c = opening.child
    BY DEF c
  <2>7. [client |-> None, openingClient |-> None] \in [client : 0..MaxChildren, openingClient : 0..MaxChildren]
    BY ChildrenFacts
  <2>8. /\ link' \in [Children -> {"none", "open", "failed", "closed"}]
        /\ \A d \in Children : link'[d] # "open" /\ (link'[d] = "none" <=> link[d] = "none")
    BY <1>0, <2>1 DEF SessionInv, SessionTyped, Up
  <2> QED BY <1>0, <2>1, <2>4, <2>5, <2>6, <2>7, <2>8, NoneUp
<1>13. CASE ~valid
  <2>1. Abort(opening.child, s)
    BY <1>9, <1>13 DEF c
  <2> QED BY <2>1, AbortFits
<1> QED BY <1>11, <1>12, <1>13

-----------------------------------------------------------------------------
(* The steps. *)

LEMMA OpeningListed ==
  ASSUME SessionInv, opening.stage \in {"list", "read"}
  PROVE  opening \in Listing
BY DEF SessionInv, SessionTyped, Brief

LEMMA HydrateFits ==
  ASSUME SessionInv, opening.stage \in {"list", "read"}, NEW s, Alike(session, s),
         NEW items, items \subseteq Items,
         Hydrate(opening.child, s, items), UNCHANGED <<child, closing>>
  PROVE  SessionInv'
<1> DEFINE c == opening.child
           known == ObservedAll(s, {i \in items : ~Unclear(s, i)})
           unclear == {i \in items : Unclear(s, i)}
<1>1. opening.stage \in Waiting /\ opening \in Listing
  BY OpeningListed DEF Waiting
<1>2. Alike(session, known)
  <2>1. {i \in items : ~Unclear(s, i)} \subseteq Items
    OBVIOUS
  <2>2. Alike(s, known)
    BY <2>1, AlikeObserved DEF Alike
  <2> QED BY <2>2, AlikeTrans
<1>3. unclear \subseteq Items
  OBVIOUS
<1>4. \/ /\ \E i \in unclear :
             opening' = [opening EXCEPT !.stage = "read", !.resume = "no", !.thread = i.thread,
                                        !.tries = 1, !.items = unclear \ {i}]
         /\ session' = known /\ UNCHANGED <<link, clients, deferred>>
      \/ FinishOpening(c, known)
      \/ /\ opening' = List(c, opening.pages + 1)
         /\ session' = known /\ UNCHANGED <<link, clients, deferred>>
      \/ Abort(c, known)
  BY DEF Hydrate
<1> HIDE DEF known, unclear
<1>5. ASSUME NEW i \in unclear,
             opening' = [opening EXCEPT !.stage = "read", !.resume = "no", !.thread = i.thread,
                                        !.tries = 1, !.items = unclear \ {i}],
             session' = known, UNCHANGED <<link, clients, deferred>>
      PROVE  SessionInv'
  <2>1. i.thread \in Threads
    BY <1>3, <1>5 DEF Items, Threads
  <2>2. opening' \in Listing /\ opening'.stage = "read" /\ opening'.thread = i.thread
        /\ opening'.child = opening.child
    BY <1>1, <1>3, <1>5, <2>1 DEF Listing, Resumes
  <2> QED BY <1>1, <1>2, <1>5, <2>1, <2>2, OpeningMoves DEF Waiting
<1>6. ASSUME opening' = List(c, opening.pages + 1),
             session' = known, UNCHANGED <<link, clients, deferred>>
      PROVE  SessionInv'
  <2>1. opening' \in Listing /\ opening'.stage = "list" /\ opening'.child = c
    BY <1>1, <1>6 DEF Listing, List, Resumes, None
  <2> QED BY <1>1, <1>2, <1>6, <2>1, OpeningMoves DEF Waiting
<1> QED BY <1>1, <1>2, <1>4, <1>5, <1>6, FinishFits, AbortFits

LEMMA ResumeFits ==
  ASSUME SessionInv, Resume
  PROVE  SessionInv'
<1> DEFINE c == opening.child
<1>1. opening.stage \in Waiting /\ UNCHANGED <<child, closing>> /\ opening.resume \in {"ok", "error"}
  BY DEF SessionInv, OpeningFits, SessionTyped, Brief, Listing, Resumes, Resume
<1>2. session \in Sessions /\ Alike(session, session)
  BY UpFacts DEF Alike
<1>3. CASE Abort(c, session)
  BY <1>1, <1>2, <1>3, AbortFits
<1>4. CASE opening.resume = "ok" /\ opening.stage = "initialize"
  <2>1. Abort(c, session) \/
        (/\ opening' = List(c, 1)
         /\ session' = [session EXCEPT !.roots = {}, !.active = [t \in Threads |-> 0]]
         /\ UNCHANGED <<link, clients, deferred>>)
    BY <1>4 DEF Resume
  <2>2. ASSUME opening' = List(c, 1),
               session' = [session EXCEPT !.roots = {}, !.active = [t \in Threads |-> 0]],
               UNCHANGED <<link, clients, deferred>>
        PROVE  SessionInv'
    <3>1. opening.child \in 0..MaxChildren
      BY DEF SessionInv, SessionTyped, Brief, Listing
    <3>2. opening' \in Listing /\ opening'.stage = "list" /\ opening'.child = c
      BY <2>2, <3>1 DEF Listing, List, Resumes, None
    <3>3. Alike(session, session')
      BY <1>2, <2>2 DEF Alike, Sessions
    <3> QED BY <1>1, <2>2, <3>2, <3>3, OpeningMoves DEF Waiting
  <2> QED BY <1>3, <2>1, <2>2
<1>5. CASE opening.resume = "ok" /\ opening.stage = "list"
  <2>1. Hydrate(c, session, opening.items)
    BY <1>5 DEF Resume
  <2>2. opening.items \subseteq Items
    BY <1>5, OpeningListed DEF Listing
  <2> QED BY <1>1, <1>2, <1>5, <2>1, <2>2, HydrateFits
<1>6. CASE opening.resume = "ok" /\ opening.stage = "read"
  <2> DEFINE o == Observed(session, opening.thread, opening.source)
             s == Synced(o, opening.thread, opening.turn, "inProgress")
  <2>1. \/ /\ opening' = [opening EXCEPT !.resume = "no", !.tries = @ + 1]
           /\ UNCHANGED <<session, link, clients, deferred>>
        \/ Abort(c, session)
        \/ Hydrate(c, s, opening.items)
    BY <1>6 DEF Resume
  <2>2. opening \in Listing /\ opening.thread \in Threads
    BY <1>6, OpeningListed DEF SessionInv, OpeningFits
  <2>3. opening.items \subseteq Items /\ opening.turn \in Nat
    <3>1. opening.items \in SUBSET Items /\ opening.turn \in SessionTurns \cup {0}
      BY <2>2 DEF Listing
    <3>2. \A x \in SessionTurns : x \in Nat
      BY SessionAssumption
    <3>3. opening.turn \in Nat
      <4> DEFINE x == opening.turn
      <4> HIDE DEF x
      <4>1. x \in SessionTurns \/ x = 0
        BY <3>1 DEF x
      <4>2. x \in Nat
        BY <3>2, <4>1
      <4> QED BY <4>2 DEF x
    <3> QED BY <3>1, <3>3
  <2>4. Alike(session, s)
    <3>1. Alike(session, o)
      BY <1>2, <2>2, AlikeOne
    <3>2. o \in Sessions
      BY <3>1 DEF Alike
    <3> HIDE DEF o
    <3>3. Alike(o, s)
      BY <2>3, <3>2, AlikeSynced
    <3> QED BY <3>1, <3>3, AlikeTrans
  <2> HIDE DEF s
  <2>5. ASSUME opening' = [opening EXCEPT !.resume = "no", !.tries = @ + 1],
               UNCHANGED <<session, link, clients, deferred>>
        PROVE  SessionInv'
    <3> DEFINE n == opening.tries + 1
    <3>0. n \in Nat /\ opening' = [opening EXCEPT !.resume = "no", !.tries = n]
      BY <2>2, <2>5 DEF Listing
    <3> HIDE DEF n
    <3>1. /\ opening' \in Listing /\ opening'.stage = opening.stage /\ opening'.child = opening.child
          /\ opening'.thread = opening.thread
      BY <2>2, <3>0 DEF Listing, Resumes
    <3> QED BY <1>1, <1>2, <2>2, <2>5, <3>1, OpeningMoves
  <2> QED BY <1>1, <1>3, <1>6, <2>1, <2>3, <2>4, <2>5, HydrateFits
<1>7. CASE opening.resume = "error"
  BY <1>3, <1>7 DEF Resume
<1> QED BY <1>1, <1>4, <1>5, <1>6, <1>7 DEF Waiting

LEMMA EnsureFits ==
  ASSUME SessionInv, EnsureConnected
  PROVE  SessionInv'
<1>1. PICK c \in Children :
         /\ child[c] = "none" /\ child' = [child EXCEPT ![c] = "spawning"]
         /\ opening' = [stage |-> "spawning", child |-> c, resume |-> "no"]
  BY DEF EnsureConnected
<1>2. /\ opening = NoOpening /\ ~Healthy /\ closing = "no"
      /\ UNCHANGED <<link, clients, deferred, session, closing>>
  BY DEF EnsureConnected, MustOpen
<1>3. Up = {} /\ Up' = {} /\ ~Healthy'
  <2>1. Up = {}
    BY <1>2, OneUp
  <2> QED BY <1>2, <2>1 DEF Up, Healthy
<1>4. /\ link[c] = "none" /\ deferred = <<>> /\ clients.openingClient = None
      /\ \A d \in Children : child[d] # "spawning"
  BY <1>1, <1>2 DEF SessionInv, ChildrenFit, OpeningFits, NoOpening, Waiting
<1>5. SessionTyped'
  <2>1. opening' \in Brief
    BY <1>1, ChildrenFacts DEF Brief, Resumes
  <2> QED BY <1>1, <1>2, <2>1 DEF SessionInv, SessionTyped
<1>6. /\ child'[c] = "spawning" /\ \A d \in Children : d # c => child'[d] = child[d]
      /\ opening'.stage = "spawning" /\ opening'.child = c /\ opening'.resume = "no"
  BY <1>1 DEF SessionInv, SessionTyped
<1>7. OpeningFits'
  BY <1>2, <1>3, <1>4, <1>6, <1>1 DEF OpeningFits, Waiting
<1>8. ChildrenFit'
  BY <1>2, <1>4, <1>6 DEF SessionInv, ChildrenFit, Waiting, NoOpening
<1>9. ClientsFit'
  BY <1>2, <1>3 DEF SessionInv, ClientsFit
<1>10. Distinct' /\ Accounts(session, HeldBy(opening.child, DeferredIds(0)), Up)'
  BY <1>2, <1>3 DEF SessionInv, Distinct, Accounts
<1> QED BY <1>5, <1>7, <1>8, <1>9, <1>10 DEF SessionInv

LEMMA SpawnedFits ==
  ASSUME SessionInv, Spawned
  PROVE  SessionInv'
<1> DEFINE c == opening.child
<1>1. /\ opening.stage = "spawning" /\ UNCHANGED <<deferred, session, closing>>
      /\ c \in Children /\ child[c] = "spawning" /\ link[c] = "none" /\ opening.resume = "no"
      /\ deferred = <<>> /\ clients.openingClient = None /\ opening \in Brief
      /\ opening # NoOpening /\ c # None
  <2>1. opening # NoOpening /\ opening.stage \notin Waiting /\ opening.stage = "spawning"
    BY DEF Spawned, NoOpening, Waiting
  <2> QED BY <2>1, ChildrenFacts DEF SessionInv, OpeningFits, ChildrenFit, SessionTyped, Listing, Spawned
<1>2. Up = {} /\ ~Healthy /\ closing # "done"
  BY <1>1, OneUp DEF SessionInv, OpeningFits, ClientsFit, Waiting
<1>3. /\ c \notin {clients.client, clients.openingClient}
      /\ Untouched(session, c) /\ session.owed[c] = {}
      /\ \A d \in Children : child[d] = "spawning" => d = c
  BY <1>1 DEF SessionInv, ChildrenFit
<1>4. CASE /\ child' = [child EXCEPT ![c] = "running"]
           /\ link' = [link EXCEPT ![c] = "open"]
           /\ clients' = [clients EXCEPT !.openingClient = c]
           /\ opening' = [opening EXCEPT !.stage = "initialize"]
  <2>1. /\ child' \in [Children -> {"none", "spawning", "running", "ended"}]
        /\ link' \in [Children -> {"none", "open", "failed", "closed"}]
        /\ child'[c] = "running" /\ link'[c] = "open"
        /\ \A d \in Children : d # c => child'[d] = child[d] /\ link'[d] = link[d]
    BY <1>1, <1>4 DEF SessionInv, SessionTyped
  <2>2. /\ clients' \in [client : 0..MaxChildren, openingClient : 0..MaxChildren]
        /\ clients'.client = clients.client /\ clients'.openingClient = c
    BY <1>1, <1>4, ChildrenFacts DEF SessionInv, SessionTyped
  <2>3. /\ opening' \in Brief /\ opening'.stage = "initialize" /\ opening'.child = c
        /\ opening'.resume = "no"
    BY <1>1, <1>4 DEF Brief
  <2> HIDE DEF c
  <2>4. SessionTyped'
    BY <1>1, <2>1, <2>2, <2>3 DEF SessionInv, SessionTyped
  <2>5. Up' = {c}
    BY <1>1, <1>2, <2>1 DEF Up
  <2>6. ~Healthy'
    <3>1. clients.client = None \/ clients.client \in Children
      BY ChildrenFacts DEF SessionInv, SessionTyped
    <3> QED BY <1>2, <1>3, <2>1, <2>2, <3>1 DEF Healthy
  <2>7. OpeningFits'
    BY <1>1, <1>3, <2>1, <2>2, <2>3, <2>6 DEF OpeningFits, Waiting
  <2>8. ChildrenFit'
    <3> SUFFICES ASSUME NEW d \in Children
                 PROVE  /\ child'[d] = "spawning" => opening'.stage = "spawning" /\ opening'.child = d
                        /\ child'[d] \in {"none", "spawning"} => link'[d] = "none"
                        /\ link'[d] = "none" =>
                             /\ child'[d] # "running" /\ d \notin {clients'.client, clients'.openingClient}
                             /\ Untouched(session', d) /\ session'.owed[d] = {}
                        /\ link'[d] = "open" =>
                             d = clients'.client \/ (d = opening'.child /\ opening'.stage \in Waiting)
      BY DEF ChildrenFit
    <3>1. CASE d = c
      BY <2>1, <2>3, <3>1 DEF Waiting
    <3>2. CASE d # c
      <4>1. child'[d] = child[d] /\ link'[d] = link[d] /\ session' = session
        BY <1>1, <2>1, <3>2
      <4>2. link[d] # "open" /\ child[d] # "spawning"
        BY <1>2, <1>3, <3>2 DEF Up
      <4> QED BY <2>2, <3>2, <4>1, <4>2 DEF SessionInv, ChildrenFit
    <3> QED BY <3>1, <3>2
  <2>9. ClientsFit'
    BY <1>1, <1>2, <2>2, <2>6 DEF SessionInv, ClientsFit
  <2>10. Distinct' /\ DeferredIds(0)' = {}
    <3>1. 0+1..Len(deferred') = {} /\ 1..Len(deferred') = {}
      BY <1>1
    <3> QED BY <3>1 DEF Distinct, DeferredIds
  <2>11. Accounts(session, HeldBy(opening.child, DeferredIds(0)), Up)'
    <3>1. Partition(session', c, {})
      BY <1>1, <1>3 DEF Partition, Untouched, ShownIds
    <3>2. HeldBy(opening'.child, DeferredIds(0)')[c] = {}
      BY <1>1, <2>10 DEF HeldBy
    <3>3. ~session'.stray
      BY <1>1, UpFacts
    <3> QED BY <2>5, <3>1, <3>2, <3>3 DEF Accounts
  <2> QED BY <2>4, <2>7, <2>8, <2>9, <2>10, <2>11 DEF SessionInv
<1>5. CASE /\ child' = [child EXCEPT ![c] = "ended"]
           /\ opening' = NoOpening /\ UNCHANGED <<link, clients>>
  <2>1. /\ child' \in [Children -> {"none", "spawning", "running", "ended"}]
        /\ child'[c] = "ended" /\ \A d \in Children : d # c => child'[d] = child[d]
    BY <1>1, <1>5 DEF SessionInv, SessionTyped
  <2> HIDE DEF c
  <2>2. NoOpening \in Brief
    BY ChildrenFacts DEF NoOpening, Brief, Resumes
  <2>3. SessionTyped'
    BY <1>1, <1>5, <2>1, <2>2 DEF SessionInv, SessionTyped
  <2>4. Up' = {} /\ ~Healthy'
    BY <1>2, <1>5 DEF Up, Healthy
  <2>5. OpeningFits'
    BY <1>1, <1>5 DEF OpeningFits, NoOpening, Waiting
  <2>6. ChildrenFit'
    <3>1. \A d \in Children : child'[d] # "spawning" /\ (child'[d] = child[d] \/ child'[d] = "ended")
      BY <1>3, <2>1
    <3>2. \A d \in Children : link[d] # "open"
      BY <1>2 DEF Up
    <3> QED BY <1>1, <1>5, <3>1, <3>2 DEF SessionInv, ChildrenFit
  <2>7. ClientsFit'
    BY <1>1, <1>2, <1>5, <2>4 DEF SessionInv, ClientsFit
  <2>8. Distinct' /\ Accounts(session, HeldBy(opening.child, DeferredIds(0)), Up)'
    BY <1>1, <2>4 DEF SessionInv, Distinct, Accounts
  <2> QED BY <2>3, <2>5, <2>6, <2>7, <2>8 DEF SessionInv
<1> QED BY <1>4, <1>5 DEF Spawned

LEMMA RespondFits ==
  ASSUME SessionInv, Respond \/ RefuseOpening
  PROVE  SessionInv'
<1>1. opening.stage \in Waiting /\ UNCHANGED <<child, link, clients, deferred, session, closing>>
  BY DEF Respond, RefuseOpening
<1>2. Alike(session, session')
  BY <1>1, UpFacts DEF Alike
<1>3. \/ \E o \in Resumes : opening' = [opening EXCEPT !.resume = o]
      \/ /\ opening.stage = "list"
         /\ \E items \in SUBSET Items, more \in BOOLEAN :
               opening' = [opening EXCEPT !.resume = "ok", !.items = items, !.more = more]
      \/ /\ opening.stage = "read"
         /\ \E source \in {"lossy", "planner", "other"}, turn \in SessionTurns \cup {0} :
               opening' = [opening EXCEPT !.resume = "ok", !.source = source, !.turn = turn]
  BY DEF Respond, RefuseOpening, Resumes
<1>4. /\ opening' \in Brief \cup Listing /\ opening'.stage = opening.stage
      /\ opening'.child = opening.child
      /\ opening.stage = "read" => opening'.thread = opening.thread
  <2>1. ASSUME NEW o \in Resumes, opening' = [opening EXCEPT !.resume = o]
        PROVE  <1>4!:
    <3>1. CASE opening \in Brief
      BY <2>1, <3>1 DEF Brief
    <3>2. CASE opening \in Listing
      BY <2>1, <3>2 DEF Listing
    <3> QED BY <3>1, <3>2 DEF SessionInv, SessionTyped
  <2>2. ASSUME opening.stage = "list", NEW items \in SUBSET Items, NEW more \in BOOLEAN,
               opening' = [opening EXCEPT !.resume = "ok", !.items = items, !.more = more]
        PROVE  <1>4!:
    <3>1. opening \in Listing
      BY <2>2, OpeningListed
    <3> QED BY <2>2, <3>1 DEF Listing, Resumes
  <2>3. ASSUME opening.stage = "read", NEW source \in {"lossy", "planner", "other"},
               NEW turn \in SessionTurns \cup {0},
               opening' = [opening EXCEPT !.resume = "ok", !.source = source, !.turn = turn]
        PROVE  <1>4!:
    <3>1. opening \in Listing
      BY <2>3, OpeningListed
    <3> QED BY <2>3, <3>1 DEF Listing, Resumes
  <2> QED BY <1>3, <2>1, <2>2, <2>3
<1>5. opening'.stage = "read" => opening'.thread \in Threads
  BY <1>4 DEF SessionInv, OpeningFits
<1> QED BY <1>1, <1>2, <1>4, <1>5, OpeningMoves

\* What a connected app-server asks is held before it is handled.
Taken(c, e) == IF IsRequest(e) THEN [session EXCEPT !.owed[c] = @ \cup {e.id}] ELSE session
Held(c) == IF c = opening.child THEN DeferredIds(0) ELSE {}

LEMMA TakenFacts ==
  ASSUME SessionInv, NEW c \in Up, NEW e \in Frames, IsRequest(e) => e.id \notin session.owed[c]
  PROVE  LET s == Taken(c, e) IN
           /\ Framed(session, s, c) /\ \A d : Untouched(session, d) <=> Untouched(s, d)
           /\ IsRequest(e) => /\ e.id \in RpcIds /\ e.id \notin Held(c)
                              /\ Partition(s, c, Held(c) \cup {e.id})
           /\ ~IsRequest(e) => s = session
           /\ Held(c) \in SUBSET RpcIds /\ Partition(session, c, Held(c))
           /\ \A d \in Children : link[d] = "none" => s.owed[d] = session.owed[d]
<1> DEFINE s == Taken(c, e)
<1>1. /\ session \in Sessions /\ ~session.stray /\ Held(c) \in SUBSET RpcIds
      /\ Partition(session, c, Held(c)) /\ c \in Children /\ link[c] = "open"
  BY UpFacts DEF Held, Up
<1>2. CASE ~IsRequest(e)
  BY <1>1, <1>2 DEF Taken, Framed, SameBooks
<1>3. CASE IsRequest(e)
  <2>1. e.id \in RpcIds
    BY <1>3 DEF Frames, ChildRequests, Notifications, IsRequest
  <2>2. s = [session EXCEPT !.owed[c] = @ \cup {e.id}]
    BY <1>3 DEF Taken
  <2> HIDE DEF s
  <2>3. /\ s \in Sessions /\ s.stray = session.stray /\ s.interactions = session.interactions
        /\ s.entries = session.entries /\ s.calls = session.calls
        /\ s.owed[c] = session.owed[c] \cup {e.id}
        /\ \A d \in Children : d # c => s.owed[d] = session.owed[d]
    BY <1>1, <2>1, <2>2 DEF Sessions
  <2>4. \A d : ToolIds(s, d) = ToolIds(session, d) /\ ShownIds(s, d) = ShownIds(session, d)
    BY <2>3 DEF ToolIds, ShownIds
  <2>5. e.id \notin Held(c)
    BY <1>1, <1>3 DEF Partition
  <2>6. Partition(s, c, Held(c) \cup {e.id})
    BY <1>1, <1>3, <2>3, <2>4 DEF Partition
  <2>7. Framed(session, s, c)
    BY <1>1, <2>3, <2>4 DEF Framed, SameBooks
  <2>8. \A d : Untouched(session, d) <=> Untouched(s, d)
    BY <2>3, <2>4 DEF Untouched
  <2> QED BY <1>1, <1>3, <2>1, <2>3, <2>5, <2>6, <2>7, <2>8 DEF s
<1> QED BY <1>2, <1>3

LEMMA FrameHandled ==
  ASSUME SessionInv, NEW c \in Up, NEW e \in Frames, IsRequest(e) => e.id \notin session.owed[c],
         NEW r, \/ Ready(c) /\ r = Handle(Taken(c, e), c, e)
                \/ IsRequest(e) /\ r = Reply(Taken(c, e), c, e.id)
  PROVE  /\ Framed(session, r, c) /\ Partition(r, c, Held(c))
         /\ Untouched(session, c) => Untouched(r, c)
<1> DEFINE s == Taken(c, e)
<1>1. /\ Framed(session, s, c) /\ \A d : Untouched(session, d) <=> Untouched(s, d)
      /\ IsRequest(e) => /\ e.id \in RpcIds /\ e.id \notin Held(c)
                         /\ Partition(s, c, Held(c) \cup {e.id})
      /\ ~IsRequest(e) => s = session
      /\ Held(c) \in SUBSET RpcIds /\ Partition(session, c, Held(c))
  BY TakenFacts
<1>2. /\ s \in Sessions /\ ~s.stray /\ s.interactions = session.interactions
      /\ c \in Children /\ link[c] = "open" /\ c # None
  BY <1>1, ChildrenFacts DEF Framed, Up
<1>3. IsRequest(e) <=> e \in ChildRequests
  BY DEF Frames, ChildRequests, Notifications, IsRequest
<1> HIDE DEF s
<1>4. CASE Ready(c) /\ r = Handle(s, c, e)
  <2>1. session.interactions = c
    BY <1>2, <1>4 DEF SessionInv, ClientsFit, Healthy, Ready
  <2>2. Framed(s, r, c) /\ Partition(r, c, Held(c))
    <3>1. CASE e \in ChildRequests
      BY <1>1, <1>2, <1>3, <1>4, <2>1, <3>1, RequestHandled
    <3>2. CASE e \notin ChildRequests
      BY <1>1, <1>2, <1>3, <1>4, <2>1, <3>2, NotificationHandled DEF Frames
    <3> QED BY <3>1, <3>2
  <2>3. ~Untouched(session, c)
    BY <2>1 DEF Untouched
  <2> QED BY <1>1, <2>2, <2>3 DEF Framed, SameBooks
<1>5. CASE IsRequest(e) /\ r = Reply(s, c, e.id)
  <2>1. /\ r \in Sessions /\ ~r.stray
        /\ r.interactions = s.interactions /\ r.entries = s.entries /\ r.calls = s.calls
        /\ \A d \in Children : d # c => r.owed[d] = s.owed[d]
        /\ Partition(r, c, Held(c))
    BY <1>1, <1>2, <1>5, ReplyAnswers
  <2>2. \A d : ToolIds(r, d) = ToolIds(s, d)
    BY <2>1 DEF ToolIds
  <2> QED BY <1>1, <2>1, <2>2 DEF Framed, SameBooks, Untouched
<1> QED BY <1>4, <1>5 DEF s

\* A frame that waits for the end of the opening.
LEMMA FrameDeferred ==
  ASSUME SessionInv, NEW c \in Up, NEW e \in Frames, IsRequest(e) => e.id \notin session.owed[c],
         ~Ready(c), deferred' = Append(deferred, e), session' = Taken(c, e),
         UNCHANGED <<child, link, clients, opening, closing>>
  PROVE  SessionInv'
<1> DEFINE n == Len(deferred)
<1>1. /\ c \in Children /\ link[c] = "open" /\ c = opening.child /\ opening.stage \in Waiting
      /\ opening # NoOpening
  BY DEF Up, Ready, SessionInv, ChildrenFit, Waiting, NoOpening
<1>2. /\ Framed(session, session', c) /\ \A d : Untouched(session, d) <=> Untouched(session', d)
      /\ IsRequest(e) => /\ e.id \in RpcIds /\ e.id \notin DeferredIds(0)
                         /\ Partition(session', c, DeferredIds(0) \cup {e.id})
      /\ ~IsRequest(e) => session' = session
      /\ Partition(session, c, DeferredIds(0))
      /\ \A d \in Children : link[d] = "none" => session'.owed[d] = session.owed[d]
  BY <1>1, TakenFacts DEF Held
<1>3. /\ deferred \in Seq(Frames) /\ deferred' \in Seq(Frames) /\ n \in Nat /\ Len(deferred') = n + 1
      /\ deferred'[n+1] = e /\ \A j \in 1..n : deferred'[j] = deferred[j]
  BY DEF SessionInv, SessionTyped
<1>4. 0+1..n = 1..n /\ 0+1..n+1 = 1..n+1 /\ 1..n+1 = 1..n \cup {n+1} /\ n+1 \notin 1..n
  BY <1>3
<1>5. DeferredIds(0)' = DeferredIds(0) \cup (IF IsRequest(e) THEN {e.id} ELSE {})
  <2> DEFINE d == deferred'
  <2>1. DeferredIds(0)' = {d[i].id : i \in {j \in 1..n+1 : IsRequest(d[j])}}
    BY <1>3, <1>4 DEF DeferredIds
  <2>2. DeferredIds(0) = {deferred[i].id : i \in {j \in 1..n : IsRequest(deferred[j])}}
    BY <1>3, <1>4 DEF DeferredIds
  <2> HIDE DEF d, n
  <2>3. d[n+1] = e /\ \A j \in 1..n : d[j] = deferred[j]
    BY <1>3 DEF d
  <2> QED BY <1>4, <2>1, <2>2, <2>3
<1>6. Distinct'
  <2>1. \A i \in 1..n : IsRequest(deferred[i]) => deferred[i].id \in DeferredIds(0)
    BY <1>4 DEF DeferredIds
  <2> HIDE DEF n
  <2>2. \A i, j \in 1..n : IsRequest(deferred[i]) /\ IsRequest(deferred[j])
                            /\ deferred[i].id = deferred[j].id => i = j
    BY DEF SessionInv, Distinct, n
  <2> QED BY <1>2, <1>3, <1>4, <2>1, <2>2 DEF Distinct
<1>7. session' \in Sessions /\ ~session'.stray /\ session'.interactions = session.interactions
  BY <1>2 DEF Framed
<1>8. SessionTyped'
  BY <1>3, <1>7 DEF SessionInv, SessionTyped
<1>9. OpeningFits'
  BY <1>1, <1>2 DEF SessionInv, OpeningFits, Healthy, NoOpening
<1>10. ChildrenFit'
  BY <1>2 DEF SessionInv, ChildrenFit
<1>11. ClientsFit'
  BY <1>7 DEF SessionInv, ClientsFit, Healthy, NoOpening
<1>12. Accounts(session, HeldBy(opening.child, DeferredIds(0)), Up)'
  <2>1. Up' = Up /\ Up \subseteq {c}
    BY <1>1, OneUp DEF Up
  <2>2. HeldBy(opening'.child, DeferredIds(0)')[c] = DeferredIds(0)'
    BY <1>1 DEF HeldBy
  <2>3. Partition(session', c, DeferredIds(0)')
    BY <1>2, <1>5
  <2> QED BY <1>7, <2>1, <2>2, <2>3 DEF Accounts
<1> QED BY <1>6, <1>8, <1>9, <1>10, <1>11, <1>12 DEF SessionInv

LEMMA DeliverFits ==
  ASSUME SessionInv, NEW c \in Children, NEW e \in Frames, Deliver(c, e)
  PROVE  SessionInv'
<1> DEFINE s == Taken(c, e)
           handled == IF Ready(c) THEN Handle(s, c, e) ELSE Reply(s, c, e.id)
<1>1. /\ c \in Up /\ link[c] # "none"
      /\ IsRequest(e) => e.id \notin session.owed[c]
      /\ UNCHANGED <<child, closing>>
  BY DEF Deliver, Up
<1>2. \/ ~Ready(c) /\ deferred' = Append(deferred, e) /\ session' = s /\ UNCHANGED <<link, clients, opening>>
      \/ ~Ready(c) /\ ~IsRequest(e) /\ SignalFailure(c, s) /\ UNCHANGED deferred
      \/ (Ready(c) \/ IsRequest(e)) /\ SignalFailure(c, handled) /\ UNCHANGED deferred
      \/ (Ready(c) \/ IsRequest(e)) /\ session' = handled /\ UNCHANGED <<deferred, link, clients, opening>>
  BY DEF Deliver, Taken
<1>3. CASE ~Ready(c) /\ deferred' = Append(deferred, e) /\ session' = s /\ UNCHANGED <<link, clients, opening>>
  BY <1>1, <1>3, FrameDeferred
<1>4. CASE ~Ready(c) /\ ~IsRequest(e) /\ SignalFailure(c, s) /\ UNCHANGED deferred
  <2>1. Framed(session, s, c) /\ (Untouched(session, c) => Untouched(s, c))
    BY <1>1, TakenFacts
  <2> QED BY <1>1, <1>4, <2>1, SignalFails
<1>5. ASSUME Ready(c) \/ IsRequest(e)
      PROVE  /\ Framed(session, handled, c) /\ Partition(handled, c, Held(c))
             /\ Untouched(session, c) => Untouched(handled, c)
  BY <1>1, <1>5, FrameHandled
<1> HIDE DEF handled
<1>6. CASE (Ready(c) \/ IsRequest(e)) /\ SignalFailure(c, handled) /\ UNCHANGED deferred
  BY <1>1, <1>5, <1>6, SignalFails
<1>7. CASE (Ready(c) \/ IsRequest(e)) /\ session' = handled /\ UNCHANGED <<deferred, link, clients, opening>>
  BY <1>1, <1>5, <1>7, BooksMove DEF Held
<1> QED BY <1>2, <1>3, <1>4, <1>6, <1>7

LEMMA ObserveFits ==
  ASSUME SessionInv, ObserveThread
  PROVE  SessionInv'
<1> DEFINE c == clients.client
<1>1. /\ c \in Up /\ c \in Children /\ link[c] = "open" /\ session.interactions = c
      /\ UNCHANGED <<child, link, clients, opening, deferred, closing>>
  BY ChildrenFacts DEF ObserveThread, Healthy, Up, SessionInv, SessionTyped, ClientsFit
<1>2. PICK t \in Own, turn \in SessionTurns, status \in {"inProgress", "completed"} :
        session' = Synced(Observed(session, t, "planner"), t, turn, status)
  BY DEF ObserveThread
<1>3. Alike(session, session')
  <2> DEFINE o == Observed(session, t, "planner")
  <2>1. t \in Threads /\ session \in Sessions
    BY UpFacts DEF Threads
  <2>2. Alike(session, o)
    BY <2>1, AlikeOne
  <2>3. o \in Sessions
    BY <2>2 DEF Alike
  <2> HIDE DEF o
  <2>4. turn \in Nat
    <3>1. \A x \in SessionTurns : x \in Nat
      BY SessionAssumption
    <3> QED BY <3>1
  <2>5. Alike(o, Synced(o, t, turn, status))
    BY <2>3, <2>4, AlikeSynced
  <2> QED BY <1>2, <2>2, <2>5, AlikeTrans DEF o
<1> HIDE DEF c
<1>4. Framed(session, session', c)
  BY <1>3, UpFacts DEF Alike, Framed, SameBooks, ToolIds
<1>5. Partition(session', c, IF c = opening.child THEN DeferredIds(0) ELSE {})
  BY <1>1, <1>3, UpFacts, AlikeKeeps
<1>6. Untouched(session, c) => Untouched(session', c)
  BY <1>3, UpFacts, AlikeKeeps
<1> QED BY <1>1, <1>4, <1>5, <1>6, BooksMove

LEMMA FailFits ==
  ASSUME SessionInv, Timeout \/ \E c \in Children : Fail(c)
  PROVE  SessionInv'
<1>1. \A c \in Up : Framed(session, session, c)
  BY UpFacts DEF Framed, SameBooks
<1>2. ASSUME NEW c \in Up, SignalFailure(c, session),
             child' = child \/ child' = [child EXCEPT ![c] = "ended"], UNCHANGED <<deferred, closing>>
      PROVE  SessionInv'
  BY <1>1, <1>2, SignalFails
<1>3. ASSUME NEW c \in Children, Fail(c) PROVE SessionInv'
  BY <1>2, <1>3 DEF Fail, Up
<1>4. ASSUME Timeout PROVE SessionInv'
  <2>1. opening.child \in Up
    BY <1>4 DEF Timeout, SessionInv, OpeningFits, Up, NoOpening, Waiting
  <2> QED BY <1>2, <1>4, <2>1 DEF Timeout
<1> QED BY <1>3, <1>4

LEMMA ToolDoneFits ==
  ASSUME SessionInv, ToolDone
  PROVE  SessionInv'
<1>1. PICK call \in session.calls :
        session' = Quietly(Reply([session EXCEPT !.calls = @ \ {call}], call.child, call.id))
  BY DEF ToolDone
<1> DEFINE c == call.child
           id == call.id
           s == [session EXCEPT !.calls = @ \ {call}]
           r == Reply(s, c, id)
<1>2. session \in Sessions /\ ~session.stray
  BY UpFacts
<1>3. c \in Children /\ id \in RpcIds /\ call = [child |-> c, id |-> id]
  BY <1>2 DEF Sessions
<1>4. /\ s \in Sessions /\ s.stray = session.stray /\ s.interactions = session.interactions
      /\ s.entries = session.entries /\ s.owed = session.owed /\ s.calls = session.calls \ {call}
  BY <1>2 DEF Sessions
<1> HIDE DEF c, id, s
<1>5. /\ ToolIds(s, c) = ToolIds(session, c) \ {id} /\ id \in ToolIds(session, c)
      /\ \A d : d # c => ToolIds(s, d) = ToolIds(session, d)
      /\ \A d : ShownIds(s, d) = ShownIds(session, d)
  <2>1. ToolIds(s, c) = ToolIds(session, c) \ {id} /\ id \in ToolIds(session, c)
    BY <1>1, <1>3, <1>4 DEF ToolIds
  <2>2. ASSUME NEW d, d # c PROVE ToolIds(s, d) = ToolIds(session, d)
    BY <1>3, <1>4, <2>2 DEF ToolIds
  <2> QED BY <1>4, <2>1, <2>2 DEF ShownIds
<1>6. ~Untouched(session, c) /\ link[c] # "none"
  <2>1. ~Untouched(session, c)
    BY <1>5 DEF Untouched
  <2> QED BY <1>3, <2>1 DEF SessionInv, ChildrenFit
<1>7. /\ Held(c) \in SUBSET RpcIds
      /\ link[c] = "open" => Partition(session, c, Held(c))
  BY <1>3, UpFacts DEF Held
<1> DEFINE rest == IF link[c] = "open" THEN Held(c) ELSE {}
<1>8. /\ rest \in SUBSET RpcIds /\ id \notin rest
      /\ link[c] = "open" => Partition(s, c, rest \cup {id})
  <2>1. ASSUME link[c] = "open" PROVE id \notin Held(c) /\ Partition(s, c, Held(c) \cup {id})
    BY <1>4, <1>5, <1>7, <2>1 DEF Partition
  <2> QED BY <1>7, <2>1
<1>9. /\ r \in Sessions /\ ~r.stray
      /\ r.interactions = s.interactions /\ r.entries = s.entries /\ r.calls = s.calls
      /\ \A d \in Children : d # c => r.owed[d] = s.owed[d]
      /\ link[c] = "open" => Partition(r, c, Held(c))
  <2> HIDE DEF r, rest
  <2>0. /\ s \in Sessions /\ ~s.stray /\ c \in Children /\ id \in RpcIds /\ rest \in SUBSET RpcIds
        /\ id \notin rest
        /\ link[c] = "open" => Partition(s, c, rest \cup {id})
    BY <1>2, <1>3, <1>4, <1>8
  <2>1. LET p == Reply(s, c, id) IN
          /\ p \in Sessions /\ ~p.stray
          /\ p.interactions = s.interactions /\ p.entries = s.entries /\ p.calls = s.calls
          /\ \A d \in Children : d # c => p.owed[d] = s.owed[d]
          /\ link[c] = "open" => Partition(p, c, rest)
    BY <2>0, ReplyAnswers
  <2> QED BY <2>1 DEF r, rest
<1>10. session' = Quietly(r)
  BY <1>1 DEF c, id, s
<1> HIDE DEF r
<1>11. /\ session' \in Sessions /\ ~session'.stray /\ session'.interactions = session.interactions
       /\ session'.entries = session.entries /\ session'.calls = s.calls
       /\ session'.owed = r.owed
       /\ link[c] = "open" => Partition(session', c, Held(c))
  BY <1>4, <1>9, <1>10, QuietlyKeeps
<1>12. Framed(session, session', c)
  <2>1. \A d : ToolIds(session', d) = ToolIds(s, d)
    BY <1>11 DEF ToolIds
  <2> QED BY <1>4, <1>5, <1>9, <1>11, <2>1 DEF Framed, SameBooks
<1>13. UNCHANGED <<child, link, clients, opening, deferred, closing>>
  BY DEF ToolDone
<1> QED BY <1>3, <1>6, <1>11, <1>12, <1>13, BooksMove DEF Held

\* The household, or a timer, settles a question.
LEMMA SettledFits ==
  ASSUME SessionInv, AnswerInteraction \/ Expire
  PROVE  SessionInv'
<1>0. PICK c \in Children : \E q \in session.entries[c] : session' = Quietly(Settle(session, c, q))
  <2>1. session.interactions \in 0..MaxChildren
    BY DEF SessionInv, SessionTyped, Sessions
  <2> QED BY <2>1, ChildrenFacts DEF AnswerInteraction, Expire
<1>1. PICK q \in session.entries[c] : session' = Quietly(Settle(session, c, q))
  BY <1>0
<1> DEFINE r == Settle(session, c, q)
<1>2. /\ session \in Sessions /\ ~session.stray /\ Held(c) \in SUBSET RpcIds
      /\ link[c] = "open" => Partition(session, c, Held(c))
  BY UpFacts DEF Held
<1>3. Framed(session, r, c) /\ (link[c] = "open" => Partition(r, c, Held(c)))
  BY <1>2, SettleAnswers
<1> HIDE DEF r
<1>4. r \in Sessions
  BY <1>3 DEF Framed
<1>5. /\ session' \in Sessions /\ session'.stray = r.stray /\ session'.interactions = r.interactions
      /\ session'.entries = r.entries /\ session'.calls = r.calls /\ session'.owed = r.owed
      /\ link[c] = "open" => Partition(session', c, Held(c))
  BY <1>1, <1>3, <1>4, QuietlyKeeps DEF r
<1>6. Framed(session, session', c)
  BY <1>3, <1>5 DEF Framed, SameBooks, ToolIds
<1>7. ~Untouched(session, c)
  BY DEF Untouched
<1>8. link[c] # "none"
  BY <1>7 DEF SessionInv, ChildrenFit
<1>9. UNCHANGED <<child, link, clients, opening, deferred, closing>>
  BY DEF AnswerInteraction, Expire
<1> QED BY <1>5, <1>6, <1>7, <1>8, <1>9, BooksMove DEF Held

LEMMA CloseFits ==
  ASSUME SessionInv, Close
  PROVE  SessionInv'
<1> DEFINE i == session.interactions
           t == Shut(session, i)
           held == {clients.client, clients.openingClient} \ {None}
<1>1. /\ closing = "no" /\ closing' = "begun" /\ session' = [t EXCEPT !.interactions = None]
      /\ link' = [c \in Children |-> IF c \in held THEN "closed" ELSE link[c]]
      /\ opening' = IF opening.child \in held THEN Rejected(opening.child) ELSE opening
      /\ clients' = [client |-> None, openingClient |-> None]
      /\ UNCHANGED <<child, deferred>>
  BY DEF Close
<1>2. session \in Sessions /\ ~session.stray /\ i \in 0..MaxChildren
  BY UpFacts DEF Sessions
<1>3. /\ Framed(session, t, i)
      /\ i \in Children => t.entries[i] = {} /\ ToolIds(t, i) = ToolIds(session, i)
      /\ i \in Children /\ link[i] # "open" => t.owed[i] = session.owed[i]
  BY <1>2, UpFacts, ShutAnswers
<1> HIDE DEF i, t
<1>4. /\ session' \in Sessions /\ ~session'.stray /\ session'.interactions = None
      /\ session'.entries = t.entries /\ session'.owed = t.owed /\ session'.calls = t.calls
  BY <1>1, <1>3, ChildrenFacts DEF Framed, Sessions
<1>5. \A d \in Children : Untouched(session, d) => Untouched(session', d)
  <2>1. \A d \in Children : ToolIds(session', d) = ToolIds(session, d)
    BY <1>3, <1>4 DEF ToolIds, Framed, SameBooks
  <2>2. \A d \in Children : session'.entries[d] = session.entries[d] \/ session'.entries[d] = {}
    BY <1>3, <1>4 DEF Framed, SameBooks
  <2> QED BY <1>4, <2>1, <2>2, ChildrenFacts DEF Untouched
<1>6. \A d \in Children : link[d] = "none" => session'.owed[d] = session.owed[d]
  BY <1>3, <1>4 DEF Framed, SameBooks
<1>7. /\ link' \in [Children -> {"none", "open", "failed", "closed"}]
      /\ \A d \in Children : link'[d] # "open" /\ (link'[d] = "none" <=> link[d] = "none")
  <2>1. \A d \in Children : link'[d] = IF d \in held THEN "closed" ELSE link[d]
    BY <1>1
  <2>2. \A d \in Children : link[d] \in {"none", "open", "failed", "closed"}
    BY DEF SessionInv, SessionTyped
  <2>3. \A d \in Children : link[d] = "none" => d \notin held
    BY DEF SessionInv, ChildrenFit
  <2>4. \A d \in Children : link[d] = "open" => d \in held
    BY ChildrenFacts DEF SessionInv, ChildrenFit, OpeningFits
  <2> HIDE DEF held
  <2>5. link' \in [Children -> {"none", "open", "failed", "closed"}]
    BY <1>1, <2>2
  <2> QED BY <2>1, <2>2, <2>3, <2>4, <2>5
<1>8. /\ clients' \in [client : 0..MaxChildren, openingClient : 0..MaxChildren]
      /\ clients'.client = None /\ clients'.openingClient = None
  BY <1>1, ChildrenFacts
<1>9. PICK c \in Children : opening' = opening \/ opening' = Rejected(c)
  <2>1. 1 \in Children
    BY ChildrenFacts
  <2>2. opening.child \in held => opening.child \in Children
    BY ChildrenFacts DEF SessionInv, SessionTyped
  <2> QED BY <1>1, <2>1, <2>2
<1> QED BY <1>1, <1>4, <1>5, <1>6, <1>7, <1>8, <1>9, NoneUp

LEMMA EndsFits ==
  ASSUME SessionInv, \/ \E c \in Children : Ends(c)
                     \/ Rejects
                     \/ Closes
  PROVE  SessionInv'
<1>1. UNCHANGED <<link, clients, deferred, session>>
  BY DEF Ends, Rejects, Closes
<1>2. Distinct' /\ DeferredIds(0)' = DeferredIds(0) /\ Up' = Up /\ Healthy' = Healthy
  BY <1>1 DEF SessionInv, Distinct, DeferredIds, Up, Healthy
<1>3. ASSUME NEW c \in Children, Ends(c) PROVE SessionInv'
  <2>1. /\ child[c] = "running" /\ link[c] # "none" /\ UNCHANGED <<opening, closing>>
        /\ child' \in [Children -> {"none", "spawning", "running", "ended"}]
        /\ child'[c] = "ended" /\ \A d \in Children : d # c => child'[d] = child[d]
    BY <1>3 DEF Ends, SessionInv, SessionTyped
  <2>2. SessionTyped'
    BY <1>1, <2>1 DEF SessionInv, SessionTyped
  <2>3. OpeningFits'
    <3>1. opening.stage = "spawning" => child'[opening.child] = "spawning"
      <4>1. opening.stage = "spawning" => opening # NoOpening
        BY DEF NoOpening
      <4> QED BY <2>1, <4>1 DEF SessionInv, OpeningFits
    <3> QED BY <1>1, <1>2, <2>1, <3>1 DEF SessionInv, OpeningFits, Healthy
  <2>4. ChildrenFit'
    <3>1. \A d \in Children : child'[d] = child[d] \/ (child'[d] = "ended" /\ link[d] # "none")
      BY <2>1
    <3> QED BY <1>1, <2>1, <3>1 DEF SessionInv, ChildrenFit
  <2>5. ClientsFit'
    <3>1. \A d \in Children : child'[d] = child[d] \/ child'[d] = "ended"
      BY <2>1
    <3> QED BY <1>1, <1>2, <2>1, <3>1 DEF SessionInv, ClientsFit
  <2>6. Accounts(session, HeldBy(opening.child, DeferredIds(0)), Up)'
    BY <1>1, <1>2, <2>1 DEF SessionInv, Accounts, HeldBy
  <2> QED BY <1>2, <2>2, <2>3, <2>4, <2>5, <2>6 DEF SessionInv
<1>4. ASSUME Rejects PROVE SessionInv'
  <2>1. /\ opening.stage = "closing" /\ opening' = NoOpening /\ UNCHANGED <<child, closing>>
        /\ opening # NoOpening /\ deferred = <<>> /\ clients.openingClient = None
        /\ closing # "done"
    BY <1>4 DEF Rejects, SessionInv, OpeningFits, ClientsFit, Waiting, NoOpening
  <2>2. Up = {} /\ ~Healthy
    BY <2>1, OneUp DEF Waiting, SessionInv, OpeningFits
  <2>3. NoOpening \in Brief
    BY ChildrenFacts DEF NoOpening, Brief, Resumes
  <2>4. SessionTyped'
    BY <1>1, <2>1, <2>3 DEF SessionInv, SessionTyped
  <2>5. OpeningFits'
    BY <1>1, <2>1 DEF OpeningFits, NoOpening, Waiting
  <2>6. ChildrenFit'
    BY <1>1, <2>1, <2>2 DEF SessionInv, ChildrenFit, Up
  <2>7. ClientsFit'
    BY <1>1, <1>2, <2>1 DEF SessionInv, ClientsFit
  <2>8. Accounts(session, HeldBy(opening.child, DeferredIds(0)), Up)'
    BY <1>1, <1>2, <2>2 DEF SessionInv, Accounts
  <2> QED BY <1>2, <2>4, <2>5, <2>6, <2>7, <2>8 DEF SessionInv
<1>5. ASSUME Closes PROVE SessionInv'
  <2>1. /\ closing = "begun" /\ closing' = "done" /\ opening = NoOpening /\ UNCHANGED <<child, opening>>
        /\ \A c \in Children : link[c] = "closed" => child[c] = "ended"
    BY <1>5 DEF Closes
  <2>2. SessionTyped' /\ OpeningFits' /\ ChildrenFit'
    BY <1>1, <1>2, <2>1 DEF SessionInv, SessionTyped, OpeningFits, ChildrenFit
  <2>3. ASSUME NEW c \in Children
        PROVE  child[c] \in {"none", "ended"} \/ link[c] = "failed"
    <3>1. child[c] # "spawning" /\ clients.client = None
      BY <2>1 DEF SessionInv, ChildrenFit, ClientsFit, NoOpening
    <3>2. link[c] # "open"
      BY <2>1, <3>1, ChildrenFacts DEF SessionInv, ChildrenFit, NoOpening, Waiting
    <3>3. link[c] = "none" => child[c] # "running"
      BY DEF SessionInv, ChildrenFit
    <3> QED BY <2>1, <3>1, <3>2, <3>3 DEF SessionInv, SessionTyped
  <2>4. ClientsFit'
    BY <1>1, <1>2, <2>1, <2>3 DEF SessionInv, ClientsFit
  <2>5. Accounts(session, HeldBy(opening.child, DeferredIds(0)), Up)'
    BY <1>1, <1>2, <2>1 DEF SessionInv, Accounts, HeldBy
  <2> QED BY <1>2, <2>2, <2>4, <2>5 DEF SessionInv
<1> QED BY <1>3, <1>4, <1>5

LEMMA SessionStarts ==
  ASSUME SessionInit
  PROVE  SessionInv
<1>1. NoOpening \in Brief /\ <<>> \in Seq(Frames) /\ Len(deferred) = 0 /\ deferred = <<>>
  BY ChildrenFacts DEF SessionInit, NoOpening, Brief, Resumes
<1>2. session \in Sessions
  BY ChildrenFacts DEF SessionInit, Sessions
<1>3. clients \in [client : 0..MaxChildren, openingClient : 0..MaxChildren]
  BY ChildrenFacts DEF SessionInit
<1>4. SessionTyped
  BY <1>1, <1>2, <1>3 DEF SessionInit, SessionTyped
<1>5. \A c \in Children : Untouched(session, c) /\ session.owed[c] = {}
  BY ChildrenFacts DEF SessionInit, Untouched, ToolIds
<1>6. ~Healthy /\ Up = {}
  BY DEF SessionInit, Healthy, Up
<1>7. OpeningFits
  BY <1>1, <1>6 DEF SessionInit, OpeningFits, NoOpening, Waiting
<1>8. ChildrenFit
  BY <1>5, ChildrenFacts DEF SessionInit, ChildrenFit
<1>9. ClientsFit
  BY <1>6 DEF SessionInit, ClientsFit
<1>10. Distinct
  BY <1>1 DEF Distinct
<1>11. Accounts(session, HeldBy(opening.child, DeferredIds(0)), Up)
  BY <1>6 DEF SessionInit, Accounts
<1> QED BY <1>4, <1>7, <1>8, <1>9, <1>10, <1>11 DEF SessionInv

LEMMA SessionStep ==
  ASSUME SessionInv, [SessionNext]_sessionVars
  PROVE  SessionInv'
<1>1. CASE Happens
  <2>1. ASSUME NEW c \in Children, NEW e \in ChildRequests \cup Notifications, Deliver(c, e)
        PROVE  SessionInv'
    BY <2>1, DeliverFits DEF Frames
  <2> QED BY <1>1, <2>1, RespondFits, ObserveFits, FailFits DEF Happens
<1>2. CASE SessionProceeds
  BY <1>2, EnsureFits, SettledFits, CloseFits, SpawnedFits, RespondFits, ResumeFits, FailFits,
     ToolDoneFits, EndsFits DEF SessionProceeds
<1>3. CASE UNCHANGED sessionVars
  <2>1. UNCHANGED <<child, link, clients, opening, deferred, session, closing>>
    BY <1>3 DEF sessionVars
  <2>2. SessionTyped' /\ OpeningFits' /\ ChildrenFit' /\ ClientsFit' /\ Distinct'
    BY <2>1 DEF SessionInv, SessionTyped, OpeningFits, ChildrenFit, ClientsFit, Distinct, Healthy
  <2>3. Accounts(session, HeldBy(opening.child, DeferredIds(0)), Up)'
    BY <2>1 DEF SessionInv, Accounts, HeldBy, DeferredIds, Up
  <2> QED BY <2>2, <2>3 DEF SessionInv
<1> QED BY <1>1, <1>2, <1>3 DEF SessionNext

LEMMA SessionAlwaysSound == SessionSpec => []SessionInv
<1>1. SessionInit => SessionInv
  BY SessionStarts
<1>2. SessionInv /\ [SessionNext]_sessionVars => SessionInv'
  BY SessionStep
<1> QED BY <1>1, <1>2, PTL DEF SessionSpec

\* However the household's answers, the timers, the app-server and a closing
\* race, no answer is written to an app-server that does not wait for it
\* (respond and respondError, interaction-registry.ts, native-session.ts).
THEOREM AnswersNeverStray == SessionSpec => []NoStrayAnswers
<1>1. SessionInv => NoStrayAnswers
  BY DEF SessionInv, Accounts, NoStrayAnswers
<1> QED BY <1>1, SessionAlwaysSound, PTL

\* What a connected app-server asks stays deferred, with a tool, or before
\* the household until it is answered, over every replay and restart of the
\* connection (native-session.ts).
THEOREM RequestsNeverLost == SessionSpec => []NoRequestLost
<1>1. ASSUME SessionInv PROVE NoRequestLost
  <2> SUFFICES ASSUME NEW c \in Children, NEW id \in RpcIds,
                      link[c] = "open", id \in session.owed[c]
               PROVE  \/ opening.child = c /\ \E k \in DOMAIN deferred :
                                                IsRequest(deferred[k]) /\ deferred[k].id = id
                      \/ [child |-> c, id |-> id] \in session.calls
                      \/ session.interactions = c /\ \E q \in session.entries[c] : q.id = id
    BY DEF NoRequestLost
  <2>1. Partition(session, c, IF c = opening.child THEN DeferredIds(0) ELSE {})
    BY <1>1, UpFacts
  <2>2. CASE c = opening.child /\ id \in DeferredIds(0)
    <3>1. deferred \in Seq(Frames) /\ DOMAIN deferred = 1..Len(deferred) /\ 0+1..Len(deferred) = 1..Len(deferred)
      BY <1>1, UpFacts
    <3>2. \E k \in 1..Len(deferred) : IsRequest(deferred[k]) /\ deferred[k].id = id
      BY <2>2, <3>1 DEF DeferredIds
    <3> QED BY <2>2, <3>1, <3>2
  <2>3. CASE id \in ToolIds(session, c)
    BY <2>3 DEF ToolIds
  <2>4. CASE id \in ShownIds(session, c)
    BY <2>1, <2>4 DEF Partition, ShownIds
  <2> QED BY <2>1, <2>2, <2>3, <2>4 DEF Partition
<1> QED BY <1>1, SessionAlwaysSound, PTL

\* One app-server at most is connected, and close() leaves none but those
\* that failed (ensureConnected, close, native-session.ts).
THEOREM OneAppServerAlways == SessionSpec => []OneAppServer
<1>1. ASSUME SessionInv PROVE OneAppServer
  <2>1. \A c, d \in Up : c = d
    BY <1>1, OneUp
  <2>2. Cardinality(Up) <= 1
    <3>1. CASE Up = {}
      BY <3>1, FS_EmptySet
    <3>2. CASE Up # {}
      <4>1. PICK c \in Up : TRUE
        BY <3>2
      <4>2. Up = {c}
        BY <2>1, <4>1
      <4>3. Cardinality({c}) = 1
        BY FS_Singleton
      <4> QED BY <4>2, <4>3
    <3> QED BY <3>1, <3>2
  <2>3. {c \in Children : link[c] = "open"} = Up
    BY DEF Up
  <2> QED BY <1>1, <2>2, <2>3 DEF OneAppServer, SessionInv, ClientsFit
<1> QED BY <1>1, SessionAlwaysSound, PTL
=============================================================================
