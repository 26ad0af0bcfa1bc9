-------------------------- MODULE PlannerToolCalls --------------------------
(***************************************************************************)
(* Planner tools that Codex calls while it answers                         *)
(* (server/codex/planner-effect-host.ts) over the table of calls           *)
(* (server/store/codex-thread-store.ts), against the planner ledger.       *)
(*                                                                         *)
(* A callback is identified by its turn, its call ID, its tool and its     *)
(* arguments; the app-server may deliver it again, or another one under    *)
(* the same call ID.  A host answers read, preview and apply in one go and *)
(* waits for files in an import.  Several hosts may work on one file; each *)
(* loses what it was executing when it stops.  What a query finds and      *)
(* which arguments are malformed or not authorised is data.                *)
(***************************************************************************)
EXTENDS PlannerLedger, FiniteSets

CONSTANTS
    Callbacks,   \* [turn, call, tool, request]; request only for a tool that writes
    Malformed,   \* the callbacks whose arguments or commands the contract refuses
    Covers,      \* per state, the approved weeks that exhaust its week shell
    Initial,     \* the households a file may hold at first; NoState for none
    Hosts,       \* processes that serve callbacks over one file
    CallLimit    \* calls of one turn (PLANNER_TOOL_CALL_LIMIT, 32)

Queries == {"read", "preview"}
Imports == {"importRecipe", "importApprovedWeek"}
Tools == Queries \cup Imports \cup {"apply"}

Calls == {c \in Callbacks : c.tool \notin Queries}

\* The request ID is derived from the whole identity of the callback, and no
\* other caller names the operation kinds of the native tools.
ASSUME CallbacksAssumption ==
    /\ \A c \in Callbacks : c.tool \in Tools
    /\ \A c \in Calls : c.request \in Asked \cap Mutations
    /\ \A c, d \in Calls : Key(c.request) = Key(d.request) => c = d
    /\ \A r \in Asked, c \in Calls : Key(r) = Key(c.request) => r = c.request
    /\ Malformed \subseteq Callbacks
    /\ Covers \in [States -> SUBSET Callbacks]
    /\ NoState \notin Callbacks
    /\ Initial \subseteq States \cup {NoState}
    /\ CallLimit \in Nat

VARIABLES
    rows,     \* codex_native_tool_calls, by turn and call ID
    live,     \* per host, the executions under way and the workspace they read first
    active,   \* the turns in progress
    told      \* the answers given, other than a failure to execute

callVars == <<rows, live, active, told>>
vars == <<ledgerVars, callVars>>

Slot(c) == <<c.turn, c.call>>
Slots == {Slot(c) : c \in Callbacks}
Turns == {c.turn : c \in Callbacks}

Refusals == {"VERSION_CONFLICT", "DOMAIN_REJECTED", "INVALID_ARGUMENTS", "INTERNAL_ERROR",
             "DUPLICATE_MISMATCH", "CALL_CANCELLED"}
Results == [code : {"OK"} \cup Refusals, version : 0..MaxVersion]
Result(code, version) == [code |-> code, version |-> version]
Running == [code |-> "running", version |-> 0]

NoRow == [callback |-> NoState, result |-> Running]
CallRows == [callback : Callbacks, result : Results \cup {Running}]

NotLive == [stage |-> "idle", seen |-> NoState, at |-> 0]
Executions == [stage : {"running"}, seen : States \cup {NoState}, at : 0..MaxVersion] \cup {NotLive}

Reserved(t) == {s \in Slots : s[1] = t /\ rows[s] # NoRow}

TypeOK ==
    /\ rows \in [Slots -> CallRows \cup {NoRow}]
    /\ \A s \in Slots : rows[s] # NoRow => Slot(rows[s].callback) = s
    /\ \A t \in Turns : Cardinality(Reserved(t)) <= CallLimit
    /\ live \in [Hosts -> [Callbacks -> Executions]]
    /\ active \subseteq Turns
    /\ told \subseteq [callback : Callbacks, result : Results]

Init ==
    /\ ledger = <<>> /\ verdicts = [k \in Keys |-> Undecided]
    /\ current \in Initial
    /\ rows = [s \in Slots |-> NoRow]
    /\ live = [h \in Hosts |-> [c \in Callbacks |-> NotLive]]
    /\ active = Turns
    /\ told = {}

-----------------------------------------------------------------------------
(* handle and reservePlannerToolCall *)

Row(c) == rows[Slot(c)]
Live(h, c) == live[h][c] # NotLive

\* A host is one thread: only an import lets other callbacks in.
Free(h, c) == \A d \in Callbacks \ {c} : Live(h, d) => d.tool \in Imports

\* The turn is in progress, and its model knows the version it names.  A
\* callback that is already executing on this host waits for that execution.
Delivered(h, c) ==
    /\ c.turn \in active /\ ~Live(h, c) /\ Free(h, c)
    /\ c \in Calls => c.request.base <= Version

\* The version such a refusal names is left out.
NoEntry(code) == Result(IF current = NoState THEN "INTERNAL_ERROR" ELSE code, 0)

Tell(c, result) == told' = told \cup {[callback |-> c, result |-> result]}

Replay(h, c) ==
    /\ Delivered(h, c)
    /\ Row(c).callback = c /\ Row(c).result # Running
    /\ Tell(c, Row(c).result)
    /\ UNCHANGED <<ledgerVars, rows, live, active>>

RefuseReuse(h, c) ==
    /\ Delivered(h, c)
    /\ Row(c) # NoRow /\ Row(c).callback # c
    /\ Tell(c, NoEntry("DUPLICATE_MISMATCH"))
    /\ UNCHANGED <<ledgerVars, rows, live, active>>

RefuseOverLimit(h, c) ==
    /\ Delivered(h, c)
    /\ Row(c) = NoRow /\ Cardinality(Reserved(c.turn)) >= CallLimit
    /\ Tell(c, NoEntry("CALL_CANCELLED"))
    /\ UNCHANGED <<ledgerVars, rows, live, active>>

\* The execution reads the workspace first.
Execute(h, c) ==
    live' = [live EXCEPT ![h][c] = [stage |-> "running", seen |-> current, at |-> Version]]

FaultReserveOverLimit(h, c) ==
    /\ Delivered(h, c)
    /\ Row(c) = NoRow
    /\ rows' = [rows EXCEPT ![Slot(c)] = [callback |-> c, result |-> Running]]
    /\ Execute(h, c)
    /\ UNCHANGED <<ledgerVars, active, told>>

Reserve(h, c) ==
    /\ Delivered(h, c)
    /\ Row(c) = NoRow /\ Cardinality(Reserved(c.turn)) < CallLimit
    /\ rows' = [rows EXCEPT ![Slot(c)] = [callback |-> c, result |-> Running]]
    /\ Execute(h, c)
    /\ UNCHANGED <<ledgerVars, active, told>>

FaultRefuseRecovery(h, c) ==
    /\ Delivered(h, c)
    /\ Row(c).callback = c /\ Row(c).result = Running
    /\ Tell(c, NoEntry("DUPLICATE_MISMATCH"))
    /\ UNCHANGED <<ledgerVars, rows, live, active>>

\* A call whose execution was lost, or runs on another host.
Recover(h, c) ==
    /\ Delivered(h, c)
    /\ Row(c).callback = c /\ Row(c).result = Running
    /\ Execute(h, c)
    /\ UNCHANGED <<ledgerVars, rows, active, told>>

-----------------------------------------------------------------------------
(* #execute, #runTool and completePlannerToolCall *)

Proceeds(h, c) == Live(h, c) /\ Free(h, c)
Stop(h, c) == live' = [live EXCEPT ![h][c] = NotLive]

FaultCompleteAgain(h, c, result) ==
    /\ rows' = [rows EXCEPT ![Slot(c)].result = result]
    /\ Tell(c, result)
    /\ Stop(h, c)
    /\ UNCHANGED active

\* The first completion counts; a later one answers with it (#completeOrReplay).
Complete(h, c, result) ==
    /\ rows' = [rows EXCEPT ![Slot(c)].result = IF @ = Running THEN result ELSE @]
    /\ Tell(c, rows'[Slot(c)].result)
    /\ Stop(h, c)
    /\ UNCHANGED active

\* A failure names the version that was read first.
Refuse(h, c, code) ==
    Complete(h, c, IF live[h][c].seen = NoState THEN Result("INTERNAL_ERROR", 0)
                                               ELSE Result(code, live[h][c].at))

AnswerQuery(h, c) ==
    /\ Proceeds(h, c) /\ c.tool \in Queries /\ live[h][c].seen # NoState
    /\ \/ \E code \in {"OK", "DOMAIN_REJECTED"} : Complete(h, c, Result(code, live[h][c].at))
       \/ c.tool = "preview" /\ Complete(h, c, Result("VERSION_CONFLICT", Version))
    /\ UNCHANGED ledgerVars

\* The household is not set up, or the arguments are refused.
RefuseCall(h, c) ==
    /\ Proceeds(h, c)
    /\ live[h][c].seen = NoState \/ c \in Malformed
    /\ Refuse(h, c, "INVALID_ARGUMENTS")
    /\ UNCHANGED ledgerVars

\* A recipe file is missing, unsafe or of another revision.
RefuseRecipe(h, c) ==
    /\ Proceeds(h, c) /\ c.tool \in Imports /\ c \notin Malformed
    /\ Refuse(h, c, "INVALID_ARGUMENTS")
    /\ UNCHANGED ledgerVars

Runs(h, c) ==
    /\ Proceeds(h, c) /\ c \in Calls \ Malformed
    /\ live[h][c].seen # NoState

\* The targets are compared with the week shell that was read first.
Covered(h, c) == c.tool = "importApprovedWeek" => c \in Covers[live[h][c].seen]

RefuseWeek(h, c) ==
    /\ Runs(h, c) /\ ~Covered(h, c)
    /\ Refuse(h, c, "DOMAIN_REJECTED")
    /\ UNCHANGED ledgerVars

Outcome(decision) ==
    CASE decision.status = "accepted" -> Result("OK", decision.version)
      [] decision.status = "version_conflict" -> Result("VERSION_CONFLICT", decision.version)
      [] OTHER -> Result("DOMAIN_REJECTED", Version)

FaultRebase(h, c) ==
    /\ Runs(h, c) /\ Covered(h, c) /\ Row(c).result = Running
    /\ Version < MaxVersion
    /\ DecideRequest([c.request EXCEPT !.base = Version])
    /\ Complete(h, c, Outcome(verdicts'[Key(c.request)].decision))

FaultCompleteLater(h, c) ==
    /\ Runs(h, c) /\ Covered(h, c) /\ Row(c).result = Running
    /\ DecideRequest(c.request)
    /\ Stop(h, c)
    /\ UNCHANGED <<rows, active, told>>

\* The service decides the request in the transaction that completes the call.
TakeEffect(h, c) ==
    /\ Runs(h, c) /\ Covered(h, c) /\ Row(c).result = Running
    /\ DecideRequest(c.request)
    /\ Complete(h, c, Outcome(verdicts'[Key(c.request)].decision))

FaultKeepLostEffect(h, c) ==
    /\ Runs(h, c) /\ Covered(h, c) /\ Row(c).result # Running
    /\ Tell(c, Row(c).result)
    /\ Stop(h, c)
    /\ IF Open(c.request) THEN DecideRequest(c.request) ELSE UNCHANGED ledgerVars
    /\ UNCHANGED <<rows, active>>

\* Another host has completed the call: the transaction is rolled back.
LoseCompletion(h, c) ==
    /\ Runs(h, c) /\ Covered(h, c) /\ Row(c).result # Running
    /\ Tell(c, Row(c).result)
    /\ Stop(h, c)
    /\ UNCHANGED <<ledgerVars, rows, active>>

\* The transaction fails: no result, but for an approved week.
Throw(h, c) ==
    /\ Proceeds(h, c)
    /\ \/ c.tool = "importApprovedWeek" /\ Refuse(h, c, "INVALID_ARGUMENTS")
       \/ Stop(h, c) /\ UNCHANGED <<rows, active, told>>
    /\ UNCHANGED ledgerVars

-----------------------------------------------------------------------------
(* The world around the host. *)

\* Another caller changes the household.
Elsewhere(r) == DecideRequest(r) /\ UNCHANGED callVars

\* The turn completes or is interrupted; what it called goes on.
EndTurn(t) ==
    /\ t \in active
    /\ active' = active \ {t}
    /\ UNCHANGED <<ledgerVars, rows, live, told>>

\* A host stops, and one that takes its place starts with nothing under way.
Restart(h) ==
    /\ \E c \in Callbacks : Live(h, c)
    /\ live' = [live EXCEPT ![h] = [c \in Callbacks |-> NotLive]]
    /\ UNCHANGED <<ledgerVars, rows, active, told>>

Native == {c.request : c \in Calls}

Answer(h, c) ==
    \/ Replay(h, c) \/ RefuseReuse(h, c) \/ RefuseOverLimit(h, c)
    \/ Reserve(h, c) \/ Recover(h, c)

Finish(h, c) ==
    \/ AnswerQuery(h, c) \/ RefuseCall(h, c) \/ RefuseRecipe(h, c) \/ RefuseWeek(h, c)
    \/ TakeEffect(h, c) \/ LoseCompletion(h, c)

Next ==
    \/ \E h \in Hosts : Restart(h) \/ \E c \in Callbacks : Answer(h, c) \/ Finish(h, c) \/ Throw(h, c)
    \/ \E r \in Asked \ Native : Elsewhere(r)
    \/ \E t \in Turns : EndTurn(t)

Spec == Init /\ [][Next]_vars

\* An app-server that keeps delivering the calls of a turn in progress finds a
\* host that carries them on: not every execution is cut short or fails.
FairSpec ==
    /\ Spec
    /\ SF_vars(\E h \in Hosts, c \in Callbacks : Recover(h, c))
    /\ SF_vars(\E h \in Hosts, c \in Callbacks : Finish(h, c))

-----------------------------------------------------------------------------
(* Properties. *)

\* A change that Codex made is recorded by its call, and a call that succeeded
\* made the one change it names: however often it was delivered, lost or
\* recovered, no effect is unrecorded or duplicated (#applyOperations and
\* completePlannerToolCall share a transaction).
EffectsRecorded ==
    /\ \A c \in Calls, i \in 1..Version :
         Key(ledger[i].request) = Key(c.request) =>
           Row(c) = [callback |-> c, result |-> Result("OK", i)]
    /\ \A c \in Calls : Row(c).callback = c /\ Row(c).result.code = "OK" =>
         Row(c).result.version \in 1..Version /\ ledger[Row(c).result.version].request = c.request

\* Whoever asked for a call that has an entry was told what the entry says:
\* one answer, however many hosts executed it (#completeOrReplay).
AnswersStored ==
    \A a \in told : Row(a.callback).callback = a.callback => Row(a.callback).result = a.result

\* A callback that was refused, for any reason, has no effect then or later.
RefusedHasNoEffect ==
    \A a \in told : a.callback \in Calls /\ a.result.code # "OK" =>
        \A i \in 1..Version : ledger[i].request # a.callback.request

\* An approved week replaced a week whose shell it exhausts, although the shell
\* is compared before the files are read and outside the transaction (#runTool).
WeekReplacedAsChecked ==
    \A c \in Calls, i \in 1..Version :
        c.tool = "importApprovedWeek" /\ Key(ledger[i].request) = Key(c.request) =>
          c \in Covers[ledger[i].before]

\* Codex's changes are accounted for by its calls, and its weeks replaced what they
\* were checked against.
EffectsAccounted == EffectsRecorded /\ WeekReplacedAsChecked

\* The calls of a turn in progress do not stay running for ever.
CallsSettle ==
    []<>(\A c \in Callbacks : c.turn \in active => Row(c) # [callback |-> c, result |-> Running])
=============================================================================
