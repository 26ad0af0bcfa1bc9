# Verification of the weekly recipe planner

TLA+ models of the household planner in this repository, the TLC runs that
check them on small instances, and the theorems TLAPS proves for every
instance. Paths below are relative to `src/`.

The program is a family planner with one authority: a Node process that owns a
SQLite file. Browsers change the household by posting commands over HTTP and
show it by polling. A Codex app-server child process holds the conversations;
the model changes the household through planner tools that run in the
authority. Almost every rule worth checking is about the same question: *a
request whose answer was lost, duplicated or late, or a process that died in
the middle: what happened, what does each party believe happened, and can the
belief be wrong?*

## 1. Inventory

| component | state it keeps | operations | who it talks to |
|---|---|---|---|
| Planner application service (`server/application/planner-service.ts`) | none of its own: every call is one store transaction | `applyCommand`, `applyOperations`, `applyPlannerOperations`, `applyApprovedWeekImport`, `undoLatest`, `bootstrap`, `replayHistorical`, `preview`, `readWorkspace`, `exportWorkspace` | store, household reducer; called by HTTP, the effect host, the global port |
| SQLite store (`server/store/sqlite-store.ts`) | workspace row, planner events, mutation receipts, schema version; retired chat tables | transactions, row operations, ordered migrations, write reservation | the database file |
| Codex thread store (`server/store/codex-thread-store.ts`) | selection, turn and thread-start admissions, mutation receipts (at most 256), planner tool calls | begin / complete / clear admission, compare-and-set selection, reserve / complete tool call | same file, same transactions |
| Native thread service (`server/codex/thread-service.ts`) | per-key lock, replay maps | `newThread`, `selectThread`, `archiveThread`, `sendTurn`, `readThread`, `listThreads`, interrupt, respond | native session, thread store |
| Native session (`server/codex/native-session.ts`) | child process, active turns, history snapshots, generation | start / stop, thread and turn RPCs, notifications | app-server client, interaction registry, effect host |
| App-server client (`server/codex/app-server-client.ts`) | pending requests (at most 128), failure latch | request with timeout, respond, close | child process over JSONL |
| Interaction registry (`server/codex/interaction-registry.ts`) | pending user-input requests (at most 64) and their timers | register, answer, expire, resolve, close | app-server client, browser |
| Planner effect host (`server/codex/planner-effect-host.ts`) | live executions by callback identity | `handle` for read, preview, apply, imports | thread store, application service |
| Browser client (`app/planner-client.tsx`, `planner-api.ts`, `authority-operation-journal.ts`, `versioned-draft.ts`) | recovery journal in session storage, query cache, last workspace, drafts | compose, replay, replace, discard, poll, refresh | HTTP API |
| Browser threads (`app/codex-thread-source.ts`, `codex-thread-api.ts`) | selected thread, history pages, optimistic items | select, send, poll, interrupt | HTTP API |
| HTTP and global ingress (`server/http`, `server/global-ingress`) | sockets, CSRF/session shape | route, validate, map failures | application service, thread service |
| Household domain (`lib/household-domain.ts` and the projections and contracts of `lib`) | none: pure reducers over the household | one reducer per command, validation, projections | application service, browser |
| Codex executable (`server/runtime/codex-follow-up`) | readiness, the execution in use, its replacements, evidence and copies on disk | evaluate, remember, spawn, reevaluate, copy, prune | native session, the file system, the updater |
| Planner process (`server/runtime`) | start order, launch configuration, retention budgets | start, stop | all server parts |
| Runtime ownership, release and recovery scripts (`scripts`) | owner socket, release slots, journals of a promotion, launchd job | acquire / release lease, promote, roll back, recover, supervise | file system, processes |
| Left aside: UI components, styles, Storybook and agent skills, documents, generated or vendored data, the build, `worker`, tests | | | |

### How the parts interact

* A browser mints a request ID, writes the envelope to its journal, then posts
  it. The authority decides it in one `BEGIN IMMEDIATE` transaction that reads
  the receipt, compares the version, runs the reducer, and writes workspace,
  event and receipt together. The answer may be lost, the envelope may arrive
  twice, and another page may have changed the household in between.
* A page learns of changes by a conditional poll every two seconds, by the
  readback of its own commands, and by forced refreshes; the three share one
  query cache and one "last applied workspace".
* A Codex turn is admitted durably before the native RPC that starts it, and
  its receipt is committed together with the clearance of the admission. What
  happened to an RPC that timed out is found out from the native history.
* A planner tool call reserves a row, takes effect through the same service as
  a browser, and completes the row in the transaction of the effect.
* The app-server is one child process, opened on demand; what it asks - tools,
  questions for the household - comes in the same stream as its answers and
  notifications, and is lost or kept when it fails or is replaced.
* The file behind the Codex launcher updates itself. The planner evaluates what
  it finds, runs only a private copy of the bytes it accepted, and evaluates
  again when either changes.
* One process may own the database: the owner holds a Unix socket whose stale
  file is recovered under an advisory lock. A start upgrades an older file over
  several transactions before it serves.

### What makes each part correct, and what makes that hard

* **Service and store.** One effect per request ID, whatever is retried or
  crashes; versions are contiguous and each event keeps the state it replaced,
  so that undo restores it; batches are all or nothing. Hard: interleaved
  callers, a crash between any two row writes, reused IDs with other payloads.
* **Browser.** A change the user made is never silently forgotten, never done
  twice, and what the page composes against never goes backwards. Hard: lost
  answers, two posts of one envelope, reloads, refusals of a copy whose twin
  was accepted, cancelled and paused reads that keep running.
* **Threads and turns.** A message lands in native history at most once,
  receipts name the turn that holds the message, two owners never act on one
  thread. Hard: timeouts with late effects, ambiguous errors, restarts
  between admission, RPC and receipt.
* **Tool calls.** At most one effect per callback identity, and one answer.
  Hard: crashes between reservation and completion, replays while running.
* **Session.** At most one app-server is connected; what it asks is answered
  once, to that app-server and no other. Hard: an opening that fails while
  frames wait, a timer against an answer against a restart, ids that start over.
* **Executable.** Only accepted bytes run. Hard: check-then-use against an
  updater, several starts that share one copy, a kill in the middle of one.
* **Ownership and release.** At most one process holds the lease, a stale
  socket is recoverable, a promotion that stops anywhere can be resumed or
  rolled back. Hard: check-then-act on the file system.
* **Domain.** Reducers preserve the household's invariants and reject without
  effect; projections agree with the state they project.

## 2. Modules

| module | what it models | uses |
|---|---|---|
| `PlannerRequests` | vocabulary: households, commands, requests, decisions, the reducer as a constant function | |
| `PlannerLedger` | **abstract specification** of the authority: a ledger of accepted requests and one verdict per request ID | `PlannerRequests` |
| `PlannerAuthority` | the application service over the store, statement by statement inside a transaction | `PlannerRequests`; refines `PlannerLedger` |
| `HouseholdWeeks`, `HouseholdRecipes`, `HouseholdCatalogue`, `InstructionTimers` | the reducer that `PlannerRequests` leaves open: every household command | |
| `HouseholdBrowser` | pages, their journal, the network, the authority as the ledger | `PlannerLedger` |
| `WorkspaceView` | what one page shows: polls, readbacks, refreshes, offline | |
| `ThreadFeed` | how a page follows the shared Codex selection: event feed, long polls, loads, mutations | |
| `CodexThreads` | conversations: admissions, receipts and selection in SQLite, the native calls and their late effects | |
| `NativeSession` | the connection to the app-server: openings, frames, failures, tools and questions | |
| `PlannerToolCalls` | planner tools called by Codex: the call table, the hosts, the authority as the ledger | `PlannerLedger` |
| `CodexRuntime` | which Codex executable is trusted, and when it may be started | |
| `ExecutableSnapshots` | the private copies of the executable that are run | |
| `RuntimeOwnership` | the writer lease on a Unix socket, one system call at a time | |
| `ReleaseLifecycle` | promotion and recovery of the installed release: slots, launchd job, schema transition | |
| `StoreMigration` | the upgrade of an older database at a start, over several transactions | |
| `PlannerAuthorityProofs`, `PlannerLedgerProofs`, `PageProofs`, `CodexThreadsProofs`, `CodexExecutableProofs`, `ServerProofs`, `HostProofs`, `HouseholdProofs` | the theorems (section 5) | the modules above |
| `MCPlannerAuthority`, `MCHouseholdBrowser`, `MCCodexThreads`, `MCToolCalls`, `MCHousehold` | small instances | |
| `MCPage`, `MCCodex`, `MCCodexHost`, `MCHost`, `MCServer` | compositions that TLC checks in one run | |

In every module a definition named `Fault...` is a plausible bug of the
definition that follows it. No specification uses one; each replaces its
original to show that a property can fail.

A composition puts components of one process or machine side by side. They
share no variable in the model - where the code connects them, the model of one
has the other as a constant or an abstract specification - so a behaviour moves
one part, which the variable `part` names, and the others rest in one initial
state. A run of the composition is therefore exactly the runs of its parts.

### PlannerAuthority

State: `db` is the committed file (workspace row, events, receipts), `txn` the
open transaction with its uncommitted copy and its program counter, `answers`
everything a caller was ever told. The actions are the statements of
`applyPlannerOperations`, `undoLatest` and `bootstrap` in their order: `Begin`
(`transaction`, `BEGIN IMMEDIATE`), `ReplayReceipt` / `MissReceipt` /
`Throw` (receipt lookup: same payload answers the stored decision, another
payload is refused), `RejectBase`, `StartBatch`, `ExecuteOperation`,
`RejectOperation`, `UpdateWithBatch`, `RejectUndo`, `UpdateWithUndo`,
`RejectBootstrap`, `InsertWorkspace`, `InsertEvent`, `InsertReceipt`,
`Commit`, and `Rollback`, which stands for a crash, a thrown error or a failed
`validateState` at any point. A single writer is what SQLite gives: a second
`BEGIN IMMEDIATE` waits or fails with `UNAVAILABLE` and leaves no trace, so it
is no action. The reducer is a constant `Effect`, so that the theorems hold for
every household domain; its ids and clock are part of what it is a function of.
Preview, history and export only read and have no action.

### PlannerLedger and the refinement

The abstract authority decides a request in one step: accept and extend the
ledger, or record a refusal, at most once per request ID. `PlannerAuthority`
implements it with the committed file as the ledger: only `Commit` moves it,
every other step, a crash included, stutters. The modules of the callers use
the ledger as their authority.

### HouseholdBrowser

`journal[b]` is the page's recovery journal (one operation, as `prepared`,
`ambiguous` or `resolved_conflict`), `post[b]` the POST in flight with its
attempt, `wire` the copies in the network. `postJson` posts an envelope twice
at most; `LoseFirst` / `LoseSecond` are a transport failure seen by the page
while the copy stays in the network and may still be served. `ReceiveAccepted`,
`ReceiveRefusal`, `ReceiveConflictAndRecompose`, `ReceiveUnavailable` and
`ReceiveUnreadable` are the answers; `ReplayPending`, `ReplaceResolved` and
`Discard` the buttons of the recovery notice; `Reload` loses the POST and keeps
the journal, as session storage does. The authority is `PlannerLedger`:
`Serve` decides a copy with `DecideRequest` or replays its verdict. `sent`,
`told`, `givenUp` and `unsure` record history for the properties; `unsure` are
the requests a page was told the authority was unavailable for, which
`ChangesAccounted` leaves to finding 1. The household is set up by one of the
pages or was before. A page that is closed is a page that stops; damage to
session storage is not modelled. How far a page's view lags is not modelled
here: a request is composed against any version up to the current one.

### WorkspaceView

The revision of the authority, up to two reads (one the query library has
given up on may still run: its query function takes no abort signal), the
stored ETag, the cache, `workspaceRef` and a command in flight. TanStack Query
is external and modelled from how `planner-client.tsx` uses it: a refresh
cancels the read in flight, fetches pause offline and resume online. The cache
may go back for the moment between an arriving poll and the effect that brings
`workspaceRef` up to date; what the page composes against never does.

### ThreadFeed

The server's half is the event feed of `native-session.ts`: `epoch`,
`revision`, a bounded `events`, and one long poll of the page (`waitForEvents`,
`#eventResponse`, the waiter and its timer). The page's half is
`codex-thread-source.ts`: `loads` (a list, then a read, repeated while the two
disagree; only the newest load may commit), the subscription `loop`, the
mutation `op` under way and the `attempts` kept for a retry, `page` and
`cursor`. `OthersSelect`, `Notified` and `AppServerFails` are what else moves
the feed; the last starts a new epoch and takes the blank conversations along.
`LoseLoad`, `LosePoll` and `LoseMutation` are failed requests, `StartPage` and
`StopPage` a page that is shown and hidden. `effects` counts, for the property, the
effects of a wish that is unresolved.

A read's coordinates are those after every frame of its chunk, as in the code,
where the response goes on after them. `refreshInteractions` and
`waitForChange` have no caller and are left out, as is a send from "empty".
`TabsConverge` leaves out a page that shows a new conversation without a
message: its events may all concern a selection that the answer, not a load,
put there, and the code leaves such a page where it is.

### CodexThreads

`selection`, `starting`, `admitted` and `receipts` are the four tables of
`codex-thread-store.ts`; `fence` the in-memory replay map of the service, `op`
the operation that holds the lock `selection`, `listing` the end of
`listThreads`, which runs outside the lock. `status`, `maker`, `active` and
`history` are the app-server's conversations, `wire` the native mutations under
way. Every operation first reconciles (`NothingStarting` .. `AmbiguousStart`,
then `NothingAdmitted` .. `HistoryDisagrees`), as `#reconcileThreadStartAdmission`
and `#reconcileTurnAdmission` do, then acts: `Admit`, `CallTurn`, `ReceiveTurn`,
`ConfirmTurn` for `sendTurn`; `AdmitNew`, `CallNew`, `ReceiveThread` for
`newThread`; `SetSelection`, `CallArchive`, `DeselectArchived`, `SelectDefault`
and `ClearMissingSelection` for the selection. A failed app-server
(`AppServerFails`, also a call that times out) leaves its calls behind, and they
may still take effect (`WriteLate`, `CreateThread`) or not (`Vanish`): the
client signals the process and does not wait for it.

Abstractions: owner identities are left out because one planner runs at a time
(`RuntimeOwnership`) and adopts what it finds; a payload hash is the request
itself; select, archive, read and list carry fresh IDs; interrupting a turn is
`EndTurn`; answering a question has only the reconciliation every operation
has; conversations are ordered by creation, which the code does by seconds.

### NativeSession

`child` and `link` are the app-server processes and their clients, `clients`
the two the session holds, `opening` the `#openClient` under way with what it
waits for, `deferred` the frames that came meanwhile, `session` the maps:
eligible `roots` and `active` turns, the questions of each registry
(`entries`), the `calls` in the hands of a tool, and for each app-server the
request IDs it waits for (`owed`), which the code does not keep. `Deliver` is
one frame (`#handleServerRequest`, `#handleNotification`, or deferring with
its two limits), `Fail`, `Timeout` and a handler that throws
(`thrown`) end a client through `#signalFailure` and `#handleFailure`,
`Respond` and `Resume` are a response and the code that waited for it:
initialisation, hydration page by page with a read of each unclear
conversation, and `FinishOpening`, which replays what was deferred until a
frame throws. `ToolDone`, `AnswerInteraction` and `Expire` answer; `Close`,
`Ends`, `Rejects` and `Closes` end it. `stray` records an answer written to an
app-server that does not wait for it.

What waits for a response runs after the other frames of the chunk and before
anything else: `resume` says so and `Rested` is its guard. A client that failed
in between is made the session's all the same (`native-session.ts:1013`); it
is kept as the code has it. A failed app-server is sent SIGTERM and may live on.
That a continuation may learn a conversation again that was forgotten in its
chunk, the eligibility of sub-agent threads, materialisation and the bindings
of completed messages are left out; `openedDuringClose` cannot become true.

### PlannerToolCalls

`rows` is `codex_native_tool_calls` by turn and call ID, `live[h]` the
executions under way in host `h` with the workspace each read first, `active`
the turns in progress, `told` the answers given. Several hosts over one file
are two processes, as in `tests/codex-native-planner-effect.test.mjs`, or one
before and after a restart. A callback is `Replay`ed, refused (`RefuseReuse`,
`RefuseOverLimit`), `Reserve`d or `Recover`ed; its execution answers a query,
is refused, or takes effect and completes its row in one transaction
(`TakeEffect`), which is rolled back if another host has completed the call
(`LoseCompletion`). Read, preview and apply run in one go on a host's single
thread; an import waits for files (`Free`). What was accepted from a turn that
was interrupted meanwhile may still take effect, and is recorded. The request
ID of an effect is derived from the whole identity of its callback
(`CallbacksAssumption`). What a query finds, and which arguments are malformed
or not authorised, is data; versions of refusals that leave no row, and the
replay of calls stored with a receipt only, which reads, are left out.

### CodexRuntime and ExecutableSnapshots

`disk` is the executable behind the launcher, its content and the stamp of its
file, `config` the Codex configuration; `Update` and `Edit` change them at any
time. `evaluation` is the one under way with its stage (`Validate`, `Capture`,
`Generate`, `PruneBundles`, `PublishSchema`, `Probe` or `Reusable` evidence,
`ReadBack`, `Accept`, `RememberAccepted`, `Ready`), `published` and `accepted`
the evidence on disk, `bundles` the schemas beside it and `torn` those that a
removal has left in part, `execution` what is handed out, `replacement` the
evaluation that a changed execution caused, `spawns` the calls of
`spawnAppServer`. `Generate` is the rename that names a schema
(`compatibility.ts:1248`), `PruneBundles` the removals after it (`:1262`), and
`PruneInPart` those removals when one fails or the planner is killed among
them: any of them may be left, whole or torn. `BundlesKept` therefore bounds the
number only where an execution is there, whose evaluation has pruned. Removals
that go on after one has failed are taken to be over before a later evaluation,
which runs the executable twice first, prunes again. `Stale` finds the execution
changed, and `CopyFails` fails to make the copy that would run, which the
launcher reports as a change too (`launcher.ts:645`, counted by `spoiled`);
both send their caller to the shared evaluation. `Check`, `Open` and `Run` bind
and start. `started` and `reevaluated` are history. `Fail` ends an evaluation anywhere and leaves any
readable evidence: more than the code can leave. A failure to read a file
counts as an edit. An app-server may still start after the runtime is closed,
as in the code.

`ExecutableSnapshots` opens the step "start a copy": `final` are the directories
named by a hash, `prepared` those under a process ID, `starts` the system call
each start makes next. The updater writes between any two, several starts share
a copy while one prunes, a process is killed in the middle of writing one and
its ID is used again.

### RuntimeOwnership

`at[p]` is the system call process `p` makes next, `path` the socket file with
the bit "its mode is 0600", `bound[p]` the socket a process has bound, `seen[p]`
the identity it has read, `guard` the advisory lock. `Start`, `Lock`,
`LookAgain`, `Identify`, `Probe`, `Compare`, `Unlink`, `Bind`, `Listen`,
`Chmod`, `Confirm` are `acquireRuntimeOwnershipLease` call by call, each
with its refusal; `Close`, `Unbind`, `Shut`, `Finish` are `lease.close`; `Fail`
is an error on the new socket; `Crash` kills a process anywhere. A process that
found no path takes no lock: this is modelled, and is why the mode matters. A
socket that is bound and not listening refuses connections exactly as a stale
one does, and only its mode tells them apart. The runtime unlinks a server's
name before it closes it; the second removal in `lease.close` therefore never
finds its own identity, so its two calls are one step. Assumed: the file system
does not reuse an inode number that somebody still remembers (true of the
deployment's APFS), and nothing else touches the directory.

### ReleaseLifecycle

`slots` is the build in each of the four directories under `~/meal-planner`
(`app`, `app.previous`, `.app-staging`, `.app-retiring`); `svc` the launchd job
with the build its process runs, which need not be the one in `app`; `data` the
schema and the planner version of the database; `op` the command that runs.
Each action is one call of `production-release.mjs` or of the adapters
`direct-deploy.mjs` and `recover-deployment.mjs` give it: `Promote`, `Prepare`,
`Preflight`, `Quiesce`, `Transition`, one `Move` per rename, `Bootstrap`,
`Ready` / `TimesOut`, `Clean`; `Recover`, `Normalize` (the decision table of
`recoveryTopologyDecision`), `NotReady`; and for each the ways it fails. Every
call can fail or be killed before the next (`Kill`, `Restart`), and `Caught`
says where its exception lands. `op.phase` names the function a call belongs to:
`select` the promotion, `undo` its restoration (`transition.restore` and
`restorePromotionTopology`), `normalize` and `establish` recovery, `fallback`
(`fallbackFromUnreadyApp`), `keep` its last rename, `reverse`
(`restoreAfterFailedFallback`). A rename refuses a missing source and a name
that is taken. A failed stop (`QuiesceFails`) may leave the job, a process that
outlives it, or nothing.

Without the command's help launchd starts whatever is in `app` (`Start`), a
build that carries the current schema migrates the database it opens, the
household writes through whatever process serves it, and processes die. One
command runs at a time, by the lease of `RuntimeOwnership`. `op.begun`,
`op.accepted` and `op.hurt` are history for the properties. Builds are numbers;
one that is in no slot and does not run may be promoted again as a new one. The
planner version stands for what the household wrote: writes to the tables of
conversations, which the restoration does not compare, are not tracked.
`validateSources` is wired to nothing in production and is left out; the
removal of legacy backups is a part of `Clean` that changes no modelled state.

### StoreMigration

`file` is the database: schema, WAL and SHM files beside it, the upgrades its
plan and its stored answers have had; `copies` the backups; `start` the place of
the start under way in `openPlannerStore`. `Begin`, `CheckOld`, `OpenWriter`,
`BeginCopy`, `FinishCopy`, `Readback`, `Migrate` (one version, one
transaction), `FinishMigrations`, `NormalizeRows`, `Upgrade`, `Validate` are its
transactions and the checks between them; `FailStart` and `KillStart` end a
start anywhere, `Stop` a planner that serves. A file that cannot be upgraded
(`born.sound`) or that holds an answer of the embedded Codex (`born.embedded`)
is a birth too. `StoreOpens` is stated of files born with schema 10 or later:
a kill at schema 9 leaves a WAL beside the file, and `:507` then refuses every
start until somebody has looked at it.

### The household commands

`HouseholdWeeks`: the weeks with their meals, leftovers, feedback and lesson; an
action is one command of `executeHouseholdCommand` from its first check to the
validation of the state it computed (`FinishWeeks`, `ValidWeeks`), which may
refuse it. `HouseholdRecipes`: the ingredient rows and steps of the meals of one
week, the shopping list projected from the rows (`Reconcile`), and the prep
dates with their direct and combined entries, whose sources `Invalidate`s an
edit; `written` remembers what the sources said when an instruction was written.
`HouseholdCatalogue`: concepts, the rows linked to them, and the review by
which a page previews candidates in batches and applies its decisions, while
others change the catalogue and the newest change is undone.
`InstructionTimers`: the timer of one step over a clock of half seconds; `given`,
`ran` and `pauses` are history. Titles, notes, amounts and sources are left out;
a row's amount, unit and qualifier are one `detail`.

An undo brings back the state before the newest change (`undoLatest`,
`planner-service.ts:780`): `weeksBefore`, `recipesBefore` and `basis` hold it, at
most one, and none after an undo.

`MCHousehold` runs one of the four parts at a time. Two of them meet in the rows.
What a row reads - word and detail - is in `HouseholdRecipes`; what it is linked
to is in `HouseholdCatalogue` alone, whose merges and decisions rewrite links in
every week and meal, archived and cooked ones included
(`household-domain.ts:1391`, `:1294`), and never what a row reads. `PastKept`
is therefore stated of what rows and instructions say, not of their links. A row
that a decision creates is, in the recipes, one of `AddIngredientOccurrence`. Each part
counts its own newest change, so that the undo of one may come after a command
of another, which the code would not allow: more than it can do. The page gives
its decisions in batches; a batch of another caller is its decisions one by one
(`AddResolvedRow`, `ResolveIngredientOccurrence`), without the refusal of all
for one of them.

## 3. Runs

| run | specification and instance | shows |
|---|---|---|
| `authority` | `MCPlannerAuthority`: 2 entries, 3 commands (one preview-only), batches up to 2, undo, bootstrap, 2 request IDs, 3 versions | undo restores, effects match receipts, answers are stored decisions, history is immutable, and the service implements `PlannerLedger`, under any interleaving of replays and crashes |
| `page` | `MCPage`, fair: 2 pages with 2 IDs and 2 copies; one page's view over revisions 0..2; a page that follows 2 conversations and a new one, 3 disturbances | a wish pressed again lands once; no refused change has an effect unless the authority was unavailable and none in effect is forgotten; what a page composes against never goes back; polling catches up, the page converges on the shared selection, a pending change is resolved |
| `codex` | `MCCodex`: 2 conversations that are new, a message and one that reuses its ID, 3 calls, a failure; 4 builds and 2 contracts for one caller, 2 builds for two callers; 2 starts that copy 2 builds under one process ID | messages land once, answers are truthful, a message under way keeps its conversation fenced, a list clears only what it probed; only accepted builds and accepted bytes run, one reevaluation per execution, the evidence's bundles are kept |
| `codex_host` | `MCCodexHost`, fair: one call on two hosts; a message, the same under another ID, another under the same ID; two callers of an executable that changes once | calls of a turn in progress settle, a message that landed is settled, every start ends |
| `host` | `MCHost`, fair: 2 processes, 3 sockets, 3 kills; 1 or 2 releases, 2 candidates, either schema, any of 3 builds broken, 2 accidents; files born with any of 8 schemas, 3 mishaps | one lease holder, whose socket stays at the path, and what a killed one left is recovered; outcomes are as reported, no write is taken back, a fixed slot stays, recovery brings a sturdy pair back; no file is lost or served half upgraded, and starts succeed in the end |
| `server` | `MCServer`: 2 weeks of 3 days, up to 5 commands and undos; 2 meals with 2 rows and 2 steps each, 3 edits and undos; 2 concepts, 3 words, 3 versions; 9 half seconds; 4 callbacks on 2 hosts, 1 row per turn; 2 app-servers that use the same request ID, 3 events | every effect of Codex is recorded by its call; no answer goes to an app-server that does not wait for it and no request is lost; the household's leftovers, prep, catalogue, timer, shopping marks and past stay right |
| `browser_unavailable` | `MCHouseholdBrowser`, 4 IDs | **violation**, finding 1 |
| `page_replay` | `ThreadFeed`, 1 conversation and a new one | **violation**, finding 2 |
| `codex_absent` | `MCCodexThreads`, 1 message, 1 failure, fair | **violation**, finding 3 |
| `release_recovers` | `ReleaseLifecycle` | **violation**, finding 4 |
| `household_leftovers` | `MCHousehold` | **violation**, finding 5 |
| `store_answers` | `StoreMigration`, a file of schema 8, 1 mishap | **violation**, finding 6 |

Bounds. In `authority` two request IDs of three kinds (an ID may be reused with
another payload or kind) and three versions give an accepted change, one that
conflicts with it and an undo of it; two entries let a batch publish a prefix
and an undo restore something other than the last write. In `page` two copies
are the most `postJson` sends for an attempt, and also let a replay overlap with
a late first attempt; two read slots are one live read and one abandoned; an
event history of one is forgotten at once. In `CodexThreads` one receipt is
kept, so that pruning happens at once; two conversations make an ambiguous
start; `MaxCalls`, `MaxRevision`, `MaxThreads` and `MaxFailures` bound counters
that grow for ever otherwise, and one failure separates a call from its effect
and its answer. In `CodexRuntime` three changes replace the executable, put
another in its place and edit the configuration, over one restart of the
planner; a caller keeps one execution through them, and the second instance
gives two callers the same one. In `PlannerToolCalls` a limit of one row per
turn makes the second call of a turn the one over the limit, a query and an
apply share a call ID, and `MaxVersion` is 2: an effect and what it made stale.
In `NativeSession` one request ID is in use by both app-servers, two frames are
deferred of which one may be a request, and one question fills the registry.
In `host` two processes are one that recovers a stale path and one that starts
without the lock; the theorem of section 5 covers any number. A socket is new
if nobody remembers it. Two accidents of a release are a promotion that fails
or is killed and a second failure while it is undone or recovered; a build's
readiness is fixed by `Broken`, so that a candidate that never becomes ready
costs no accident; a second candidate is promoted over the remains of the
first; planner version 2 is a write after the backup. The births of a file are
those at which the code takes another branch. In the household, five commands
plan a week, activate it, cook a meal, assign its leftovers and hand the week
over or move a meal, and an undo may take the place of any; in
`household_leftovers` they are six.
Deadlock is not checked where bounded counters, or a finished exchange, stop
the system.

Fairness. A composition states it once for several parts: since one part moves,
a condition on the disjunction of an action of each is the condition on each.

* Pages (`MCPage`; `PersistentSpec`, `FairViewSpec` and `FeedSpec` of the parts):
  copies are served or lost, pages get their answers, and the user of
  `Patient` whose operation is unresolved keeps pressing Resolve with a network
  that does not lose everything - the claim of the recovery notice, not of a
  timer. The two-second poll fires, effects run after renders, and not every
  read is lost. The feed needs only that timers fire and the planner answers
  what reaches it, since what fails there is bounded.
* `CodexThreads`: the operation that holds the lock goes on, since every native
  call has a timeout; a page that keeps reading or sending gets the lock, whose
  queue is first in, first out, and not a failed read each time.
* `PlannerToolCalls`: an app-server that keeps delivering the calls of a turn
  in progress finds a host that carries one on and is not always cut short.
  Nothing in the planner delivers a call again by itself.
* `CodexRuntime`: every step of an evaluation has a time limit, and so has the
  whole; a caller's next step is its own.
* `RuntimeOwnership`: processes run, the service manager starts the authority
  again (`KeepAlive` in `production-service.mjs`), and not every probe of a
  dead socket takes longer than its timer. Failures and closes are not fair.
* `ReleaseLifecycle`: calls return, since every probe and wait has a deadline;
  launchd starts its job; a healthy build becomes ready; and somebody runs
  `make recover` again whenever no command runs, again and again. Recovery is
  started by nobody else.
* `StoreMigration`: a start goes on, and the service manager starts again.

## 4. Findings

1. `browser_unavailable`. `postJson` treats `UNAVAILABLE` as final even when an
   earlier copy may have been committed; the retry gets a new ID and the change
   happens twice.
2. `page_replay`. A request that was decided is answered with its first answer,
   and with the selection of that time; when it is a new conversation, the page
   shows that selection over a newer one it already showed.
3. `codex_absent`. When the planner stops between the admission and the native
   call, or the app-server that was asked is gone, the history never holds the
   message; reconciliation then fails and keeps the admission, so that every
   later read, select, send and archive of the conversation fails.
4. `release_recovers`. A promotion that migrates the database and is killed
   after its third rename leaves the candidate in `app`, not yet ready.
   `make recover` puts the candidate aside and selects the older app, which
   cannot open the migrated database; `beforeBootstrap` refuses both older
   apps, and every later recovery does the same. The candidate, which could
   have served, is moved to `.app-staging`, where nothing selects it again; the
   way out is a new promotion.
5. `household_leftovers`. Moving a meal takes the assigned leftovers of its day
   along, whichever meal was made for them, and leaves that meal behind.
6. `store_answers`. The upgrade of stored tool answers depends on the schema
   that this start read; a start that ends after migration 10 has committed
   leaves them for ever as they were, and an answer of the embedded Codex then
   makes every start fail.

Behaviours met while modelling for which no run is kept:

* The ETag of a poll whose data was discarded is kept
  (`planner-client.tsx:889`); the next poll is answered 304 and the page stays
  behind until the next change. `PollingCatchesUp` says exactly this much.
* The list that says which conversations existed before a `thread/start` leaves
  out those without a message (`thread-service.ts:1055`); such an older
  conversation can be published as the new one.
* An app-server that was signalled after a timeout
  (`app-server-client.ts:504`) may create a conversation after its admission
  was cleared, and the retry creates a second one.
* A process killed between binding its socket and setting its mode
  (`runtime-ownership.mjs:367`) leaves a path that no later start accepts or
  removes.
* With one release installed, a promotion killed after it has moved `app` to
  `app.previous`, and then run again instead of `make recover`, moves the only
  app to `.app-retiring`; killed again there, recovery finds no fixed slot and
  promotion refuses. `PairKeepsAFixedSlot` is therefore stated for two releases.
* Recovery asks for readiness twice. A candidate of a killed promotion that
  becomes ready in between, while its process outlives the renames, is taken
  for the app that was restored. `PromotionProvesItsApp`, the first half of
  `PromotionSound`, is therefore stated of promotions only, where a stop comes
  before every boot.
* An edit made while a save is under way, or during a conflict, moves the
  version a draft is composed against (`versioned-draft.ts:70`).

## 5. Proofs

TLAPS checks every theorem for all values of the constants that satisfy the
assumptions named beside each module, which TLC evaluates in every run. The
bounds of section 3 (`MaxCrashes`, `MaxCalls`, `MaxTroubles`, ...) are such
constants: a theorem holds for every bound. An invariant that a run checks is
seldom inductive; what each proof adds to it is the interesting part.

### The service and the ledger (`PlannerAuthorityProofs`, `PlannerLedgerProofs`)

For every set of households, commands and request IDs, every reducer and every
length of history (`RequestsAssumption`, `AskedAssumption`). The inductive
invariant is `IInv == TypeOK /\ Sound(db) /\ TxnInv /\ AnswersStored`: `Sound`
collects what the committed file satisfies; `TxnInv` says, for each program
counter, how far the uncommitted copy is from a sound one (which row has been
written and which has not), and is what makes `Commit` preserve `Sound`:
without it nothing relates the copy to the file. One lemma per row operation
says how it moves the copy along; the step theorem has one case per action.
`HistoryStaysImmutable` is an action property and follows from the same
invariant. `AuthorityImplementsLedger` is the refinement: initial states map to
initial states, `Commit` to a decision of the ledger, every other step to a
stutter. What the ledger promises its callers is proved of it alone:
`LedgerExplainsItself` (each version comes from one accepted request composed
against the version before) and `VerdictsAlwaysStand`.

### Pages (`PageProofs`)

* `WishesLandOnce`: `WishInv` says that a replayed attempt has the wish it had,
  and that an answered one is accounted for by the selection or by `effects`.
* `NeverGoesBack`: `ViewInv` relates what each read saw, the cache and
  `workspaceRef`; a read that was given up may write the cache only forwards.
* `ChangesAlwaysAccounted`, over the ledger as authority: `BrowserInv` says that
  a journal holds one entry of its own page, that what is posted or given up was
  sent, that a page holds an entry as resolved only when it was refused, and
  that a change the page was told of is remembered. That the authority was
  unavailable (`unsure`) is the exception of finding 1.

### Conversations (`CodexThreadsProofs`)

`ThreadsInv` is four invariants. `FenceInv`: every call on the wire that may
still write a message has its conversation fenced by the admission of that
message (`CallsFenced`), one such call a conversation (`OneCall`), and what is
on the wire is not in the history yet (`Unwritten`); `LandsOnce` and
`MessagesFenced` follow. `StartedUnderAdmission`: a conversation made by a call
is the one its admission waits for. `ToldInv`: who was told of a turn finds the
message under it. `ListInv`: the end of a list, outside the lock, holds a probe
of the selection's revision. `AnswersTruthful` and the action property
`ListSparesSelected` rest on all of them.

### The executable (`CodexExecutableProofs`)

* `AlwaysRunsAcceptedBytes`: `CopyInv` adds to the property that a start knows
  the bytes it promised (`StartsPromised`) and that a copy verified by a start
  stays until that start ends (`VerifiedStays`), whatever updater, killed
  processes and other starts do to the directories.
* `OnlyAcceptedRuns`: `AcceptInv` carries "fits" from the record of acceptances
  through the evaluation, the execution handed out, the replacements and what
  each caller holds.
* `AlwaysOneReevaluation`: `OnceInv` says that an ordinal counted is one that
  ended, and that what anybody holds came before or is current.
* `BundlesAlwaysKept`: `BundlesInv` adds that what an evaluation names is on disk
  and whole from its rename on (`EvaluatedOnDisk`), and that the number is within
  the policy from the end of its removals on (`WithinPolicy`), not before. That
  removals leave no more than the policy allows (`KeptFits`) needs
  `MaxBundles >= 3`, for three names at most are protected (`ThreeProtected`).

### Host (`HostProofs`)

* The lease (`LeaseAlwaysExclusive`, any number of processes, sockets and
  kills, from `None \notin Procs \cup Sockets`): `OneHolder` is not inductive,
  since it says nothing of the process that is about to unlink a path.
  `LeaseInv` adds that the path is the socket of whoever is between bind and
  close (`OwnSocket`), that a socket has its mode only once it listens
  (`ModeLast`), that who recovers has the lock (`Guarded`), that a recovering
  process which found the path refusing and unchanged removes a socket that is
  nobody's (`SeenStale`), and that a closing process does not find its own
  identity again (`NameGone`).
* The upgrade (`UpgradesAlwaysSafe`): `StoreInv` says what each schema number
  tells of the file's content (`SchemaTells`), that the original is the file or
  a whole copy until the upgrade is whole (`OriginalSafe`), and that nothing is
  normalised before the last migration (`Migrated13`).
* Promotion (`PromotionsAlwaysSound`): `ReleaseInv` says for each place of the
  command which phase and which renames it may hold (`Shape`) and what the
  launchd job may run there (`ServiceOf`); a promotion that waits for readiness
  therefore waits for the build in `app`.
* What a promotion reports (`PromotionsAlwaysReport`): `OutcomeInv` adds
  `Course`, which says for each place where the directories are and which
  renames are left (`Selecting`, `Undoing`), whether the backup still fits
  (`BackedUp`), and who but the promotion can have migrated the database
  (`SchemaKnown`). Without the last one "lost" would need no reason: an undo may
  refuse to boot the old app because the new one wrote, or because the old app
  never carried the database.
* Two releases (`PairAlwaysKeepsAFixedSlot`): of `app`, `app.previous` and
  `.app-retiring` two are taken at all times (`Two`). It holds through a
  promotion because of `Course`, and through a recovery because of
  `RecoveryKeeps`, which says from which directories each phase was entered.

### Server (`ServerProofs`)

* `EffectsAlwaysAccounted`, `RefusalsAreFinal`, `TurnsAlwaysLimited`, for any
  hosts, deaths, deliveries and other callers that do not use a tool's request
  keys (`CallbacksAssumption`; the keys are hashes of the callback): `ToolsInv`
  says that the rows are those of accepted callbacks (`RowsOwned`), that a
  reading is of some version the ledger had (`ReadingsFit`), and that what was
  told is stored (`ToldFits`).
* `AnswersNeverStray`, `RequestsNeverLost`, `OneAppServerAlways`
  (`SessionAssumption`): `SessionInv` partitions what an app-server waits for
  into deferred frames, calls in the hands of a tool, and questions shown
  (`Distinct`, `ChildrenFit`); `OpeningFits` and `ClientsFit` tie the opening and
  the two clients to the processes. The replay of deferred frames is a recursive
  function over a sequence; that the partition survives it is an induction over
  its length, carried out through the least frame at which it would fail.

### The household (`HouseholdProofs`)

* `TimersAlwaysKeepTime` (`TimersAssumption`): the arithmetic of `TimerInv`, in
  half seconds, through every start, pause, reset, edit and restart.
* `ReviewsLandAsSeen`: a review's basis is the version it shows (`ReviewInv`).
* `AlwaysCoherent` (`CatalogueAssumption`; the rows are finitely many): no word
  names two ingredients, no row is linked to one that does not exist.
  `CatalogueInv` holds of the catalogue, of the state an undo brings back and
  of the review's queue; a batch of decisions is again an induction over its
  length.
* `LeftoversAlwaysFromOneCooking` (`WeeksAssumption`): `WeeksInv` adds to the
  validation which every command ends with (`ValidWeeks`) that every leftover
  has a source among the week's meals (`Sourced`), through moves, swaps and the
  reordering of a day: an order that leaves a meal out names another twice, by a
  counting argument, and the validation refuses it. `GoodWeeks` says as much of
  the state an undo brings back (`WeeksUndo`).
* `ShoppingMarksAlwaysKept` and, with `ArchivedAlwaysKept`, `PastAlwaysKept`
  (`RecipesAssumption`): `RecipesInv` says that an identifier names one row of the
  week, whatever the meal (`RowsOnce`), and that the list is of those rows. A
  projection therefore finds an item under the identifier of its own row, and an
  edit that renames a row cannot unmark another one. Every command is shown to
  make a plan in which cooked meals say what they said (`CookedSame`) and the
  marks are where they were (`MarksSame`), its chain of calls followed one by
  one (`Linking`, `Invalidated`, `Reconciled`), whether the final validation
  accepts it or not. Both relations hold in either direction, so that an undo
  keeps what its command kept (`RecipesUndo`; for the weeks `WeeksUndo`: the state
  before has every ended week as it is, or the newest one still active).
* `PreparedAlwaysAsWritten`, from the same invariant, which also says that an
  identifier names one step of the week (`StepsOnce`), that one entry is on one
  date under one identifier (`QueuesOnce`), and what the validation of the last
  command saw (`Seen`): no entry is both ticked and to be reviewed, and no queue
  has a step twice. An entry is then either written by this command, reopened by
  it, or one that was there with sources that say what they said (`Tells`), and
  the last is so because an edit that changes what a step says reopens every
  entry that uses it (`Mended`, `EditedTells`). `RecipesAssumption` adds that the
  prep dates are finitely many, which a fresh identifier needs.

### Only model-checked

All liveness, which is out of the prover's reach, as is `ENABLED`:
`TabsConverge`, `PollingCatchesUp`, `PendingResolves`, `StaleRecovered`,
`RecoveryServes`, `StoreOpens`, `StartsEnd`, `CallsSettle`, `LandedSettles`.
Every safety invariant and action property of a passing run is the subject of a
theorem above.

## 6. Not modelled, and the plan

Left out for good: rendering, wording, layout, shape validation, generated and
vendored data, the user interface. The start order, retention budgets and launch
configuration of the planner process (`server/runtime`) are not modelled; of
the store, the migrations before 8 and the retired chat tables; of the session
and the client, what their paragraphs in section 2 name.

Hazards no property covers, each with its reason in `PROJECT.json`: the kill
between bind and mode (`runtime-ownership.mjs:367`), the list before a
`thread/start` (`thread-service.ts:1055`), the app-server that was signalled and
not awaited (`app-server-client.ts:504`), the version a draft moves to
(`versioned-draft.ts:70`).

Next, in this order:

1. `DraftEditing`: the versioned drafts of the browser over `WorkspaceView`.
2. `PlannerProcess`: start, readiness and stop of the whole, over the lease, the
   store and the session.
3. The capability probe of the executable, as steps of an evaluation.
