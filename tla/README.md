# Formal models of POWER-NODE-01

TLA+ models of the local inference node in this repository, the TLC
configurations that check them on small instances, and TLAPS proofs of their
main properties for every instance. Paths are relative to the repository root.

Contents: [the system](#the-system), [modules](#the-modules),
[runs](#what-the-runs-check), [proofs](#what-is-proved),
[disagreements with the documentation](#where-the-code-and-its-documentation-disagree),
[what is not modelled](#what-is-not-modelled), [plan](#plan).

## The system

A Fastify server (`src/`) accepts a prompt on `POST /generate`, streams the
engine's tokens back over SSE and keeps every run in SQLite. Clients may cancel
a run, disconnect, or retry with the same `Idempotency-Key`. The engine is a
mock child process or an external llama.cpp server.

| Part | State | Operations | Talks to |
|---|---|---|---|
| Run lifecycle (`domain/status.ts`) | none | `nextStatus` | GenerationService |
| GenerationService (`domain/generationService.ts`) | `controllers`, the locals of each `run()` | `run`, `cancel`, `persistTerminal`, `publish` | repository, engine client, event bus, SSE sink |
| RunsRepository (`db/runsRepository.ts`) | tables `runs`, `idempotency_keys` | create with key, read, version-guarded update | SQLite |
| `/generate` and `/runs` routes (`api/`) | the SSE response of each request | create, replay, cancel, close | GenerationService, RunsRepository |
| MetricsCollector (`telemetry/metricsCollector.ts`) | counters of this process | one handler per event | EventBus |
| CircuitBreaker (`engine/circuitBreaker.ts`) | state, consecutive failures, opening time | `getState`, `canProceed`, `recordSuccess`, `recordFailure` | ResilientEngineClient |
| RetryPolicy, ResilientEngineClient (`engine/`) | attempts of each call | `isReady`, `getCircuitState`, `streamCompletion` | breaker, HTTP client, EngineManager, EventBus |
| EngineManager (`engine/engineManager.ts`) | child, `ready`, `stopped`, restart times, poll timer | `start`, `stop`, exit handler, health poll | engine process |
| AppState, `server.ts` | lifecycle, signal flag | `start`, `stop`, signal handlers | everything |
| Protocol clients (`engine/*Client.ts`) | stream buffer | connect, parse frames, combine signals | engine |
| Migrations (`db/migrate.ts`) | table `schema_migrations` | `runMigrations` at every start, `migrate` command | SQLite |
| Backup script (`deploy/scripts/backup.sh`) | the backup files | copy, check, compress, prune; the operator's restore | `sqlite3`, `gzip` |
| Browser console (`public/app.js`) | current run, attempts, timer, status, buttons | `startGeneration`, `handleServerEvent`, `reconnectPoll`, `cancelCurrentRun` | the API |

What is hard here:

- **Interleaving at awaits.** The process is single-threaded, but a handler that
  awaits the engine meets cancels, disconnects, other requests and shutdown. A
  cancel can race the end, or the failure, of the stream it cancels.
- **Partial failure.** A run is recorded by several SQL statements and any of
  them may throw, in the `try` block or in the `catch` block that handles it.
- **Crash and restart.** The tables survive; controllers, metrics and handlers
  do not.
- **Shared mutable state.** All completions share one breaker; a read of its
  state changes it, and stragglers report to a breaker that has since moved.
- **Timeouts and retries.** The backoff sleep does not end on an abort.
- **Overlapping supervision.** A crash of the mock engine starts the next child
  while the previous `start()` still waits, and both write `ready`.
- **Framing.** A chunk of a response body may end inside a character, a line or
  a separator.
- **Order of shutdown.** `AppState.stop` waits for responses, not for runs.
- **Several loops on one page.** The console reads one response per generation,
  polls and waits for a timer at once, and all of them write one status line.
- **A script under `set -e`.** Every command of the backup may end it and leave
  its file behind, while services migrate the database it copies.

What makes each part correct: a run ends once, in the status its history calls
for, and clients are told only that; a retry finds the run it started; every
response and run ends; controllers and counters match the runs in progress; the
breaker opens and closes with the outcomes it was given; an aborted call sends
no request and blames nobody; one engine runs at a time, is restarted within a
budget and is called ready only when it is; startup and shutdown end, in order;
tokens do not depend on how the network cut them; a page at rest shows what is
stored; a complete backup can be restored and the last one is never pruned.
`PROJECT.json` lists the hazards line by line.

## The modules

| Module | Models | Lines of thought |
|---|---|---|
| `RunStatus` | `status.ts` | pure operators, used by the next two |
| `RunContract` | what the server promises about a run | abstract specification, no event loop, SQL or engine |
| `GenerationService` | routes, service, repository, run metrics, crash and shutdown | composes them, and instantiates `RunContract` |
| `GenerationServiceProofs`, `GenerationServiceRefinement` | | theorems about `GenerationService` |
| `CircuitBreaker` | `circuitBreaker.ts` | a breaker is a record, a method a function on it |
| `ResilientClient` | `resilientEngineClient.ts`, `retryPolicy.ts` | concurrent calls over one breaker |
| `ResilientClientProofs` | | theorems about `ResilientClient` |
| `EngineManager` | `engineManager.ts`, readiness of `mockEngineServer.ts` | both modes; the i-th `start()` owns the i-th child |
| `EngineManagerProofs` | | theorems about `EngineManager` |
| `AppState` | `server.ts`, `AppState` of `app.ts` | extends `EngineManager`, whose steps are steps of the process |
| `AppStateProofs` | | theorems about `AppState`, and that it implements `EngineManager` |
| `Console` | `public/app.js` | composed with `RunContract`, an instance of which is the server |
| `ConsoleProofs` | | theorems about `Console` |
| `StreamParser` | `consumeCompletion`, `consumeChatCompletion`, the console's `parseSseFrames` | every cut of every text, against a parse of the whole |
| `StreamParserProofs` | | theorems about `StreamParser` |
| `Migrations` | `migrate.ts` by several processes | one transaction per file |
| `Backup` | `backup.sh`, the restore | extends `Migrations`: one database |
| `BackupProofs` | | theorems about `Migrations`, then about `Backup` |
| `MCGenerationService`, `MCResilientClient`, `MCStreamParser` | | symmetry sets and texts for TLC |

### GenerationService

A request `q` that creates a run names that run. `pc[q]` is where its handler
is and `busy` the handler whose code the event loop is running. Code that
starts on the event loop (a request, a cancel, a close, a token, the end of the
stream, a signal) requires `busy = NoRequest`; from then on only that handler
moves, one SQL statement per step, until it awaits or returns. The steps are
separate, although nothing can interleave them on a healthy process, because a
crash or a failing statement can fall between any two.

| Action | Code |
|---|---|
| `CreateRun`, `Replay`, `LookupFails`, `HandlerFails` | `generate.ts` up to `generationService.run` |
| `Begin`, `StartRun`, `AfterStart` | `run()` up to the token loop |
| `EngineToken`, `EngineEnds`, `EngineThrows` | one resumption of the token loop |
| `Recover` | the `getById` of the `catch` block |
| `Persist`, `PersistConflict`, `Report` | `persistTerminal`: the update, the `ConflictError`, the rest with the `finally` blocks |
| `StatementFails` | any SQL statement of `run()` throws |
| `Cancel`, `Disconnect` | `POST /runs/:id/cancel`, `onDisconnect` |
| `BeginShutdown`, `Exit`, `Crash`, `Restart` | `server.ts`, `AppState.stop` |

Data: a row is its status, version, token count and whether it has an error
message; a frame is its type, run and the status in its body. Output text,
timestamps, model and prompt decide nothing and are left out.

### ResilientClient

A step is the code of one call between two awaits: the connection attempt, the
backoff sleep and the stream. `Begin` is `isReady` followed by
`streamCompletion` in one turn of the event loop, as `run()` calls them.
`RecordOutcome` is the whole of `recordOutcome`, event included. The clock is
`Date.now`, so `ClockMoves` lets it step either way. `trials` and `failStreak`
are history variables for two claims of the documentation; no guard reads them.

### EngineManager

The manager of one process. `Mode` is `ENGINE_MODE`. `waiting[i]` is the
endpoint the i-th `start()` polls, `expired` the calls whose deadline has
passed, `server[i]` the process it spawned. `Ask`, `Answered` and `GiveUp` are
the loop of `pollUntilOk` with what `start()` does after it; `ChildExited` is
the exit handler with `canRestart` and the `spawnChild` of the `start()` it
makes; `Stop` and `StopTimeout` are `stop()` and its timer. The restart
timestamps are kept as the calls they belong to, and `restartAt` remembers those
that were dropped, for `RestartBudget`. In `llama-cpp` mode `HealthPoll` and
`HealthAnswered` are the interval, and the engine goes and comes by itself.

All children listen on one port, so an answer is that of the last child. An
answer or a rejection reaches the manager before the exit of the process it is
about: libuv runs child watchers after the sockets of the same poll. The clock
does not step back. `AppState.stop` runs after `AppState.start` has resolved
(`server.ts` installs the signal handlers then), hence the guard of `Stop`.

### AppState

One process around its manager. `InManager` and `InApp` join the steps of the
two; once the process is gone neither moves. `StartListening` is the end of
`AppState.start` with the handlers `server.ts` installs, `Signal` the first
signal and `close()`, `EngineStops` the resolved `close()` with the call of
`engine.stop()`, `ShutDown` the rest of `stop()` with the exit. `ListenFails` is
`main().catch`. `responses` are what `close()` waits for; `tasks` are handlers
whose client has left, which it does not wait for. What the handlers do is
`GenerationService`.

### Console

The g-th submission is generation g, and its run is run g of the instance
`Server` of `RunContract`. `page` holds the variables of the script and the
elements it sets: the status line is read back by `startGeneration`, so it is
state. `conn[g]` is the response of a generation and `wire[g]` the frames the
page has not read. `StreamEnds` and `StreamFails` are the two epilogues of
`startGeneration`; `ReconnectPoll` is `reconnectPoll` up to its `fetch`,
`PollAnswered` and `PollFails` the rest. The form is enabled whenever the page
believes that nothing is being generated, which may be before the response of
the last generation has been read to its end: `overlapped` remembers that the
last submission was such a one.

### StreamParser

A text is a sequence of bytes, of which `Texts` holds those that may be sent.
A character stands for what a whole line says, one of them has two bytes, and
`Read(n)` cuts anywhere, inside it too; bytes that make no character decode to
one that is no JSON (`Char`). What a line says is read off a character and the
line ends around it (`Said`): one that does not stand alone is part of a longer
line, which is no JSON. `Reach` is 2 for the console, which joins the data lines
of a frame, so that two JSON texts in a row are none. `TakeFrame` is one round of
the inner loop with every `yield` it makes: the generator is suspended between
them, but nothing else touches its state. The reference, `Delivered`, looks at
the whole text at once: what comes before the end of its last separator; the
rest is dropped by the code as well. `protocol` is the parser: that of the mock
engine, of llama.cpp, or of the console, which knows no end marker.

Texts are filtered by the positions of their elements (`Picked`), not by
recursion along the sequence, so that the module can be proved about.

### Migrations

`ReadApplied` is the `SELECT` of `alreadyApplied`, `Exec` the start of a file's
transaction with its first write, `Record` the bookkeeping row and the commit,
`RecordConflict` its primary key refusing a file that another process recorded in
between, `Fails` a statement that throws (a busy timeout among them) or a kill.
A transaction has no effect before its commit, so its effects are written there.

### Backup

`Copied` is the end of sqlite3's `.backup`, which starts over when somebody
commits meanwhile; its result may be bad all the same, and then the check finds
it. `ScriptFails` is any command before the end of `gzip` that ends the script,
`ScriptKilled` a kill anywhere. `Compressed` lists the files at once, and
`Prune` removes them one by one. `Restore` is the runbook: services stopped, a
complete backup put in place of the database. A file is its state, the
migrations it records and those executed in it; the runs in it decide nothing.
One script runs at a time (the unit of the timer) and time stamps increase.

### Refinement

`GenerationService` implements `RunContract` with `status` the status column,
`asked` the runs whose controller was aborted, and `told` the ends in the frames
that reached a client (`ToldEnds`). `CreateRun`, `StartRun` and `Persist` map to
`Create`, `Start` and `Settle`, an accepted cancel or disconnect to `Ask`, the
frame of an end to `Tell`, and everything else to a stutter. `Console` uses the
contract in place of the service, with `told` the ends that the page has read. `AppState` implements `EngineManager`: a step
of the process is one of the manager or leaves it alone.

## What the runs check

| Run | Checks | Instance |
|---|---|---|
| `GenerationServiceSafety` | the invariants below and `TerminalIsFinal` | 3 requests, 2 keys, 1 token, 1 crash, 1 shutdown, 2 failing statements |
| `GenerationServiceLiveness` | `RunsSettle`, `CancelSettles`, `ResponsesEnd`, `ClosingEnds`, `ImplementsContract` | 2 requests, 2 keys, 1 crash, 1 shutdown, 1 failing statement, fairness |
| `ResilientClient` | breaker, announcement, contact and cancel properties, `CallsEnd` | 3 calls, 2 attempts, threshold 2, timeout 2, clock 0..3, fairness |
| `AppState` | `TornDownInOrder`, `RestartBudget`, `ReadyIsEarned`, `SpawnsInTurn`, `StartsReturn`, `ShutdownEnds`, `FollowsEngine` | both modes, 3 children, 1 restart in a window of 2, clock 0..2, 2 connections, fairness |
| `StreamParser` | `YieldsInOrder`, `ChunksDoNotMatter`, `ParseEnds` | texts of up to 6 characters of 4 kinds, and of up to 5 with two tokens or with broken characters, three parsers, fairness |
| `Backup` | `AppliedExactlyOnce`, `UpOnlyMigrated`, `BackupsRestorable`, `BackupsKept`, `ServiceComesUp` | a service and the migrate command, 2 files, 2 failures, 3 backups of which 1 is kept, 1 restore, fairness |
| `Console` | `RestsTruthfully`, `ShownEndIsStored`, `ConsoleSettles` | 3 generations, 2 attempts, 1 unread frame, fairness |
| the five runs of the [disagreements](#where-the-code-and-its-documentation-disagree) | one documented claim each | 1 to 4 actors |

The invariants of `GenerationServiceSafety`:

- `CancelWins`: a run ends cancelled exactly if its cancellation was accepted.
- `ToldTheTruth`: the end in any frame, live or replayed, is the stored one.
- `Attended`: a run in progress is worked on, and read or aborted, or stranded.
- `StrandedOnlyByFailure`: without a crash or a failing statement, a shutdown
  strands only runs that were already being cancelled.
- `ControllersAreLive`: the map holds exactly the runs inside `run()`.
- `NoLostUpdate`: `persistTerminal` may ignore the result of its update.
- `OneRunPerKey`: a run and its key are stored together, one for one.
- `TokensAccounted`, `SseOrder`, `MetricsConserved`: the token count, the order
  of frames and the counters agree with what happened.

The properties of the other passing runs:

- `RunsSettle`, `CancelSettles`, `ResponsesEnd`: every run, cancellation and
  response comes to its end. `ClosingEnds`: so does a shutdown, although it
  cancels nothing and waits.
- `BreakerCountsFailures`, `PublishedTripsAndRecoveries`: the breaker is closed
  exactly below its threshold, and each trip and recovery is announced.
- `ContactsBounded`, `ContactsStop`, `CancelIsNeutral`: no call sends more
  requests than it has attempts, none once it is aborted, streaming or over, and
  a cancelled one leaves the breaker alone.
- `RestartBudget`: no window, wherever it ends, has more restarts than allowed,
  although timestamps are forgotten.
- `SpawnsInTurn`: a child is spawned only when every earlier one is gone, and none
  after `stop()`, whatever overlaps with whatever.
- `ReadyIsEarned`: neither the wait of an older `start()` nor an exhausted
  budget leaves the mock mode ready.
- `TornDownInOrder`: the engine is stopped only when nobody can see it, and the
  database is closed only when no handler is left to use it, or the process ends
  in the same turn.
- `StartsReturn`, `ShutdownEnds`: startup ends whatever the engine does, and so
  does a shutdown whose responses have ended.
- `FollowsEngine`: the health poll sees an engine return and go.
- `AppliedExactlyOnce`, `UpOnlyMigrated`, `ServiceComesUp`: a file is recorded
  exactly if it was committed; the routes open on a migrated database only, and a
  service that lost a race comes up later; all of it across restores.
- `BackupsRestorable`, `BackupsKept`: a complete backup is a database migrations
  can go on from, and there is always one no older than the last success.
- `RestsTruthfully`: what the page shows in the end is the stored end of its run,
  unless it has given up. `ShownEndIsStored`: `completed` or `cancelled` is shown
  of no run that did not end so; `failed` is not covered, for the page also says
  it of a run it has given up. Both only after a submission that overlapped no
  older generation. `ConsoleSettles`: the form can be used again, also where
  generations overlap.
- `YieldsInOrder`, `ChunksDoNotMatter`: tokens and end of a generator are those
  of the whole text.

Why the bounds are enough. Two requests of one key and one of another are the
smallest case with a replay beside an independent run; the third lets a replay
see a run that has ended while another starts. The second failing statement is
the one inside the `catch` block, and no path of one run has room for a third.
One token distinguishes a stream that delivered something from one that did
not. One crash and one shutdown, in either order, with a restart after each,
cover what a later one could find, since nothing but the tables survives.
Threshold 2 and three calls let a straggler fail after the breaker opened and
a success overtake it; a timeout of 2 lets the breaker be read open, half-open
and after a step back of the clock.
Three children give two overlapping waits beside the newest one and a restart
that comes too soon after the last; a clock of 0..2 lets a window of 2 pass, and
with it one timestamp be dropped. Two connections are a response that holds up a
shutdown and a handler that does not. Three generations are two that overlap and
one submitted in order after them; two attempts let the first be answered by a
run in progress and the second be the last; one unread frame is enough to lose
it, or to read it after a poll of another generation. Three backups with one
kept are a success, a partial file that counts towards the retention, and the
pruning that must not take the good one. Six characters hold two SSE frames with their separators, or an
end marker with a token after it; five with two different tokens show their
order, and five bytes every way to break the character that has two.
Requests, keys and calls are interchangeable, so `GenerationServiceSafety` uses
symmetry; runs with liveness properties do not. `CHECK_DEADLOCK` is off for
`GenerationService`, which stops when every request has been made and answered,
for `EngineManager` and `AppState`, which stop with the process, for
`StreamParser`, whose generator ends, for `Console`, which rests after its last
submission, and for `Backup`, which ends with every process up and every backup
made.

Fairness. `WF(HandlerStep(q))`: the event loop runs a handler on once it has
started. `WF(EngineEnds(q) \/ EngineThrows(q))`: the mock engine has a fixed
number of tokens, llama.cpp requests carry `AbortSignal.timeout` of
`ENGINE_REQUEST_TIMEOUT_MS` over the whole response, and an aborted `fetch`
rejects. `WF(Exit)`: Fastify's `close()` resolves. `WF(Answer(c))` in `ResilientClient` is the same assumption;
`WF(Retry(c))` says that `setTimeout` fires. `AppState` assumes that timers
fire, that a local request is answered or refused, and that an exit is reported;
not that a child becomes ready, lives, or obeys `SIGTERM`. `StreamParser`
assumes that a read is answered, `Backup` that a running process goes on and
that systemd starts the service again (`Restart=on-failure`); the busy handler
need not be fair, for files run out, and nothing is assumed of the script.
`Console` assumes that timers fire, that what has arrived is read, that a poll
is answered or rejected, and of the server what `ResponsesEnd` shows. Nothing is assumed of clients,
crashes, shutdowns, restarts or the clock. Liveness excepts runs whose task died
(`Stranded`): that such runs exist is the subject of the first disagreement.

Every property has a mutant in `PROJECT.json`: a plausible defect (the operators
commented as such) under which TLC finds the property violated.

## What is proved

For every set of requests, keys and calls, every bound, threshold, timeout and
number of attempts (assumptions: `RequestAssumption`, `BoundAssumption`,
`BreakerAssumption`, `ClientAssumption`), and so on for the other modules, with
TLAPS:

- `GenerationServiceProofs`: `TypeOK`, `CancelWins`, `ToldTheTruth`, `Attended`,
  `StrandedOnlyByFailure`, `ControllersAreLive`, `NoLostUpdate`,
  `FailureHasReason`, `OneRunPerKey`, `MetricsConserved`, `SseOrder`,
  `TokensAccounted` and `TerminalIsFinal`.
- `GenerationServiceRefinement`: `ImplementsContract`.
- `ResilientClientProofs`: `TypeOK`, `BreakerCountsFailures`,
  `PublishedTripsAndRecoveries`, `ContactsBounded`, `ContactsStop`,
  `CancelIsNeutral`.
- `EngineManagerProofs` (`ModeAssumption`, `BudgetAssumption`): `TypeOK`,
  `RestartBudget`, `OneEngine`, `ReadyIsEarned`, `SpawnsInTurn`.
- `AppStateProofs`: `NodeImplementsManager`, by which the five hold of the
  process as well, and `TornDownInOrder`.
- `BackupProofs`, of migrations alone (`MigrationAssumption`):
  `AppliedExactlyOnce`, `AppliedInOrder`, `UpOnlyMigrated`; with the script and
  restores (`BackupAssumption`): `BackupsRestorable`, `BackupsKept`, and
  `AppliedExactlyOnce` and `UpOnlyMigrated` again.
- `StreamParserProofs` (`TextAssumption`, which only says that a body is
  bytes): `YieldsInOrder`, `ChunksDoNotMatter`, and that every step uses up
  bytes or characters or ends the reader (`LoopsShrink`).
- `ConsoleProofs` (`ConsoleAssumption`): `RestsTruthfully`, `ShownEndIsStored`,
  and `ConsoleMeetsContract`: every end the page is told is the stored one, also
  where generations overlap.

**GenerationService.** None of the safety properties is inductive: that an end
fits the cancellation depends on `ending`, which depends on the snapshot the
handler took, which depends on no other writer having come between. The
inductive invariant `PhasesAgree` says, for each place a handler can be, what
its row, snapshot, controller, response and locals are (`Phase`), what holds
wherever it is (`EndAgrees`), and that what was told is true. The key fact is
that `busy = r` exactly while the handler of `r` is between two awaits, so
that nothing aborts a run between the choice of its end and the update
(`ending = "cancel" <=> r \in aborted` while finishing). `StepAgrees` reduces a
step to the run it is about; `TerminalStep`, proved first, carries
`ToldTheTruth` over every step. `OneRunPerKey` needs `KeysAgree` besides: only
`CreateRun` touches keys or creates a row. `CountersAgree` joins `MetricsConserved`
with the finiteness of the two sets it counts: an announcement adds a controller,
an end or a rejection removes one. `ResponseAgrees` says what was written for a
run at each place its handler can be: while the client is there, no end yet and
as many tokens as were counted; an end, or a failing statement, once the server
has closed the response.

**Refinement.** With `PhasesAgree`, and `IdleSilent` (nothing was written for a
request that was not made, so a replay forgets no frame), each action maps to
the contract's action named above; `EmitTells` says what one frame adds to what
was told. In `Console` the steps of the server are
those of the contract, so for them `ConsoleMeetsContract` has nothing to show; its
content is the page. There `told` is what the page has read, a frame may be read
long after it was written, and that its end is then still the stored one
(`EndToldTrue`) is what `FramesTrue` of the inductive invariant is for.

**ResilientClient.** `ClientInv` is `TypeOK`, both breaker properties and
`AttemptsCounted`. The breaker lemmas hold for any record and clock:
`FailureCounts` needs the breaker to be closed exactly below its threshold, so
the two properties are proved together with the typing. That the announced
state is never `half-open` needs `ResetTimeout > 0`: an opening just recorded
does not time out in the same turn. `buildApp` leaves the breaker at its default
of five seconds.

**EngineManager.** `ManagerInv` adds to the properties that children before the
last are gone and none exists beyond it (`OldOnesGone`), that only one mode
polls and only the other restarts (`ModesApart`), and that no timestamp still in
the window was dropped (`WindowKept`). `RestartBudget` speaks of times that
`canRestart` has forgotten; with `WindowKept` the window that a restart ends is
inside `Recent` and the restart itself, whose size the guard bounds
(`RestartInBudget`).

**AppState.** `InOrder`: the engine's first wait is over before the process
listens, and the manager is stopped only after the last response. With it
`EngineStops` is a `Stop` of the manager, whose guard it does not state.

**Migrations.** `SeenRecorded`: what a process that works read as applied stays
recorded. The file it takes next has all earlier ones in that set, and the
primary key refuses one that somebody else was faster to record.

**Backup.** `ScriptInv` says what the control point of the script means for its
files: the one being made is the newest, nothing newer exists, and while pruning
it is complete and not among the doomed. `NewestIsKept` (the newest of the files
is never beyond the retention) and `KeptWithinRetention` (what is left lies from
its oldest file on, and they are at most `RETENTION_COUNT`) give `BackupsKept`;
`FreshConsistent` gives `BackupsRestorable`, with the invariant of the migrations
at the moment of the copy. Conversely a restore keeps that invariant because
every complete backup satisfies it.

**Console.** `RestsTruthfully` speaks of a page at rest, so the invariant says
what a page that is not is doing: it reads the response of its run, or asks for
it once, or waits for the timer, or shows its end, or has given up
(`Following`); older generations are silent (`Alone`); an unread end is the
stored one (`FramesTrue`); a shown end was learnt (`ShownIsLearnt`). Without `overlapped` none of it holds: see below.

**StreamParser.** `ParserInv` splits the body into the bytes that left the
decoder (`whole`), those it holds and those not read; and what `whole` decodes to
into the frames taken and the buffer. What was yielded is `Tokens(taken)`, and
`taken` is `Closed`: nothing, or a text that ends with a separator. `Read` keeps
this by `DecodeConcat` (a text may be decoded in parts unless a character is
divided, and the decoder holds the half of one), `TakeFrame` by `SaidConcat` and
`TokensConcat` (after a separator a text starts anew, since a line reaches no
farther than a separator is long). `DeliveredBegins` then says of the whole text
that it begins with `taken`, and that only line ends follow when nothing is
unread and the buffer has no separator. These are facts about all sequences, and
induction over data is out of the prover's reach; they are proved by counting
positions instead: `Picked(s, S)` has the element at `i` in place
`Cardinality(UpTo(S, i))`, and `TwoParts` counts the positions of a
concatenation.

Only model-checked: the liveness properties, which are out of the prover's
reach. For `ParseEnds`, `LoopsShrink` is the half of the argument that is not:
each step decreases the pair of unread bytes and buffered characters or ends the
generator.

## Where the code and its documentation disagree

Each is a run that expects a violation of the claim.

| Run | Claim | What happens |
|---|---|---|
| `StuckAfterCrash` | `README.md:97-98`: a run is never stuck `running` with nothing watching it | nothing sweeps the table after a crash |
| `BreakerTrials` | `circuitBreaker.ts:16`: one trial call when half-open | every caller that asks before the first outcome is admitted |
| `MidStreamFailures` | `docs/RUNBOOKS/engine-restart.md:25`: repeated mid-stream failures trip the breaker | each connection resets the count before its stream fails |
| `OverlappingStarts` | `docs/CONTRACT.md:13-14`: `/ready` is 200 when the engine reports ready | the `start()` of a dead child, timing out on `/ready` last, overwrites the `true` of its successor (in the shortest trace it times out on `/health`; on `/ready` the 50 ms between two polls leave room for the same) |
| `StubbornEngine` | `app.ts:136-137`: `AppState` tears the engine down | `child.killed` is true once `SIGTERM` was sent, so the `SIGKILL` is never sent |

Seen while modelling, and not runs of their own: in mock mode an engine that
becomes ready after the startup timeout is never polled again
(`engineManager.ts:98`, compare the log line at `:94`); a graceful shutdown does not
wait for a run whose client has disconnected (`app.ts:160`; compare
`docs/CONTRACT.md:64-67`, and `StrandedOnlyByFailure` for what does hold); a
second failing statement, in the `catch` block, ends the response with the run
in progress (`generationService.ts:93`; `README.md:96-97`); the `run.created`
frame of a replay has the current status (`generate.ts:46`;
`docs/CONTRACT.md:30`); a handler that throws after the SSE headers leaves its
response open, so that it holds up a shutdown and the console
(`generate.ts:57`); a signal before `listen` has resolved, or a port that is
taken, ends the process without `engine.stop()` (`server.ts:20`, `:33`); the
move from open to half-open is not published
(`circuitBreaker.ts:35`; `docs/ARCHITECTURE.md:235-236`).

Of the console: the form is enabled at the terminal event, before the response
has ended, so a second generation may be submitted meanwhile, and the epilogue of
the first then reads the `queued` of the second: it polls, or shows `failed` and
enables the form (`app.js:202`). A response that fails after its terminal event
is polled for although its end is known (`app.js:209`), and one that fails
before `run.created` shows `failed` although the run may exist (`app.js:140`).
Of the backup script: `set -e` ends it where the integrity check cannot read the
file, so the bad file stays and the exit code is not 3 (`backup.sh:58`;
`docs/RUNBOOKS/backup-restore.md:21-23`); nothing prunes a `.bak` that was left,
and a partial `.gz` counts toward the retention until it is pruned itself
(`backup.sh:71`). `BackupsKept` holds because one script runs at a time.

## What is not modelled

- Validation of environment and bodies, authentication, serializers, row
  mapping, logging, error classes: functions of one input without state.
- The readiness badge, the table of runs and the rendering of the console.
- `EventBus`: its one subscriber is called in the turn that emits, as
  `GenerationService` and `ResilientClient` have it; `emit` while the set of
  subscribers changes has no caller. `engineCircuitOpenTransitions` counts the
  announcements of `ResilientClient` that say open.
- The contents of prompts and outputs, timestamps, the length of delays.
- The mock engine's token generation; of the mock engine only readiness and
  `SIGTERM` are modelled. A `fork` that fails to spawn.
- How requests reach llama.cpp (`connect*`), beyond one step that may fail, and
  `combineSignals`; a consumer that leaves a token generator early, which changes
  nothing the parser keeps.
- Read routes (`GET /runs`, `/health`, `/ready`), except for the one read that
  writes, `getCircuitState`.

## Plan

Done, in this order: `RunStatus`, `RunContract`, `GenerationService` with its
runs, proofs and refinement; `CircuitBreaker` and `ResilientClient` with theirs;
`EngineManager` with its proofs; `StreamParser`; `Migrations`; `AppState`,
`Backup` and `Console`, each with its proofs; the proofs of `StreamParser`.

Next:

1. Composition of `GenerationService` with `ResilientClient`: a run's engine
   outcomes are a call's outcomes; `engineCircuitOpenTransitions`.
2. Two backup scripts at once, and one started by hand beside the timer's.
