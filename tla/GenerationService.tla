-------------------------- MODULE GenerationService --------------------------
(***************************************************************************)
(* One POWER-NODE-01 server process and its SQLite file, as far as a run   *)
(* is concerned: POST /generate (src/api/generate.ts), the cancel route    *)
(* (src/api/runs.ts), GenerationService, RunsRepository, MetricsCollector  *)
(* and the process lifecycle of AppState and server.ts.                    *)
(*                                                                         *)
(* The process is single-threaded: a handler runs to its next `await`      *)
(* before another one starts.  busy names the request whose code is        *)
(* running; every handler that begins on the event loop requires it to be  *)
(* NoRequest.  One step is one SQL statement (or the code between two), so *)
(* that a crash or a failing statement can fall between any two of them.   *)
(* Request q that creates a run names that run: run ids are random and     *)
(* unique.  The engine is the environment: tokens, an end, an error or the *)
(* AbortError that answers an abort, in any order it may choose.           *)
(***************************************************************************)
EXTENDS RunStatus, Naturals, Sequences, FiniteSets

CONSTANTS
  Requests,      \* POST /generate calls, each made once
  Keys,          \* values of the Idempotency-Key header
  NoRequest,     \* no request, no run
  MaxTokens,     \* bound: tokens the engine yields for one run
  MaxCrashes,    \* bound: process crashes
  MaxShutdowns,  \* bound: graceful shutdowns
  MaxDbFaults    \* bound: SQL statements that throw

ASSUME RequestAssumption == NoRequest \notin Requests
ASSUME BoundAssumption ==
  MaxTokens \in Nat /\ MaxCrashes \in Nat /\ MaxShutdowns \in Nat /\ MaxDbFaults \in Nat

VARIABLES
  row,         \* the runs table: [Requests -> Row]
  keyRun,      \* the idempotency_keys table: [Keys -> Requests \union {NoRequest}]
  controllers, \* GenerationService.controllers, as the set of its run ids
  aborted,     \* runs whose AbortController was aborted
  pc,          \* where the handler of each request is
  snap,        \* the Run object the handler of a run holds (status and version)
  ending,      \* the event persistTerminal was called with
  caught,      \* runs whose run() is inside its catch block
  tokenCount,  \* the tokenCount local of run()
  stream,      \* the SSE response of each request
  sent,        \* the frames written on it
  metrics,     \* MetricsCollector
  busy,        \* the request whose code the event loop is running
  process,     \* "up", "closing" (AppState.stop is waiting) or "down"
  crashes, shutdowns, dbFaults  \* counts of what went wrong so far

db == <<row, keyRun>>
task == <<pc, snap, ending, caught, tokenCount>>
faults == <<crashes, shutdowns, dbFaults>>
vars == <<row, keyRun, controllers, aborted, pc, snap, ending, caught, tokenCount,
          stream, sent, metrics, busy, process, crashes, shutdowns, dbFaults>>

-----------------------------------------------------------------------------
(* The data.                                                               *)

ErrorMessages == {"none", "ENGINE_NOT_READY", "engine error"}

Row == [status : RunStatuses \union {"none"}, version : Nat,
        tokenCount : Nat, error : ErrorMessages]

NoRow == [status |-> "none", version |-> 0, tokenCount |-> 0, error |-> "none"]

\* What createQueued inserts.
QueuedRow == [NoRow EXCEPT !.status = "queued"]

Snapshot == [status : RunStatuses \union {"none"}, version : Nat]

\* A plausible defect: the handler goes on with the Run object it already has.
ReadNothing(r) == snap[r]

\* getById: the Run object as it is in the table at this moment.
Read(r) == [status |-> row[r].status, version |-> row[r].version]

FrameTypes == {"created", "status", "token"} \union Terminal

\* An SSE frame: its type, the run, and the status in its body (a token frame
\* carries none).
Frame == [type : FrameTypes, run : Requests, status : RunStatuses \union {"none"}]

RunFrame(type, r) == [type |-> type, run |-> r, status |-> row[r].status]

TokenFrame(r) == [type |-> "token", run |-> r, status |-> "none"]

MetricNames == {"created"} \union Terminal

NoMetrics == [name \in MetricNames |-> 0]

\* A plausible defect: the subscription to run.cancelled is missing.
CountedUnlessCancelled(m, type) ==
  IF type \in MetricNames \ {"cancelled"} THEN [m EXCEPT ![type] = @ + 1] ELSE m

\* MetricsCollector's handlers: there is none for run.status.
Counted(m, type) ==
  IF type \in MetricNames THEN [m EXCEPT ![type] = @ + 1] ELSE m

Coalesce(new, old) == IF new = "none" THEN old ELSE new

\* The version-guarded UPDATE: the table after it.
TransitionStatus(r, version, status, count, error) ==
  IF row[r].version = version
  THEN [row EXCEPT ![r] = [status |-> status, version |-> @.version + 1,
                           tokenCount |-> count, error |-> Coalesce(error, @.error)]]
  ELSE row

-----------------------------------------------------------------------------
(* Pieces of the handlers.                                                 *)

\* send: what is written after the client has gone is discarded.
Emit(q, frame) ==
  sent' = IF stream[q] = "open" THEN [sent EXCEPT ![q] = Append(@, frame)] ELSE sent

\* GenerationService.publish: the SSE frame and the bus event.
Publish(q, frame) ==
  /\ Emit(q, frame)
  /\ metrics' = Counted(metrics, frame.type)

\* AbortController.abort on the controller of r, if there is one.
Aborted(r) == IF r \in controllers THEN aborted \union {r} ELSE aborted

\* A plausible defect: the controller is forgotten only on the normal path.
FinallyLeakingOnCatch(q) ==
  /\ controllers' = IF q \in caught THEN controllers ELSE controllers \ {q}
  /\ stream' = [stream EXCEPT ![q] = IF @ = "open" THEN "ended" ELSE @]
  /\ busy' = NoRequest

\* A plausible defect: the route never ends the response.
FinallyLeavingOpen(q) ==
  /\ controllers' = controllers \ {q}
  /\ UNCHANGED stream
  /\ busy' = NoRequest

\* The finally blocks of run() and of the route; the handler is over.
Finally(q) ==
  /\ controllers' = controllers \ {q}
  /\ stream' = [stream EXCEPT ![q] = IF @ = "open" THEN "ended" ELSE @]
  /\ busy' = NoRequest

GoTo(q, label) == pc' = [pc EXCEPT ![q] = label]

\* An exception: out of the try block into the catch block, or out of the
\* catch block and of run() itself.
Throw(q) ==
  IF q \in caught
  THEN /\ GoTo(q, "rejected")
       /\ Finally(q)
       /\ UNCHANGED caught
  ELSE /\ GoTo(q, "recovering")
       /\ caught' = caught \union {q}
       /\ busy' = q
       /\ UNCHANGED <<controllers, stream>>

\* The statement about to run throws instead of taking effect.
StatementThrows ==
  /\ dbFaults < MaxDbFaults
  /\ dbFaults' = dbFaults + 1
  /\ UNCHANGED <<crashes, shutdowns>>

-----------------------------------------------------------------------------
(* POST /generate.  Looking the key up and creating the run happen in one  *)
(* turn of the event loop and write in one transaction.                    *)

Arrives(q) == process = "up" /\ busy = NoRequest /\ pc[q] = "idle"

\* A plausible defect: the key is not recorded with the run.
CreateRunWithoutKey(q, k) ==
  /\ Arrives(q)
  /\ keyRun[k] = NoRequest
  /\ row' = [row EXCEPT ![q] = QueuedRow]
  /\ keyRun' = keyRun
  /\ snap' = [snap EXCEPT ![q] = [status |-> "queued", version |-> 0]]
  /\ stream' = [stream EXCEPT ![q] = "open"]
  /\ GoTo(q, "created")
  /\ busy' = q
  /\ UNCHANGED <<controllers, aborted, ending, caught, tokenCount, sent, metrics,
                 process, faults>>

CreateRun(q, k) ==
  /\ Arrives(q)
  /\ keyRun[k] = NoRequest
  /\ row' = [row EXCEPT ![q] = QueuedRow]
  /\ keyRun' = [keyRun EXCEPT ![k] = q]
  /\ snap' = [snap EXCEPT ![q] = [status |-> "queued", version |-> 0]]
  /\ stream' = [stream EXCEPT ![q] = "open"]
  /\ GoTo(q, "created")
  /\ busy' = q
  /\ UNCHANGED <<controllers, aborted, ending, caught, tokenCount, sent, metrics,
                 process, faults>>

\* The second frame of a replay.
SnapshotType(r) == IF row[r].status \in Terminal THEN row[r].status ELSE "status"

Replay(q, k) ==
  /\ Arrives(q)
  /\ keyRun[k] # NoRequest
  /\ sent' = [sent EXCEPT ![q] = <<RunFrame("created", keyRun[k]),
                                   RunFrame(SnapshotType(keyRun[k]), keyRun[k])>>]
  /\ stream' = [stream EXCEPT ![q] = "ended"]
  /\ GoTo(q, "replayed")
  /\ UNCHANGED <<db, controllers, aborted, snap, ending, caught, tokenCount, metrics,
                 busy, process, faults>>

\* The lookup throws before the response was hijacked: a plain 500.
LookupFails(q) ==
  /\ Arrives(q)
  /\ StatementThrows
  /\ GoTo(q, "refused")
  /\ UNCHANGED <<db, controllers, aborted, snap, ending, caught, tokenCount, stream,
                 sent, metrics, busy, process>>

\* The insert, or the replay's SELECT, throws after the SSE headers were
\* written: nothing ends the response.
HandlerFails(q) ==
  /\ Arrives(q)
  /\ StatementThrows
  /\ stream' = [stream EXCEPT ![q] = "open"]
  /\ GoTo(q, "hung")
  /\ UNCHANGED <<db, controllers, aborted, snap, ending, caught, tokenCount,
                 sent, metrics, busy, process>>

-----------------------------------------------------------------------------
(* GenerationService.run.                                                  *)

At(q, label) == busy = q /\ pc[q] = label

\* The controller is registered and the run announced; an engine that is not
\* ready ends it at once.
Begin(q) ==
  /\ At(q, "created")
  /\ controllers' = controllers \union {q}
  /\ Publish(q, RunFrame("created", q))
  /\ \E isReady \in BOOLEAN :
       /\ GoTo(q, IF isReady THEN "starting" ELSE "finishing")
       /\ ending' = [ending EXCEPT ![q] = IF isReady THEN @ ELSE "fail"]
  /\ UNCHANGED <<db, aborted, snap, caught, tokenCount, stream, busy, process, faults>>

\* transitionStatus(queued -> running).
StartRun(q) ==
  /\ At(q, "starting")
  /\ row' = TransitionStatus(q, snap[q].version, NextStatus("start"), row[q].tokenCount, "none")
  /\ GoTo(q, IF row[q].version = snap[q].version THEN "started" ELSE "overtaken")
  /\ UNCHANGED <<keyRun, controllers, aborted, snap, ending, caught, tokenCount, stream,
                 sent, metrics, busy, process, faults>>

\* getById and publish; then the loop over the engine's tokens, or the return
\* for a run that another writer had moved.
AfterStart(q) ==
  /\ busy = q
  /\ pc[q] \in {"started", "overtaken"}
  /\ snap' = [snap EXCEPT ![q] = Read(q)]
  /\ IF pc[q] = "started"
     THEN /\ Publish(q, RunFrame("status", q))
          /\ GoTo(q, "streaming")
          /\ busy' = NoRequest
          /\ UNCHANGED <<controllers, stream>>
     ELSE /\ Publish(q, RunFrame(IF row[q].status = "cancelled" THEN "cancelled" ELSE "status", q))
          /\ GoTo(q, "done")
          /\ Finally(q)
  /\ UNCHANGED <<db, aborted, ending, caught, tokenCount, process, faults>>

\* One turn of the for-await loop.  A token already received may still be
\* delivered after the abort.
EngineToken(q) ==
  /\ busy = NoRequest
  /\ pc[q] = "streaming"
  /\ tokenCount[q] < MaxTokens
  /\ tokenCount' = [tokenCount EXCEPT ![q] = @ + 1]
  /\ Emit(q, TokenFrame(q))
  /\ UNCHANGED <<db, controllers, aborted, pc, snap, ending, caught, stream, metrics,
                 busy, process, faults>>

\* A plausible defect: a clean end is a completion even if it was cancelled.
EndingIgnoringAbort(q, otherwise) ==
  IF q \in aborted /\ otherwise # "complete" THEN "cancel" ELSE otherwise

\* How a run whose stream ended, cleanly or not, is recorded.
EndingOf(q, otherwise) == IF q \in aborted THEN "cancel" ELSE otherwise

\* The loop ends: the engine is done, or stopped cleanly because of the abort.
EngineEnds(q) ==
  /\ busy = NoRequest
  /\ pc[q] = "streaming"
  /\ ending' = [ending EXCEPT ![q] = EndingOf(q, "complete")]
  /\ GoTo(q, "finishing")
  /\ busy' = q
  /\ UNCHANGED <<db, controllers, aborted, snap, caught, tokenCount, stream, sent,
                 metrics, process, faults>>

\* The loop throws: a genuine failure at any time, or the AbortError.  The
\* catch block does not look at which one it is.
EngineThrows(q) ==
  /\ busy = NoRequest
  /\ pc[q] = "streaming"
  /\ Throw(q)
  /\ UNCHANGED <<db, aborted, snap, ending, tokenCount, sent, metrics, process, faults>>

\* The catch block's getById.
Recover(q) ==
  /\ At(q, "recovering")
  /\ snap' = [snap EXCEPT ![q] = Read(q)]
  /\ ending' = [ending EXCEPT ![q] = EndingOf(q, "fail")]
  /\ GoTo(q, "finishing")
  /\ UNCHANGED <<db, controllers, aborted, caught, tokenCount, stream, sent, metrics,
                 busy, process, faults>>

\* errorMessage is given only with a failure.
ErrorOf(q) ==
  IF ending[q] # "fail" THEN "none"
  ELSE IF q \in caught THEN "engine error" ELSE "ENGINE_NOT_READY"

\* A plausible defect: the number of tokens of a cancelled run is not stored.
PersistWithoutTokens(q) ==
  /\ At(q, "finishing")
  /\ IsLegal(snap[q].status, ending[q])
  /\ row' = TransitionStatus(q, snap[q].version, NextStatus(ending[q]),
                             IF ending[q] = "cancel" THEN 0 ELSE tokenCount[q], ErrorOf(q))
  /\ GoTo(q, "reporting")
  /\ UNCHANGED <<keyRun, controllers, aborted, snap, ending, caught, tokenCount, stream,
                 sent, metrics, busy, process, faults>>

\* A plausible defect: a cancelled run is left for the cancel route to record.
PersistUnlessCancelled(q) ==
  /\ At(q, "finishing")
  /\ IsLegal(snap[q].status, ending[q])
  /\ row' = IF ending[q] = "cancel" THEN row
            ELSE TransitionStatus(q, snap[q].version, NextStatus(ending[q]), tokenCount[q], ErrorOf(q))
  /\ GoTo(q, "reporting")
  /\ UNCHANGED <<keyRun, controllers, aborted, snap, ending, caught, tokenCount, stream,
                 sent, metrics, busy, process, faults>>

\* persistTerminal up to its UPDATE; what transitionStatus returns is ignored.
\* The unavailable branch passes no tokenCount, and both counts are then 0.
Persist(q) ==
  /\ At(q, "finishing")
  /\ IsLegal(snap[q].status, ending[q])
  /\ row' = TransitionStatus(q, snap[q].version, NextStatus(ending[q]), tokenCount[q], ErrorOf(q))
  /\ GoTo(q, "reporting")
  /\ UNCHANGED <<keyRun, controllers, aborted, snap, ending, caught, tokenCount, stream,
                 sent, metrics, busy, process, faults>>

\* persistTerminal when nextStatus throws ConflictError.
PersistConflict(q) ==
  /\ At(q, "finishing")
  /\ ~IsLegal(snap[q].status, ending[q])
  /\ Throw(q)
  /\ UNCHANGED <<db, aborted, snap, ending, tokenCount, sent, metrics, process, faults>>

\* A plausible defect: the response is ended before the last event is sent.
ReportTooLate(q) ==
  /\ At(q, "reporting")
  /\ metrics' = Counted(metrics, NextStatus(ending[q]))
  /\ Finally(q)
  /\ GoTo(q, "done")
  /\ UNCHANGED <<db, aborted, snap, ending, caught, tokenCount, sent, process, faults>>

\* The rest of persistTerminal, and the way out of run() and of the route.
Report(q) ==
  /\ At(q, "reporting")
  /\ Publish(q, RunFrame(NextStatus(ending[q]), q))
  /\ Finally(q)
  /\ GoTo(q, "done")
  /\ UNCHANGED <<db, aborted, snap, ending, caught, tokenCount, process, faults>>

\* The SQL statement the handler is about to run throws.
StatementFails(q) ==
  /\ busy = q
  /\ \/ pc[q] \in {"starting", "started", "overtaken", "recovering", "reporting"}
     \/ pc[q] = "finishing" /\ IsLegal(snap[q].status, ending[q])
  /\ StatementThrows
  /\ Throw(q)
  /\ UNCHANGED <<db, aborted, snap, ending, tokenCount, sent, metrics, process>>

-----------------------------------------------------------------------------
(* Clients.                                                                *)

\* POST /runs/:id/cancel that finds the run and answers cancelRequested: true.
Cancel(r) ==
  /\ process = "up"
  /\ busy = NoRequest
  /\ r \in controllers
  /\ aborted' = Aborted(r)
  /\ UNCHANGED <<db, controllers, task, stream, sent, metrics, busy, process, faults>>

\* A plausible defect: nobody listens for the close of the response.
DisconnectUnnoticed(q) ==
  /\ process # "down"
  /\ busy = NoRequest
  /\ stream[q] = "open"
  /\ stream' = [stream EXCEPT ![q] = "closed"]
  /\ aborted' = aborted
  /\ UNCHANGED <<db, controllers, task, sent, metrics, busy, process, faults>>

\* The response socket closes before the response ended.
Disconnect(q) ==
  /\ process # "down"
  /\ busy = NoRequest
  /\ stream[q] = "open"
  /\ stream' = [stream EXCEPT ![q] = "closed"]
  /\ aborted' = Aborted(q)
  /\ UNCHANGED <<db, controllers, task, sent, metrics, busy, process, faults>>

-----------------------------------------------------------------------------
(* The process.  Nothing looks at the rows an earlier process left behind. *)

\* AppState.stop: fastify.close refuses new requests and waits for the open
\* responses.
BeginShutdown ==
  /\ process = "up"
  /\ busy = NoRequest
  /\ shutdowns < MaxShutdowns
  /\ process' = "closing"
  /\ shutdowns' = shutdowns + 1
  /\ UNCHANGED <<db, controllers, aborted, task, stream, sent, metrics, busy, crashes, dbFaults>>

\* What is left when the process is gone.
ProcessGone ==
  /\ process' = "down"
  /\ controllers' = {}
  /\ metrics' = NoMetrics
  /\ busy' = NoRequest
  /\ pc' = [q \in Requests |-> IF pc[q] = "idle" THEN "idle" ELSE "gone"]
  /\ stream' = [q \in Requests |-> IF stream[q] = "open" THEN "closed" ELSE stream[q]]
  /\ UNCHANGED <<db, aborted, snap, ending, caught, tokenCount, sent>>

\* A plausible defect: the process exits without waiting for the responses.
ExitAtOnce ==
  /\ process = "closing"
  /\ busy = NoRequest
  /\ ProcessGone
  /\ UNCHANGED faults

\* engine.stop, db.close and process.exit: every response is closed, but a
\* handler whose client had left may still be waiting for the engine.
Exit ==
  /\ process = "closing"
  /\ busy = NoRequest
  /\ \A q \in Requests : stream[q] # "open"
  /\ ProcessGone
  /\ UNCHANGED faults

Crash ==
  /\ process # "down"
  /\ crashes < MaxCrashes
  /\ crashes' = crashes + 1
  /\ ProcessGone
  /\ UNCHANGED <<shutdowns, dbFaults>>

Restart ==
  /\ process = "down"
  /\ process' = "up"
  /\ UNCHANGED <<db, controllers, aborted, task, stream, sent, metrics, busy, faults>>

-----------------------------------------------------------------------------

Init ==
  /\ row = [r \in Requests |-> NoRow]
  /\ keyRun = [k \in Keys |-> NoRequest]
  /\ controllers = {}
  /\ aborted = {}
  /\ pc = [q \in Requests |-> "idle"]
  /\ snap = [q \in Requests |-> [status |-> "none", version |-> 0]]
  /\ ending = [q \in Requests |-> "none"]
  /\ caught = {}
  /\ tokenCount = [q \in Requests |-> 0]
  /\ stream = [q \in Requests |-> "none"]
  /\ sent = [q \in Requests |-> <<>>]
  /\ metrics = NoMetrics
  /\ busy = NoRequest
  /\ process = "up"
  /\ crashes = 0
  /\ shutdowns = 0
  /\ dbFaults = 0

\* The code between two awaits: it goes on until it awaits or returns.
HandlerStep(q) ==
  \/ Begin(q) \/ StartRun(q) \/ AfterStart(q) \/ Recover(q)
  \/ Persist(q) \/ PersistConflict(q) \/ Report(q) \/ StatementFails(q)

EngineStep(q) == EngineToken(q) \/ EngineEnds(q) \/ EngineThrows(q)

ClientStep(q) ==
  \/ \E k \in Keys : CreateRun(q, k) \/ Replay(q, k)
  \/ LookupFails(q) \/ HandlerFails(q)
  \/ Cancel(q) \/ Disconnect(q)

ProcessStep == BeginShutdown \/ Exit \/ Crash \/ Restart

Next ==
  \/ \E q \in Requests : HandlerStep(q) \/ EngineStep(q) \/ ClientStep(q)
  \/ ProcessStep

Spec == Init /\ [][Next]_vars

\* A running handler goes on; the engine ends every completion: the mock has a
\* fixed number of tokens, llama.cpp is given ENGINE_REQUEST_TIMEOUT_MS for the
\* whole response, and an aborted fetch rejects.  Fastify's close() resolves when
\* the last response is over, and the process exits.
Fairness ==
  /\ \A q \in Requests :
       /\ WF_vars(HandlerStep(q))
       /\ WF_vars(EngineEnds(q) \/ EngineThrows(q))
  /\ WF_vars(Exit)

FairSpec == Spec /\ Fairness

-----------------------------------------------------------------------------
(* Properties.                                                             *)

\* Where a request's handler can be: waiting to be made, inside run(), or over.
HandlerPcs == {"created", "starting", "started", "overtaken", "finishing", "reporting",
               "recovering"}
RunPcs == (HandlerPcs \ {"created"}) \union {"streaming"}
OverPcs == {"done", "rejected", "replayed", "refused", "hung", "gone"}
Pcs == {"idle", "streaming"} \union HandlerPcs \union OverPcs

\* Every variable keeps its type: the rows, frames and counters stay records
\* and numbers of the shape the schema and the serializers give them.
TypeOK ==
  /\ row \in [Requests -> Row]
  /\ keyRun \in [Keys -> Requests \union {NoRequest}]
  /\ controllers \subseteq Requests
  /\ aborted \subseteq Requests
  /\ pc \in [Requests -> Pcs]
  /\ snap \in [Requests -> Snapshot]
  /\ ending \in [Requests -> EndEvents \union {"none"}]
  /\ caught \subseteq Requests
  /\ tokenCount \in [Requests -> Nat]
  /\ stream \in [Requests -> {"none", "open", "ended", "closed"}]
  /\ sent \in [Requests -> Seq(Frame)]
  /\ metrics \in [MetricNames -> Nat]
  /\ busy \in Requests \union {NoRequest}
  /\ process \in {"up", "closing", "down"}
  /\ crashes \in Nat /\ shutdowns \in Nat /\ dbFaults \in Nat

InProgress(r) == row[r].status \in {"queued", "running"}

\* The task that would end the run is no more.
Stranded(r) == InProgress(r) /\ pc[r] \in {"rejected", "gone"}

\* A run that has ended is never written again, whatever fails or restarts
\* afterwards (status.ts: no event moves a run out of a terminal status).
TerminalIsFinal ==
  [][\A r \in Requests : row[r].status \in Terminal => row'[r] = row[r]]_vars

\* A run ends cancelled if its cancellation was accepted (by the route, or by
\* the close of the response) and only then, even if the engine completed or
\* failed in the meantime.
CancelWins ==
  \A r \in Requests :
    row[r].status \in Terminal => (row[r].status = "cancelled" <=> r \in aborted)

\* A frame that announces an end carries it, and it is the stored one.
Truthful(frame) ==
  frame.type \in Terminal =>
    frame.status = frame.type /\ row[frame.run].status = frame.type

\* Whatever end a client was told, live or by a replay, is what is stored.
ToldTheTruth ==
  \A q \in Requests : \A i \in DOMAIN sent[q] : Truthful(sent[q][i])

\* A run in progress is being worked on, and if nobody reads its response any
\* more it has been aborted; the exceptions are the stranded runs.
Attended ==
  \A r \in Requests :
    InProgress(r) =>
      \/ busy = r
      \/ r \in controllers /\ (stream[r] = "open" \/ r \in aborted)
      \/ Stranded(r)

\* A run is stranded by a crash or a failing statement; a graceful shutdown
\* strands only runs that were already being cancelled.
StrandedOnlyByFailure ==
  \A r \in Requests : Stranded(r) => crashes > 0 \/ dbFaults > 0 \/ r \in aborted

\* The controllers map holds exactly the runs inside run(): none leaks and none
\* is forgotten while it can still be cancelled.
ControllersAreLive == controllers = {r \in Requests : pc[r] \in RunPcs}

\* persistTerminal may ignore what transitionStatus returns: the version it
\* holds is always the current one, and a legal start is never overtaken.
NoLostUpdate ==
  \A r \in Requests :
    /\ pc[r] = "finishing" =>
         snap[r].version = row[r].version /\ snap[r].status = row[r].status
    /\ pc[r] # "overtaken"

\* A run and its idempotency key are stored together, one key for one run, so a
\* retry of any age finds the run it started.
OneRunPerKey ==
  \A r \in Requests :
    Cardinality({k \in Keys : keyRun[k] = r}) = IF row[r].status = "none" THEN 0 ELSE 1

\* A failed run has an error message and no other run has one.
FailureHasReason ==
  \A r \in Requests : row[r].status = "failed" <=> row[r].error # "none"

\* A run that ended stores every token the engine yielded for it, and a client
\* that stayed to the end received as many.
TokensAccounted ==
  \A r \in Requests :
    row[r].status \in Terminal =>
      /\ row[r].tokenCount = tokenCount[r]
      /\ stream[r] = "ended" =>
           Cardinality({i \in DOMAIN sent[r] : sent[r][i].type = "token"}) = row[r].tokenCount

\* The response of a new run is created, status, tokens, end in this order, of
\* that run only; a response the server ended without the end of the run is the
\* doing of a failing statement.
SseOrder ==
  \A q \in Requests :
    LET frames == sent[q]
        last == Len(frames)
    IN row[q].status # "none" =>
         /\ \A i \in 1 .. last :
              /\ frames[i].run = q
              /\ frames[i].type = "created" <=> i = 1
              /\ frames[i].type = "token" => frames[2].type = "status"
              /\ frames[i].type = "status" => i = 2
              /\ frames[i].type \in Terminal => i = last
         /\ stream[q] = "ended" /\ dbFaults = 0 => frames[last].type \in Terminal

\* Since the process started, every announced run is counted once as ended, is
\* still in run(), or was lost to an exception out of the catch block.
MetricsConserved ==
  metrics["created"] =
    metrics["completed"] + metrics["cancelled"] + metrics["failed"]
      + Cardinality(controllers) + Cardinality({r \in Requests : pc[r] = "rejected"})

\* A run that was created ends, unless its task died with a failing statement
\* or with the process.
RunsSettle ==
  \A r \in Requests :
    row[r].status = "queued" ~> (row[r].status \in Terminal \/ Stranded(r))

\* An accepted cancellation ends the run as cancelled, with the same exception.
CancelSettles ==
  \A r \in Requests : r \in aborted ~> (row[r].status = "cancelled" \/ Stranded(r))

\* The response of every request ends or is closed, except for a request whose
\* handler failed after the headers were written.
ResponsesEnd ==
  \A q \in Requests : stream[q] = "open" ~> (stream[q] # "open" \/ pc[q] = "hung")

\* A graceful shutdown ends once the runs have, although nothing cancels them,
\* unless it waits for the response of a request whose handler failed.
ClosingEnds ==
  process = "closing" ~>
    (process = "down" \/ \E q \in Requests : pc[q] = "hung" /\ stream[q] = "open")

\* What is true of run r at each place its handler can be.
Phase(r) ==
  /\ busy = r <=> pc[r] \in HandlerPcs
  /\ pc[r] \in {"idle", "replayed", "refused", "hung"} => row[r].status = "none"
  /\ pc[r] \in {"created", "starting"} => row[r].status = "queued" /\ snap[r] = Read(r)
  /\ pc[r] \in {"started", "streaming"} => row[r].status = "running"
  /\ pc[r] = "streaming" => snap[r] = Read(r) /\ (stream[r] = "open" \/ r \in aborted)
  /\ pc[r] \in {"created", "starting", "started"} => r \notin aborted /\ stream[r] = "open"
  /\ pc[r] \in {"idle", "created", "starting", "started", "streaming"} => r \notin caught
  /\ pc[r] = "recovering" => r \in caught /\ row[r].status # "none"
  /\ pc[r] = "finishing" =>
       /\ row[r].status # "none"
       /\ snap[r] = Read(r)
       /\ ending[r] \in EndEvents
       /\ ending[r] = "cancel" <=> r \in aborted
       /\ r \in caught => ending[r] # "complete"
       /\ r \notin caught => IsLegal(row[r].status, ending[r])
  /\ pc[r] = "reporting" => ending[r] \in EndEvents /\ row[r].status = NextStatus(ending[r])
  /\ pc[r] = "done" => row[r].status \in Terminal
  /\ pc[r] = "rejected" => row[r].status # "none"
  /\ pc[r] # "overtaken"

\* What else is true of run r: nobody aborts it before it has started, it has a
\* controller while it is in run(), and its end fits its history.
EndAgrees(r) ==
  /\ r \in aborted => row[r].status \notin {"none", "queued"}
  /\ r \in controllers <=> pc[r] \in RunPcs
  /\ row[r].status \in Terminal => (row[r].status = "cancelled" <=> r \in aborted)
  /\ Stranded(r) => crashes > 0 \/ dbFaults > 0 \/ r \in aborted
  /\ row[r].status = "failed" <=> row[r].error # "none"

\* The inductive invariant behind the safety properties: each handler is where
\* its row, its controller, its response and its locals say it is.
PhasesAgree ==
  /\ \A r \in Requests : Phase(r) /\ EndAgrees(r)
  /\ ToldTheTruth

\* The ends of r that clients were told.
ToldEnds(r) ==
  { type \in Terminal :
      \E q \in Requests : \E i \in DOMAIN sent[q] :
        sent[q][i].run = r /\ sent[q][i].type = type }

Contract == INSTANCE RunContract WITH
  Runs <- Requests,
  status <- [r \in Requests |-> row[r].status],
  asked <- aborted,
  told <- [r \in Requests |-> ToldEnds(r)]

\* The server implements the contract of a run.
ImplementsContract == Contract!Spec

-----------------------------------------------------------------------------
(* A claim of the documentation that the code does not keep; see README.md. *)

\* README.md: a run can never end up stuck running with nothing left watching
\* it.
NeverStuckRunning ==
  process = "up" =>
    \A r \in Requests : row[r].status = "running" => busy = r \/ r \in controllers
=============================================================================
