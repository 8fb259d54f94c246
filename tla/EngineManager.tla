----------------------------- MODULE EngineManager -----------------------------
(***************************************************************************)
(* src/engine/engineManager.ts in both modes: "mock" owns a child process  *)
(* and restarts it, "llama-cpp" only polls an engine somebody else runs.   *)
(* AppState is the process around it; liveness is stated there.            *)
(*                                                                         *)
(* The i-th call of start() owns the i-th child, and its wait for the      *)
(* engine goes on, beside those of later calls, after its child has died.  *)
(* All children listen on one port, so an answer is always that of the     *)
(* last one.  A response, or a rejection, is delivered before the exit of  *)
(* the process it is about (libuv runs child watchers after sockets), and  *)
(* tells what the engine is at its delivery.  The external engine of       *)
(* llama-cpp mode is server[1] and may go and come at any time.            *)
(***************************************************************************)
EXTENDS Integers, FiniteSets

CONSTANTS
  Modes,          \* the values of ENGINE_MODE to consider
  MaxRestarts,    \* ENGINE_MAX_RESTARTS
  RestartWindow,  \* ENGINE_RESTART_WINDOW_MS, in units of the clock
  MaxStarts,      \* bound: start() calls; the child of the last one does not crash
  MaxNow          \* bound: the largest clock value

ASSUME ModeAssumption == Modes \subseteq {"mock", "llama-cpp"}
ASSUME BudgetAssumption ==
  MaxRestarts \in Nat /\ RestartWindow \in Nat \ {0} /\ MaxStarts \in Nat \ {0} /\ MaxNow \in Nat

VARIABLES
  mode,       \* ENGINE_MODE, read once
  server,     \* the engine process of each start() call
  starts,     \* start() calls made so far; the last one owns this.child
  waiting,    \* what each start() call is polling for
  inFlight,   \* start() calls with a request in flight
  expired,    \* start() calls whose deadline has passed
  ready, stopped,
  kept,       \* restartTimestamps, as the start() calls they belong to
  restartAt,  \* when each start() call was made by a restart
  now,        \* Date.now, taken not to step back
  timer,      \* healthPollTimer is set
  polling,    \* a health poll is in flight
  stopping,   \* where stop() is: "no", "waiting" or "done"
  killed      \* child.killed: SIGTERM was sent, even to a child that does not obey

waits == <<waiting, inFlight, expired>>
budget == <<kept, restartAt, now>>
health == <<timer, polling>>
vars == <<mode, server, starts, waiting, inFlight, expired, ready, stopped, kept, restartAt, now,
          timer, polling, stopping, killed>>

Starts == 1 .. MaxStarts
Alive == {"booting", "healthy", "ready"}
ServerStates == {"none", "exited", "reaped"} \union Alive
Endpoints == {"/health", "/ready"}

Running == server[starts] \in Alive

\* Whether the engine answers 200 on an endpoint.
Serves(endpoint) ==
  IF endpoint = "/health" THEN server[starts] \in {"healthy", "ready"} ELSE server[starts] = "ready"

-----------------------------------------------------------------------------
(* start().                                                                *)

\* The rest of start() once waitUntilReady has its answer.
Return(i, ok) ==
  /\ waiting' = [waiting EXCEPT ![i] = "over"]
  /\ ready' = ok
  /\ timer' = (mode = "llama-cpp")

\* The head of pollUntilOk's loop, before the deadline.
Ask(i) ==
  /\ waiting[i] \in Endpoints
  /\ i \notin inFlight \union expired
  /\ inFlight' = inFlight \union {i}
  /\ UNCHANGED <<server, starts, waiting, expired, ready, stopped, budget, health, stopping, killed>>

\* The response, or the rejection, of the request in flight.
Answered(i) ==
  /\ i \in inFlight
  /\ inFlight' = inFlight \ {i}
  /\ \/ ~Serves(waiting[i]) /\ UNCHANGED <<waiting, ready, timer>>
     \/ /\ Serves(waiting[i]) /\ mode = "mock" /\ waiting[i] = "/health"
        /\ waiting' = [waiting EXCEPT ![i] = "/ready"]
        /\ UNCHANGED <<ready, timer>>
     \/ /\ Serves(waiting[i]) /\ (mode = "mock" => waiting[i] = "/ready")
        /\ Return(i, TRUE)
  /\ UNCHANGED <<server, starts, expired, stopped, budget, polling, stopping, killed>>

\* A plausible defect: a request is made whatever the time.
GiveUpNever(i) ==
  /\ waiting[i] \in Endpoints
  /\ i \in expired \ inFlight
  /\ inFlight' = inFlight \union {i}
  /\ UNCHANGED <<server, starts, waiting, expired, ready, stopped, budget, health, stopping, killed>>

\* The head of the loop, after the deadline.
GiveUp(i) ==
  /\ waiting[i] \in Endpoints
  /\ i \in expired \ inFlight
  /\ Return(i, FALSE)
  /\ UNCHANGED <<server, starts, inFlight, expired, stopped, budget, polling, stopping, killed>>

\* Deadlines pass in the order of the calls: all have the same timeout.
Deadline(i) ==
  /\ waiting[i] \in Endpoints
  /\ i \notin expired
  /\ \A j \in 1 .. i - 1 : j \in expired \/ waiting[j] = "over"
  /\ expired' = expired \union {i}
  /\ UNCHANGED <<server, starts, waiting, inFlight, ready, stopped, budget, health, stopping, killed>>

-----------------------------------------------------------------------------
(* The child of mock mode.                                                 *)

ChildBoots ==
  /\ mode = "mock"
  /\ server[starts] \in {"booting", "healthy"}
  /\ server' = [server EXCEPT ![starts] = IF @ = "booting" THEN "healthy" ELSE "ready"]
  /\ UNCHANGED <<starts, waits, ready, stopped, budget, health, stopping, killed>>

\* It crashes, or it obeys SIGTERM: it may take any time to, for it waits for
\* its connections.
ChildDies ==
  /\ mode = "mock"
  /\ Running
  /\ starts < MaxStarts \/ killed
  /\ server' = [server EXCEPT ![starts] = "exited"]
  /\ UNCHANGED <<starts, waits, ready, stopped, budget, health, stopping, killed>>

\* A plausible defect: the window is one unit too short.
RecentShort == {i \in kept : now - restartAt[i] + 1 < RestartWindow}

\* canRestart's filter.
Recent == {i \in kept : now - restartAt[i] < RestartWindow}

\* A plausible defect: an exit that stop() caused counts like any other.
MayRestartStopped == Cardinality(Recent) < MaxRestarts

\* The handler's two early returns.
MayRestart == ~stopped /\ Cardinality(Recent) < MaxRestarts

\* A plausible defect: the handler leaves the end of ready to the next start().
ChildExitedStillReady ==
  /\ mode = "mock"
  /\ server[starts] = "exited"
  /\ stopping' = IF stopping = "waiting" THEN "done" ELSE stopping
  /\ IF MayRestart
     THEN /\ server' = [server EXCEPT ![starts] = "reaped", ![starts + 1] = "booting"]
          /\ kept' = Recent \union {starts + 1}
          /\ starts' = starts + 1
          /\ waiting' = [waiting EXCEPT ![starts + 1] = "/health"]
          /\ restartAt' = [restartAt EXCEPT ![starts + 1] = now]
          /\ ready' = FALSE
     ELSE /\ server' = [server EXCEPT ![starts] = "reaped"]
          /\ kept' = IF stopped THEN kept ELSE Recent
          /\ UNCHANGED <<starts, waiting, restartAt, ready>>
  /\ inFlight' = {}
  /\ UNCHANGED <<expired, stopped, now, health, killed>>

\* The exit handler, with the spawnChild of the start() call it makes; stop()
\* listens to the same event.  Requests to the dead child have been rejected.
ChildExited ==
  /\ mode = "mock"
  /\ server[starts] = "exited"
  /\ stopping' = IF stopping = "waiting" THEN "done" ELSE stopping
  /\ ready' = FALSE
  /\ IF MayRestart
     THEN /\ server' = [server EXCEPT ![starts] = "reaped", ![starts + 1] = "booting"]
          /\ kept' = Recent \union {starts + 1}
          /\ starts' = starts + 1
          /\ waiting' = [waiting EXCEPT ![starts + 1] = "/health"]
          /\ restartAt' = [restartAt EXCEPT ![starts + 1] = now]
     ELSE /\ server' = [server EXCEPT ![starts] = "reaped"]
          /\ kept' = IF stopped THEN kept ELSE Recent
          /\ UNCHANGED <<starts, waiting, restartAt>>
  /\ inFlight' = {}
  /\ UNCHANGED <<expired, stopped, now, health, killed>>

-----------------------------------------------------------------------------
(* The external engine of llama-cpp mode.                                  *)

\* It answers 200 once its model is loaded, and may stop at any time.
EngineComesAndGoes ==
  /\ mode = "llama-cpp"
  /\ \E next \in {"exited"} \union (IF server[1] = "exited" THEN {"booting"} ELSE {"ready"}) :
       server' = [server EXCEPT ![1] = next]
  /\ UNCHANGED <<starts, waits, ready, stopped, budget, health, stopping, killed>>

\* A plausible defect: the engine is polled only until it is ready.
HealthPollUntilReady ==
  /\ timer
  /\ ~polling
  /\ ~stopped
  /\ ~ready
  /\ polling' = TRUE
  /\ UNCHANGED <<server, starts, waits, ready, stopped, budget, timer, stopping, killed>>

HealthPoll ==
  /\ timer
  /\ ~polling
  /\ ~stopped
  /\ polling' = TRUE
  /\ UNCHANGED <<server, starts, waits, ready, stopped, budget, timer, stopping, killed>>

HealthAnswered ==
  /\ polling
  /\ ready' = Serves("/health")
  /\ polling' = FALSE
  /\ UNCHANGED <<server, starts, waits, stopped, budget, timer, stopping, killed>>

-----------------------------------------------------------------------------
(* stop().  AppState calls it after its start() has resolved, so after the *)
(* first start() of the engine has.                                        *)

StopCall ==
  /\ stopped' = TRUE
  /\ ready' = FALSE
  /\ timer' = FALSE
  /\ stopping' = IF mode = "mock" THEN "waiting" ELSE "done"
  /\ killed' = (mode = "mock" /\ server[starts] # "reaped")
  /\ UNCHANGED <<server, starts, waits, budget, polling>>

Stop == waiting[1] = "over" /\ ~stopped /\ StopCall

\* A plausible defect: stop() resolves only with the exit of the child.
StopTimeoutUnresolved ==
  /\ stopping = "waiting"
  /\ ~killed
  /\ stopping' = "done"
  /\ UNCHANGED <<server, starts, waits, ready, stopped, budget, health, killed>>

\* Two seconds later: SIGKILL only if no signal was sent.
StopTimeout ==
  /\ stopping = "waiting"
  /\ stopping' = "done"
  /\ server' = IF Running /\ ~killed THEN [server EXCEPT ![starts] = "exited"] ELSE server
  /\ UNCHANGED <<starts, waits, ready, stopped, budget, health, killed>>

Tick ==
  /\ now < MaxNow
  /\ now' = now + 1
  /\ UNCHANGED <<server, starts, waits, ready, stopped, kept, restartAt, health, stopping, killed>>

-----------------------------------------------------------------------------

\* AppState.start has called start().
Init ==
  /\ mode \in Modes
  /\ \E first \in IF mode = "mock" THEN {"booting"} ELSE {"exited", "booting", "ready"} :
       server = [i \in Starts |-> IF i = 1 THEN first ELSE "none"]
  /\ starts = 1
  /\ waiting = [i \in Starts |-> IF i = 1 THEN "/health" ELSE "none"]
  /\ inFlight = {}
  /\ expired = {}
  /\ ready = FALSE
  /\ stopped = FALSE
  /\ kept = {}
  /\ restartAt = [i \in Starts |-> 0]
  /\ now = 0
  /\ timer = FALSE
  /\ polling = FALSE
  /\ stopping = "no"
  /\ killed = FALSE

Wait(i) == Ask(i) \/ Answered(i) \/ GiveUp(i) \/ Deadline(i)

\* Every step but stop(): those of the waits, the engine and the timers.
ManagerStep ==
  \/ \E i \in Starts : Wait(i)
  \/ ChildBoots \/ ChildDies \/ ChildExited
  \/ EngineComesAndGoes \/ HealthPoll \/ HealthAnswered
  \/ StopTimeout \/ Tick

Next == (ManagerStep \/ Stop) /\ UNCHANGED mode

Spec == Init /\ [][Next]_vars

-----------------------------------------------------------------------------
(* Properties.                                                             *)

\* Every variable keeps its type.
TypeOK ==
  /\ mode \in {"mock", "llama-cpp"}
  /\ server \in [Starts -> ServerStates]
  /\ starts \in Starts
  /\ waiting \in [Starts -> Endpoints \union {"none", "over"}]
  /\ inFlight \subseteq Starts
  /\ expired \subseteq Starts
  /\ ready \in BOOLEAN /\ stopped \in BOOLEAN
  /\ kept \subseteq Starts
  /\ restartAt \in [Starts -> Nat]
  /\ now \in Nat
  /\ timer \in BOOLEAN /\ polling \in BOOLEAN
  /\ stopping \in {"no", "waiting", "done"}
  /\ killed \in BOOLEAN

\* No window of the configured length, wherever it ends, has more restarts than
\* the budget, although timestamps are dropped as they leave it.
RestartBudget ==
  \A i \in 2 .. starts :
    Cardinality({j \in 2 .. i : restartAt[i] - restartAt[j] < RestartWindow}) <= MaxRestarts

\* One child at most is alive.
OneEngine == Cardinality({i \in Starts : server[i] \in Alive}) <= 1

\* In mock mode isReady() is true only of a child that answered on /ready and
\* whose exit, if it has died, is not known yet: neither the wait of an older
\* start() nor an exhausted budget leaves it true.
ReadyIsEarned ==
  mode = "mock" /\ ready => server[starts] \in {"ready", "exited"}

\* The port is fixed and stop() is final: a child is spawned only when every earlier one
\* is gone, and none after stop() was called, although the exit handler, the waits of
\* several start() calls and stop() may come in any order.
SpawnsInTurn ==
  [][starts' # starts => ~stopped /\ \A i \in 1 .. starts : server'[i] \notin Alive]_vars

-----------------------------------------------------------------------------
(* Claims of the documentation that the code does not keep; see README.md. *)

\* docs/CONTRACT.md: /ready is 200 when the engine reports ready; here, an engine
\* that isReady() has already seen ready and that has stayed so.
StaysReady ==
  [][ready /\ ready' = FALSE /\ ~stopped' => server[starts] # "ready"]_vars

\* app.ts: AppState tears the engine down.
NoEngineAfterStop == stopping = "done" => ~Running
=============================================================================
