-------------------------------- MODULE AppState --------------------------------
(***************************************************************************)
(* One process of the node: src/server.ts and the AppState of src/app.ts   *)
(* around the EngineManager they own.  start() awaits the engine and then  *)
(* listens; a signal stops Fastify, then the engine, then the database.    *)
(*                                                                         *)
(* A request is a response that Fastify's close() waits for.  When its     *)
(* client leaves, the response is gone but the handler goes on, and close()*)
(* does not wait for it.  A process that is gone makes no step.            *)
(***************************************************************************)
EXTENDS EngineManager

CONSTANT Requests   \* connections a client may use for one request after another

VARIABLES
  lifecycle,  \* AppState.lifecycle, from its "starting" on
  process,    \* "up" or "gone"
  listening,  \* Fastify accepts requests
  responses,  \* requests being answered
  tasks,      \* requests whose handler runs on without its client
  dbOpen

appVars == <<lifecycle, process, listening, responses, tasks, dbOpen>>
nodeVars == <<vars, appVars>>

\* A step of the manager in a process that is up.
InManager(A) == process = "up" /\ A /\ UNCHANGED <<mode, appVars>>

\* A step of the process that the manager takes no part in.
InApp(A) == process = "up" /\ A /\ UNCHANGED vars

-----------------------------------------------------------------------------
(* AppState.start.                                                         *)

\* listen() has resolved; server.ts installs its signal handlers in the same turn.
StartListening ==
  /\ lifecycle = "starting"
  /\ waiting[1] = "over"
  /\ lifecycle' = "running"
  /\ listening' = TRUE
  /\ UNCHANGED <<process, responses, tasks, dbOpen>>

\* The port is taken: main().catch exits, and nothing stops the engine.
ListenFails ==
  /\ lifecycle = "starting"
  /\ waiting[1] = "over"
  /\ process' = "gone"
  /\ UNCHANGED <<lifecycle, listening, responses, tasks, dbOpen>>

-----------------------------------------------------------------------------
(* Requests.                                                               *)

Request(q) ==
  /\ listening
  /\ q \notin responses \union tasks
  /\ responses' = responses \union {q}
  /\ UNCHANGED <<lifecycle, process, listening, tasks, dbOpen>>

ResponseEnds(q) ==
  /\ q \in responses
  /\ responses' = responses \ {q}
  /\ UNCHANGED <<lifecycle, process, listening, tasks, dbOpen>>

\* The client leaves before the end.
ResponseLost(q) ==
  /\ q \in responses
  /\ responses' = responses \ {q}
  /\ tasks' = tasks \union {q}
  /\ UNCHANGED <<lifecycle, process, listening, dbOpen>>

TaskEnds(q) ==
  /\ q \in tasks
  /\ tasks' = tasks \ {q}
  /\ UNCHANGED <<lifecycle, process, listening, responses, dbOpen>>

-----------------------------------------------------------------------------
(* The signal handler of server.ts and AppState.stop.                      *)

\* The first SIGINT or SIGTERM after the handlers are there; later ones find
\* shuttingDown set.  Fastify's close() stops listening at once.
Signal ==
  /\ lifecycle = "running"
  /\ lifecycle' = "stopping"
  /\ listening' = FALSE
  /\ UNCHANGED <<process, responses, tasks, dbOpen>>

\* A plausible defect: the engine is stopped without waiting for Fastify.
EngineStopsEarly ==
  /\ lifecycle = "stopping"
  /\ ~stopped
  /\ StopCall

\* Fastify's close() resolves once no response is open, and engine.stop() follows.
EngineStops ==
  /\ lifecycle = "stopping"
  /\ ~stopped
  /\ responses = {}
  /\ StopCall

\* engine.stop() has resolved: the database is closed and the process exits, in
\* one turn of the event loop.
ShutDown ==
  /\ lifecycle = "stopping"
  /\ stopping = "done"
  /\ dbOpen' = FALSE
  /\ lifecycle' = "stopped"
  /\ process' = "gone"
  /\ UNCHANGED <<listening, responses, tasks>>

\* SIGKILL, a crash, or a signal before server.ts handles it.
Killed ==
  /\ process' = "gone"
  /\ UNCHANGED <<lifecycle, listening, responses, tasks, dbOpen>>

-----------------------------------------------------------------------------

NodeInit ==
  /\ Init
  /\ lifecycle = "starting"
  /\ process = "up"
  /\ listening = FALSE
  /\ responses = {}
  /\ tasks = {}
  /\ dbOpen = TRUE

NodeNext ==
  \/ InManager(ManagerStep)
  \/ InManager(EngineStops)
  \/ InApp(StartListening \/ ListenFails \/ Signal \/ ShutDown \/ Killed)
  \/ \E q \in Requests : InApp(Request(q) \/ ResponseEnds(q) \/ ResponseLost(q) \/ TaskEnds(q))

NodeSpec == NodeInit /\ [][NodeNext]_nodeVars

\* Timers fire, the local engine answers or refuses, time passes, and what was
\* awaited is resumed.  Nothing is assumed of the engine, of the clients or of the
\* time a response takes.
NodeFairness ==
  /\ \A i \in Starts :
       /\ WF_nodeVars(InManager(Ask(i))) /\ WF_nodeVars(InManager(Answered(i)))
       /\ WF_nodeVars(InManager(GiveUp(i))) /\ WF_nodeVars(InManager(Deadline(i)))
  /\ WF_nodeVars(InManager(ChildExited)) /\ WF_nodeVars(InManager(StopTimeout))
  /\ WF_nodeVars(InManager(HealthPoll)) /\ WF_nodeVars(InManager(HealthAnswered))
  /\ WF_nodeVars(InManager(EngineStops)) /\ WF_nodeVars(InApp(ShutDown))
  /\ WF_nodeVars(InApp(StartListening \/ ListenFails))

NodeFairSpec == NodeSpec /\ NodeFairness

-----------------------------------------------------------------------------
(* Properties.                                                             *)

\* Every variable of the process keeps its type.
AppTypeOK ==
  /\ lifecycle \in {"starting", "running", "stopping", "stopped"}
  /\ process \in {"up", "gone"}
  /\ listening \in BOOLEAN /\ dbOpen \in BOOLEAN
  /\ responses \subseteq Requests /\ tasks \subseteq Requests

\* AppState.stop tears down in order: the manager is stopped only when nobody can
\* see it any more, so not what a late health poll makes of isReady(), and the
\* database is open for whatever still runs, until the engine has stopped.
TornDownInOrder ==
  /\ stopped => responses = {} /\ ~listening
  /\ process = "up" /\ (responses # {} \/ tasks # {}) => dbOpen
  /\ ~dbOpen => stopping = "done"

\* Every start() of the engine returns whatever the engine does, and with the first
\* the startup of the process is over: it runs, or it has failed.
StartsReturn ==
  /\ \A i \in Starts : waiting[i] \in Endpoints ~> waiting[i] = "over" \/ process = "gone"
  /\ <>(lifecycle # "starting" \/ process = "gone")

\* A shutdown whose responses have ended ends, also with an engine that ignores
\* SIGTERM, that is dead, or whose start() is still waiting.
ShutdownEnds == lifecycle = "stopping" /\ responses = {} ~> process = "gone"

\* Until the manager is stopped, readiness follows an external engine that comes
\* back and one that goes away.
FollowsEngine ==
  /\ <>[](process = "up" /\ timer /\ server[1] = "ready") => <>[]ready
  /\ <>[](process = "up" /\ timer /\ server[1] # "ready") => <>[]~ready
=============================================================================
