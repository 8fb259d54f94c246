----------------------------- MODULE AppStateProofs -----------------------------
(***************************************************************************)
(* The process implements the engine manager's specification, so what is   *)
(* proved of the manager holds of the process, and it tears down in order. *)
(***************************************************************************)
EXTENDS AppState, EngineManagerProofs

\* What the order of start() and stop() makes true at every step.
InOrder ==
  /\ lifecycle # "starting" => waiting[1] = "over"
  /\ listening => lifecycle = "running"
  /\ stopped => lifecycle \in {"stopping", "stopped"} /\ responses = {}
  /\ ~dbOpen => stopping = "done" /\ process = "gone"

\* The step of the process that calls engine.stop().
LEMMA StopsInOrder ==
  ASSUME InOrder, InManager(EngineStops)
  PROVE  Stop /\ UNCHANGED mode
  BY DEF InOrder, InManager, EngineStops, Stop

\* A step of the process is one of the manager or leaves the manager alone.
LEMMA NodeStep ==
  ASSUME InOrder, [NodeNext]_nodeVars
  PROVE  [Next]_vars
<1>1. CASE InManager(ManagerStep)
  BY <1>1 DEF InManager, Next
<1>2. CASE InManager(EngineStops)
  BY <1>2, StopsInOrder DEF Next
<1>3. CASE InApp(StartListening \/ ListenFails \/ Signal \/ ShutDown \/ Killed)
  BY <1>3 DEF InApp
<1>4. CASE \E q \in Requests : InApp(Request(q) \/ ResponseEnds(q) \/ ResponseLost(q) \/ TaskEnds(q))
  BY <1>4 DEF InApp
<1>5. CASE UNCHANGED nodeVars
  BY <1>5 DEF nodeVars
<1> QED
  BY <1>1, <1>2, <1>3, <1>4, <1>5 DEF NodeNext

\* A wait that is over stays so, and only stop() changes what stop() has set.
LEMMA ManagerKeeps ==
  ASSUME TypeOK, ManagerStep
  PROVE  /\ waiting[1] = "over" => waiting'[1] = "over"
         /\ stopped' = stopped
         /\ stopping = "done" => stopping' = "done"
<1> USE DEF TypeOK, waits, budget, health
<1>1. ASSUME NEW i \in Starts, Wait(i)
      PROVE  /\ waiting[1] = "over" => waiting'[1] = "over"
             /\ stopped' = stopped
             /\ stopping = "done" => stopping' = "done"
  <2>1. CASE Ask(i) \/ Deadline(i)
    BY <2>1 DEF Ask, Deadline
  <2>2. CASE Answered(i)
    <3>1. UNCHANGED <<stopped, stopping>>
      BY <2>2 DEF Answered
    <3>2. \/ waiting' = waiting
          \/ waiting[i] # "over" /\ waiting' = [waiting EXCEPT ![i] = "/ready"]
          \/ waiting' = [waiting EXCEPT ![i] = "over"]
      BY <2>2 DEF Answered, Return
    <3>3. 1 \in Starts
      BY BudgetAssumption DEF Starts
    <3> QED
      BY <3>1, <3>2, <3>3
  <2>3. CASE GiveUp(i)
    BY <2>3 DEF GiveUp, Return
  <2> QED
    BY <1>1, <2>1, <2>2, <2>3 DEF Wait
<1>2. CASE ChildExited
  <2>1. waiting[1] = "over" => waiting'[1] = "over"
    <3>1. CASE Restarts
      BY <3>1 DEF Restarts, Starts
    <3>2. CASE waiting' = waiting
      BY <3>2
    <3> QED
      BY <1>2, <3>1, <3>2, ExitCases
  <2> QED
    BY <1>2, <2>1 DEF ChildExited
<1>3. CASE ChildBoots \/ ChildDies \/ EngineComesAndGoes
  BY <1>3 DEF ChildBoots, ChildDies, EngineComesAndGoes
<1>4. CASE HealthPoll \/ HealthAnswered \/ StopTimeout \/ Tick
  BY <1>4 DEF HealthPoll, HealthAnswered, StopTimeout, Tick
<1> QED
  BY <1>1, <1>2, <1>3, <1>4 DEF ManagerStep

LEMMA StepInOrder ==
  ASSUME TypeOK, InOrder, [NodeNext]_nodeVars
  PROVE  InOrder'
<1> USE DEF InOrder
<1>1. CASE InManager(ManagerStep)
  BY <1>1, ManagerKeeps DEF InManager, appVars
<1>2. CASE InManager(EngineStops)
  BY <1>2 DEF InManager, EngineStops, StopCall, appVars, waits
<1>3. CASE InApp(StartListening \/ ListenFails \/ Signal \/ ShutDown \/ Killed)
  BY <1>3 DEF InApp, StartListening, ListenFails, Signal, ShutDown, Killed, vars
<1>4. ASSUME NEW q \in Requests, InApp(Request(q) \/ ResponseEnds(q) \/ ResponseLost(q) \/ TaskEnds(q))
      PROVE  InOrder'
  BY <1>4 DEF InApp, Request, ResponseEnds, ResponseLost, TaskEnds, vars
<1>5. CASE UNCHANGED nodeVars
  BY <1>5 DEF nodeVars, appVars, vars
<1> QED
  BY <1>1, <1>2, <1>3, <1>4, <1>5 DEF NodeNext

LEMMA StepApp ==
  ASSUME AppTypeOK, [NodeNext]_nodeVars
  PROVE  AppTypeOK'
<1> USE DEF AppTypeOK
<1>1. CASE InManager(ManagerStep) \/ InManager(EngineStops)
  BY <1>1 DEF InManager, appVars
<1>2. CASE InApp(StartListening \/ ListenFails \/ Signal \/ ShutDown \/ Killed)
  BY <1>2 DEF InApp, StartListening, ListenFails, Signal, ShutDown, Killed
<1>3. ASSUME NEW q \in Requests, InApp(Request(q) \/ ResponseEnds(q) \/ ResponseLost(q) \/ TaskEnds(q))
      PROVE  AppTypeOK'
  BY <1>3 DEF InApp, Request, ResponseEnds, ResponseLost, TaskEnds
<1>4. CASE UNCHANGED nodeVars
  BY <1>4 DEF nodeVars, appVars
<1> QED
  BY <1>1, <1>2, <1>3, <1>4 DEF NodeNext

NodeInv == ManagerInv /\ AppTypeOK /\ InOrder

\* The invariant of the manager, and the order in which AppState calls it.
THEOREM NodeInvAlways == NodeSpec => []NodeInv
<1>1. NodeInit => NodeInv
  BY InitInv DEF NodeInit, NodeInv, AppTypeOK, InOrder, Init
<1>2. ASSUME NodeInv, [NodeNext]_nodeVars PROVE NodeInv'
  <2>1. [Next]_vars
    BY <1>2, NodeStep DEF NodeInv
  <2>2. ManagerInv'
    BY <1>2, <2>1, ManagerInvStep DEF NodeInv
  <2> QED
    BY <1>2, <2>2, StepInOrder, StepApp DEF NodeInv, ManagerInv
<1> QED
  BY <1>1, <1>2, PTL DEF NodeSpec

\* A process that starts the manager, and stops it as AppState.stop does, follows
\* the manager's specification.
THEOREM NodeImplementsManager == NodeSpec => Spec
<1>1. NodeInit => Init
  BY DEF NodeInit
<1>2. ASSUME NodeInv, [NodeNext]_nodeVars PROVE [Next]_vars
  BY <1>2, NodeStep DEF NodeInv
<1> QED
  BY <1>1, <1>2, NodeInvAlways, PTL DEF NodeSpec, Spec

\* AppState.stop stops the manager when nobody is served any more, and closes the
\* database when the manager has stopped.
THEOREM TornDownInOrderAlways == NodeSpec => []TornDownInOrder
<1>1. NodeInv => TornDownInOrder
  BY DEF NodeInv, InOrder, TornDownInOrder, AppTypeOK
<1> QED
  BY NodeInvAlways, <1>1, PTL
=============================================================================
