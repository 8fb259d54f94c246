--------------------------- MODULE EngineManagerProofs ---------------------------
(***************************************************************************)
(* The safety properties of EngineManager hold for every restart budget    *)
(* and window, and for any number of start() calls.                        *)
(***************************************************************************)
EXTENDS EngineManager, FiniteSetTheorems, TLAPS

\* Each child but the last is gone, and none has been spawned beyond it.
OldOnesGone ==
  /\ \A i \in Starts : i < starts => server[i] = "reaped"
  /\ \A i \in Starts : i > starts => server[i] = "none"

\* Only the llama-cpp mode polls, and only the mock mode restarts.
ModesApart ==
  /\ mode = "mock" => ~timer /\ ~polling
  /\ mode = "llama-cpp" => starts = 1
  /\ killed \/ stopping # "no" => stopped
  /\ mode = "mock" /\ server[starts] = "exited" => stopped \/ starts < MaxStarts

\* No timestamp that is still in the window has been dropped.
WindowKept ==
  /\ kept \subseteq 2 .. starts
  /\ \A i \in 2 .. starts : now - restartAt[i] < RestartWindow => i \in kept

ManagerInv ==
  TypeOK /\ OldOnesGone /\ ModesApart /\ WindowKept /\ RestartBudget /\ ReadyIsEarned

\* The code of the exit handler when it starts the next child, as one formula.
Restarts ==
  /\ ~stopped
  /\ Cardinality(Recent) < MaxRestarts
  /\ server' = [server EXCEPT ![starts] = "reaped", ![starts + 1] = "booting"]
  /\ kept' = Recent \union {starts + 1}
  /\ starts' = starts + 1
  /\ waiting' = [waiting EXCEPT ![starts + 1] = "/health"]
  /\ restartAt' = [restartAt EXCEPT ![starts + 1] = now]

\* A set of start() calls is finite, so its size is a number.
LEMMA StartsFinite ==
  ASSUME NEW S, S \subseteq Starts
  PROVE  IsFiniteSet(S) /\ Cardinality(S) \in Nat
<1>1. IsFiniteSet(Starts)
  BY FS_Interval, BudgetAssumption DEF Starts
<1> QED
  BY <1>1, FS_Subset, FS_CardinalityType

\* The exit handler either starts the next child or starts nothing.
LEMMA ExitCases ==
  ASSUME TypeOK, ChildExited
  PROVE  \/ Restarts
         \/ /\ server' = [server EXCEPT ![starts] = "reaped"]
            /\ kept' \in {kept, Recent}
            /\ UNCHANGED <<starts, waiting, restartAt>>
<1>1. Cardinality(Recent) \in Nat
  BY StartsFinite DEF TypeOK, Recent
<1>2. CASE ~MayRestart
  BY <1>2 DEF ChildExited
<1>3. CASE MayRestart
  BY <1>1, <1>3, BudgetAssumption DEF ChildExited, MayRestart, Restarts
<1> QED
  BY <1>2, <1>3

LEMMA InitInv == Init => ManagerInv
<1> SUFFICES ASSUME Init PROVE ManagerInv
  OBVIOUS
<1> USE ModeAssumption, BudgetAssumption
<1>1. TypeOK
  <2>1. PICK first \in ServerStates : server = [i \in Starts |-> IF i = 1 THEN first ELSE "none"]
    BY DEF Init, ServerStates, Alive
  <2>2. server \in [Starts -> ServerStates]
    BY <2>1 DEF ServerStates
  <2>3. waiting \in [Starts -> Endpoints \union {"none", "over"}] /\ restartAt \in [Starts -> Nat]
    BY DEF Init, Endpoints
  <2>4. starts \in Starts /\ now \in Nat
    BY DEF Init, Starts
  <2> QED
    BY <2>2, <2>3, <2>4 DEF Init, TypeOK
<1>2. OldOnesGone /\ ModesApart /\ WindowKept
  BY DEF Init, OldOnesGone, ModesApart, WindowKept, Starts
<1>3. RestartBudget /\ ReadyIsEarned
  BY DEF Init, RestartBudget, ReadyIsEarned
<1> QED
  BY <1>1, <1>2, <1>3 DEF ManagerInv

LEMMA StepType ==
  ASSUME TypeOK, ModesApart, [Next]_vars
  PROVE  TypeOK'
<1>0. mode' = mode
  BY DEF Next, vars
<1> USE <1>0, BudgetAssumption
<1> USE DEF TypeOK, waits, budget, health
<1>1. ASSUME NEW i \in Starts, Ask(i) PROVE TypeOK'
  BY <1>1 DEF Ask
<1>2. ASSUME NEW i \in Starts, Answered(i) PROVE TypeOK'
  BY <1>2 DEF Answered, Return, Endpoints
<1>3. ASSUME NEW i \in Starts, GiveUp(i) PROVE TypeOK'
  BY <1>3 DEF GiveUp, Return
<1>4. ASSUME NEW i \in Starts, Deadline(i) PROVE TypeOK'
  BY <1>4 DEF Deadline
<1>5. CASE ChildBoots \/ ChildDies \/ EngineComesAndGoes
  BY <1>5 DEF ChildBoots, ChildDies, EngineComesAndGoes, ServerStates, Alive
<1>6. CASE ChildExited
  <2>1. Recent \subseteq Starts
    BY DEF Recent
  <2>2. CASE Restarts
    <3>1. starts + 1 \in Starts
      BY <1>6, <2>2 DEF ModesApart, Restarts, ChildExited, Starts
    <3>2. server' \in [Starts -> ServerStates] /\ waiting' \in [Starts -> Endpoints \union {"none", "over"}]
      BY <2>2, <3>1 DEF Restarts, ServerStates, Alive, Endpoints
    <3>3. kept' \subseteq Starts /\ restartAt' \in [Starts -> Nat] /\ starts' \in Starts
      BY <2>1, <2>2, <3>1 DEF Restarts
    <3> QED
      BY <1>6, <3>2, <3>3 DEF ChildExited
  <2>3. CASE /\ server' = [server EXCEPT ![starts] = "reaped"]
             /\ kept' \in {kept, Recent}
             /\ UNCHANGED <<starts, waiting, restartAt>>
    BY <1>6, <2>1, <2>3 DEF ChildExited, ServerStates
  <2> QED
    BY <1>6, <2>2, <2>3, ExitCases
<1>7. CASE HealthPoll \/ HealthAnswered
  <2>1. Serves("/health") \in BOOLEAN
    BY DEF Serves
  <2> QED
    BY <1>7, <2>1 DEF HealthPoll, HealthAnswered
<1>8. CASE Stop
  BY <1>8 DEF Stop, StopCall, Running
<1>9. CASE StopTimeout \/ Tick
  BY <1>9 DEF StopTimeout, Tick, ServerStates
<1>10. CASE UNCHANGED vars
  BY <1>10 DEF vars
<1> QED
  BY <1>1, <1>2, <1>3, <1>4, <1>5, <1>6, <1>7, <1>8, <1>9, <1>10 DEF Next, ManagerStep, Wait

LEMMA StepChildren ==
  ASSUME TypeOK, OldOnesGone, ModesApart, [Next]_vars
  PROVE  OldOnesGone' /\ ModesApart'
<1>0. mode' = mode
  BY DEF Next, vars
<1> USE <1>0, BudgetAssumption
<1> USE DEF TypeOK, OldOnesGone, ModesApart, waits, budget, health, Starts
<1>1. ASSUME NEW i \in Starts, Ask(i) PROVE OldOnesGone' /\ ModesApart'
  BY <1>1 DEF Ask
<1>2. ASSUME NEW i \in Starts, Answered(i) PROVE OldOnesGone' /\ ModesApart'
  BY <1>2 DEF Answered, Return
<1>3. ASSUME NEW i \in Starts, GiveUp(i) PROVE OldOnesGone' /\ ModesApart'
  BY <1>3 DEF GiveUp, Return
<1>4. ASSUME NEW i \in Starts, Deadline(i) PROVE OldOnesGone' /\ ModesApart'
  BY <1>4 DEF Deadline
<1>5. CASE ChildBoots
  BY <1>5 DEF ChildBoots
<1>6. CASE ChildDies
  BY <1>6 DEF ChildDies
<1>7. CASE EngineComesAndGoes
  BY <1>7 DEF EngineComesAndGoes
<1>8. CASE ChildExited
  <2>1. ~timer' /\ ~polling' /\ (killed' \/ stopping' # "no" => stopped')
    BY <1>8 DEF ChildExited
  <2>2. CASE Restarts
    <3>1. starts + 1 \in Starts
      BY <1>8, <2>2 DEF Restarts, ChildExited
    <3>2. server'[starts'] = "booting"
      BY <2>2, <3>1 DEF Restarts
    <3>3. OldOnesGone'
      <4>1. ASSUME NEW i \in Starts, i < starts + 1 PROVE server'[i] = "reaped"
        BY <2>2, <3>1, <4>1 DEF Restarts
      <4>2. ASSUME NEW i \in Starts, i > starts + 1 PROVE server'[i] = "none"
        BY <2>2, <3>1, <4>2 DEF Restarts
      <4>3. starts' = starts + 1
        BY <2>2 DEF Restarts
      <4> QED
        BY <4>1, <4>2, <4>3
    <3>4. ModesApart'
      BY <1>8, <2>1, <3>2 DEF ChildExited
    <3> QED
      BY <3>3, <3>4
  <2>3. CASE /\ server' = [server EXCEPT ![starts] = "reaped"]
             /\ kept' \in {kept, Recent}
             /\ UNCHANGED <<starts, waiting, restartAt>>
    BY <2>1, <2>3
  <2> QED
    BY <1>8, <2>2, <2>3, ExitCases
<1>9. CASE HealthPoll \/ HealthAnswered
  BY <1>9 DEF HealthPoll, HealthAnswered
<1>10. CASE Stop
  BY <1>10 DEF Stop, StopCall, Running
<1>11. CASE StopTimeout
  BY <1>11 DEF StopTimeout
<1>12. CASE Tick \/ UNCHANGED vars
  BY <1>12 DEF Tick, vars
<1> QED
  BY <1>1, <1>2, <1>3, <1>4, <1>5, <1>6, <1>7, <1>8, <1>9, <1>10, <1>11, <1>12 DEF Next, ManagerStep, Wait

\* Only the exit handler touches the timestamps, and only Tick the clock.
LEMMA BudgetQuiet ==
  ASSUME [Next]_vars
  PROVE  ChildExited \/ Tick \/ UNCHANGED <<starts, kept, restartAt, now>>
  BY DEF Next, ManagerStep, Wait, Ask, Answered, GiveUp, Deadline, ChildBoots, ChildDies, EngineComesAndGoes,
    HealthPoll, HealthAnswered, Stop, StopCall, StopTimeout, vars, waits, budget, health

\* The size of the window that a restart ends is within the budget.
LEMMA RestartInBudget ==
  ASSUME TypeOK, WindowKept, Restarts, starts + 1 \in Starts
  PROVE  Cardinality({j \in 2 .. starts + 1 : restartAt'[starts + 1] - restartAt'[j] < RestartWindow})
           <= MaxRestarts
<1> DEFINE W == {j \in 2 .. starts + 1 : restartAt'[starts + 1] - restartAt'[j] < RestartWindow}
<1>1. W \subseteq Recent \union {starts + 1}
  <2>1. SUFFICES ASSUME NEW j \in W, j # starts + 1 PROVE j \in Recent
    OBVIOUS
  <2>2. j \in 2 .. starts /\ now - restartAt[j] < RestartWindow
    BY <2>1 DEF Restarts, TypeOK, Starts
  <2> QED
    BY <2>2 DEF WindowKept, Recent
<1>2. IsFiniteSet(Recent) /\ Cardinality(Recent) \in Nat
  BY StartsFinite DEF Recent, TypeOK
<1>3. /\ IsFiniteSet(Recent \union {starts + 1})
      /\ Cardinality(Recent \union {starts + 1}) <= Cardinality(Recent) + 1
      /\ Cardinality(Recent \union {starts + 1}) \in Nat
  <2>1. /\ IsFiniteSet(Recent \union {starts + 1})
        /\ \/ Cardinality(Recent \union {starts + 1}) = Cardinality(Recent)
           \/ Cardinality(Recent \union {starts + 1}) = Cardinality(Recent) + 1
    BY <1>2, FS_AddElement
  <2> QED
    BY <1>2, <2>1
<1>4. Cardinality(W) <= Cardinality(Recent \union {starts + 1}) /\ Cardinality(W) \in Nat
  BY <1>1, <1>3, FS_Subset, FS_CardinalityType
<1>5. Cardinality(Recent) + 1 <= MaxRestarts
  BY <1>2, BudgetAssumption DEF Restarts
<1> QED
  BY <1>2, <1>3, <1>4, <1>5, BudgetAssumption

LEMMA StepBudget ==
  ASSUME TypeOK, ModesApart, WindowKept, RestartBudget, [Next]_vars
  PROVE  WindowKept' /\ RestartBudget'
<1> USE BudgetAssumption
<1>1. CASE UNCHANGED <<starts, kept, restartAt, now>>
  BY <1>1 DEF WindowKept, RestartBudget
<1>2. CASE Tick
  <2>1. /\ UNCHANGED <<starts, kept, restartAt>>
        /\ now' = now + 1 /\ now \in Nat
    BY <1>2 DEF Tick, TypeOK
  <2>2. \A i \in 2 .. starts : restartAt[i] \in Nat
    BY DEF TypeOK, Starts
  <2>3. \A i \in 2 .. starts : now' - restartAt[i] < RestartWindow => now - restartAt[i] < RestartWindow
    BY <2>1, <2>2
  <2>4. WindowKept'
    BY <2>1, <2>3 DEF WindowKept
  <2>5. RestartBudget'
    BY <2>1 DEF RestartBudget
  <2> QED
    BY <2>4, <2>5
<1>3. CASE ChildExited
  <2>1. now' = now
    BY <1>3 DEF ChildExited
  <2>2. CASE Restarts
    <3>1. starts + 1 \in Starts
      BY <1>3, <2>2 DEF ModesApart, Restarts, ChildExited, TypeOK, Starts
    <3>2. \A j \in 2 .. starts : restartAt'[j] = restartAt[j]
      BY <2>2 DEF Restarts, TypeOK, Starts
    <3>3. WindowKept'
      <4>1. kept' = Recent \union {starts'} /\ starts' = starts + 1 /\ starts \in Nat \ {0}
        BY <2>2 DEF Restarts, TypeOK, Starts
      <4>2. kept' \subseteq 2 .. starts'
        <5>1. Recent \subseteq 2 .. starts
          BY DEF WindowKept, Recent
        <5>2. 2 .. starts \subseteq 2 .. starts + 1 /\ starts + 1 \in 2 .. starts + 1
          BY <4>1
        <5> QED
          BY <4>1, <5>1, <5>2
      <4>3. ASSUME NEW i \in 2 .. starts', now' - restartAt'[i] < RestartWindow
            PROVE  i \in kept'
        <5>1. CASE i = starts'
          BY <4>1, <5>1
        <5>2. CASE i \in 2 .. starts
          <6>1. now - restartAt[i] < RestartWindow
            BY <2>1, <3>2, <4>3, <5>2 DEF TypeOK
          <6> QED
            BY <4>1, <5>2, <6>1 DEF WindowKept, Recent
        <5> QED
          BY <4>1, <5>1, <5>2
      <4> QED
        BY <4>2, <4>3 DEF WindowKept
    <3>4. ASSUME NEW i \in 2 .. starts + 1
          PROVE  Cardinality({j \in 2 .. i : restartAt'[i] - restartAt'[j] < RestartWindow}) <= MaxRestarts
      <4>1. CASE i = starts + 1
        BY <2>2, <3>1, <4>1, RestartInBudget
      <4>2. CASE i \in 2 .. starts
        <5>1. {j \in 2 .. i : restartAt'[i] - restartAt'[j] < RestartWindow}
                = {j \in 2 .. i : restartAt[i] - restartAt[j] < RestartWindow}
          <6>1. restartAt'[i] = restartAt[i]
            BY <3>2, <4>2
          <6>2. \A j \in 2 .. i : restartAt'[j] = restartAt[j]
            BY <3>2, <4>2 DEF TypeOK, Starts
          <6> QED
            BY <6>1, <6>2
        <5> QED
          BY <4>2, <5>1 DEF RestartBudget
      <4> QED
        BY <4>1, <4>2 DEF TypeOK, Starts
    <3> QED
      BY <2>2, <3>3, <3>4 DEF RestartBudget, Restarts
  <2>3. CASE kept' \in {kept, Recent} /\ UNCHANGED <<starts, restartAt>>
    BY <2>1, <2>3 DEF WindowKept, RestartBudget, Recent
  <2> QED
    BY <1>3, <2>2, <2>3, ExitCases
<1> QED
  BY <1>1, <1>2, <1>3, BudgetQuiet

LEMMA StepReady ==
  ASSUME TypeOK, ModesApart, ReadyIsEarned, [Next]_vars
  PROVE  ReadyIsEarned'
<1>0. mode' = mode
  BY DEF Next, vars
<1> SUFFICES ASSUME mode = "mock" PROVE ReadyIsEarned'
  BY <1>0 DEF ReadyIsEarned
<1> USE <1>0
<1> USE DEF TypeOK, ReadyIsEarned, waits, budget, health
<1>1. ASSUME NEW i \in Starts, Ask(i) PROVE ReadyIsEarned'
  BY <1>1 DEF Ask
<1>2. ASSUME NEW i \in Starts, Answered(i) PROVE ReadyIsEarned'
  BY <1>2 DEF Answered, Return, Serves
<1>3. ASSUME NEW i \in Starts, GiveUp(i) PROVE ReadyIsEarned'
  BY <1>3 DEF GiveUp, Return
<1>4. ASSUME NEW i \in Starts, Deadline(i) PROVE ReadyIsEarned'
  BY <1>4 DEF Deadline
<1>5. CASE ChildBoots
  BY <1>5 DEF ChildBoots
<1>6. CASE ChildDies
  BY <1>6 DEF ChildDies
<1>7. CASE ChildExited \/ Stop
  BY <1>7 DEF ChildExited, Stop, StopCall
<1>8. CASE EngineComesAndGoes \/ HealthPoll \/ HealthAnswered
  BY <1>8 DEF EngineComesAndGoes, HealthPoll, HealthAnswered, ModesApart
<1>9. CASE StopTimeout
  BY <1>9 DEF StopTimeout
<1>10. CASE Tick \/ UNCHANGED vars
  BY <1>10 DEF Tick, vars
<1> QED
  BY <1>1, <1>2, <1>3, <1>4, <1>5, <1>6, <1>7, <1>8, <1>9, <1>10 DEF Next, ManagerStep, Wait

LEMMA ManagerInvStep ==
  ASSUME ManagerInv, [Next]_vars
  PROVE  ManagerInv'
<1>1. TypeOK'
  BY StepType DEF ManagerInv
<1>2. OldOnesGone' /\ ModesApart'
  BY StepChildren DEF ManagerInv
<1>3. WindowKept' /\ RestartBudget'
  BY StepBudget DEF ManagerInv
<1>4. ReadyIsEarned'
  BY StepReady DEF ManagerInv
<1> QED
  BY <1>1, <1>2, <1>3, <1>4 DEF ManagerInv

\* The inductive invariant: old children are gone, the two modes keep apart, and
\* no timestamp of the window is missing.
THEOREM ManagerInvAlways == Spec => []ManagerInv
  BY InitInv, ManagerInvStep, PTL DEF Spec

\* Type correctness of EngineManager.
THEOREM TypeCorrect == Spec => []TypeOK
<1>1. ManagerInv => TypeOK
  BY DEF ManagerInv
<1> QED
  BY ManagerInvAlways, <1>1, PTL

\* canRestart keeps every window, wherever it ends, within ENGINE_MAX_RESTARTS.
THEOREM RestartBudgetAlways == Spec => []RestartBudget
<1>1. ManagerInv => RestartBudget
  BY DEF ManagerInv
<1> QED
  BY ManagerInvAlways, <1>1, PTL

\* isReady() of the mock mode is never true of a child that did not answer.
THEOREM ReadyIsEarnedAlways == Spec => []ReadyIsEarned
<1>1. ManagerInv => ReadyIsEarned
  BY DEF ManagerInv
<1> QED
  BY ManagerInvAlways, <1>1, PTL

\* At most one engine process of this manager is alive.
THEOREM OneEngineAlways == Spec => []OneEngine
<1>1. ASSUME ManagerInv PROVE OneEngine
  <2> DEFINE A == {i \in Starts : server[i] \in Alive}
  <2>1. A \subseteq {starts}
    BY <1>1 DEF ManagerInv, TypeOK, OldOnesGone, Alive, Starts
  <2>2. IsFiniteSet({starts}) /\ Cardinality({starts}) = 1
    BY FS_Singleton
  <2>3. Cardinality(A) <= 1
    BY <2>1, <2>2, FS_Subset
  <2> QED
    BY <2>3 DEF OneEngine
<1> QED
  BY ManagerInvAlways, <1>1, PTL

\* No child is spawned beside a living one, and none once stop() was called.
THEOREM SpawnsInTurnAlways == Spec => SpawnsInTurn
<1> DEFINE InTurn == starts' # starts => ~stopped /\ \A i \in 1 .. starts : server'[i] \notin Alive
<1>1. ASSUME ManagerInv, [Next]_vars PROVE [InTurn]_vars
  <2>1. CASE ChildExited /\ starts' # starts
    <3>1. Restarts
      BY <2>1, <1>1, ExitCases DEF ManagerInv
    <3>2. ~stopped /\ starts \in Starts
      BY <1>1, <3>1 DEF Restarts, ManagerInv, TypeOK
    <3>3. ASSUME NEW i \in 1 .. starts PROVE server'[i] = "reaped"
      <4>1. i \in Starts /\ i # starts + 1
        BY <3>2, BudgetAssumption DEF Starts
      <4>2. CASE i = starts
        BY <1>1, <3>1, <4>1, <4>2 DEF Restarts, ManagerInv, TypeOK
      <4>3. CASE i < starts
        BY <1>1, <3>1, <4>1, <4>3 DEF Restarts, ManagerInv, TypeOK, OldOnesGone
      <4> QED
        BY <3>2, <4>2, <4>3 DEF Starts
    <3> QED
      BY <3>2, <3>3 DEF Alive
  <2>2. CASE Tick
    BY <2>2 DEF Tick
  <2> QED
    BY <1>1, <2>1, <2>2, BudgetQuiet
<1> QED
  BY ManagerInvAlways, <1>1, PTL DEF Spec, SpawnsInTurn
=============================================================================
