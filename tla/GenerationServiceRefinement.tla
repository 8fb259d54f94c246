---------------------- MODULE GenerationServiceRefinement ----------------------
(***************************************************************************)
(* The server implements the contract of a run, for any number of requests *)
(* and keys and any number of crashes, shutdowns and failing statements.   *)
(***************************************************************************)
EXTENDS GenerationServiceProofs

\* The state of the contract, as a function of the state of the server.
StatusOf == [r \in Requests |-> row[r].status]
ToldOf == [r \in Requests |-> ToldEnds(r)]

\* What a step of the server is for the contract.
ContractStep == [Contract!Next]_(Contract!vars)

-----------------------------------------------------------------------------
(* Frames and ends told.                                                   *)

\* Nothing was written for a request that has not been made.
IdleSilent == \A q \in Requests : pc[q] = "idle" => sent[q] = <<>>

\* Appending a frame tells its end, if it announces one.
LEMMA EmitTells ==
  ASSUME TypeOK, NEW q \in Requests, NEW frame \in Frame, Emit(q, frame),
         NEW r \in Requests
  PROVE  ToldEnds(r)' =
           ToldEnds(r) \union
             IF stream[q] = "open" /\ frame.run = r /\ frame.type \in Terminal
             THEN {frame.type} ELSE {}
<1>1. CASE stream[q] # "open"
  <2>1. sent' = sent
    BY <1>1 DEF Emit
  <2> QED BY <1>1, <2>1 DEF ToldEnds
<1>2. CASE stream[q] = "open"
  <2>1. sent' = [sent EXCEPT ![q] = Append(@, frame)]
    BY <1>2 DEF Emit
  <2>2. sent[q] \in Seq(Frame)
    BY DEF TypeOK
  <2>3. \A p \in Requests \ {q} : sent'[p] = sent[p]
    BY <2>1 DEF TypeOK
  <2>4. sent'[q] = Append(sent[q], frame)
    BY <2>1 DEF TypeOK
  <2>5. DOMAIN sent'[q] = DOMAIN sent[q] \union {Len(sent[q]) + 1}
    BY <2>2, <2>4
  <2>6. \A i \in DOMAIN sent[q] : sent'[q][i] = sent[q][i]
    BY <2>2, <2>4
  <2>7. sent'[q][Len(sent[q]) + 1] = frame
    BY <2>2, <2>4
  <2>8. ASSUME NEW type \in Terminal
        PROVE  type \in ToldEnds(r)' <=>
                 type \in ToldEnds(r) \/ (frame.run = r /\ frame.type = type)
    <3>1. ASSUME type \in ToldEnds(r)'
          PROVE  type \in ToldEnds(r) \/ (frame.run = r /\ frame.type = type)
      <4>1. PICK p \in Requests : \E i \in DOMAIN sent'[p] :
              sent'[p][i].run = r /\ sent'[p][i].type = type
        BY <3>1 DEF ToldEnds
      <4>2. PICK i \in DOMAIN sent'[p] : sent'[p][i].run = r /\ sent'[p][i].type = type
        BY <4>1
      <4>3. CASE p # q
        BY <4>2, <4>3, <2>3 DEF ToldEnds
      <4>4. CASE p = q /\ i \in DOMAIN sent[q]
        BY <4>2, <4>4, <2>6 DEF ToldEnds
      <4>5. CASE p = q /\ i = Len(sent[q]) + 1
        BY <4>2, <4>5, <2>7
      <4> QED BY <4>3, <4>4, <4>5, <2>5
    <3>2. ASSUME type \in ToldEnds(r) PROVE type \in ToldEnds(r)'
      <4>1. PICK p \in Requests : \E i \in DOMAIN sent[p] :
              sent[p][i].run = r /\ sent[p][i].type = type
        BY <3>2 DEF ToldEnds
      <4>2. PICK i \in DOMAIN sent[p] : sent[p][i].run = r /\ sent[p][i].type = type
        BY <4>1
      <4>3. i \in DOMAIN sent'[p] /\ sent'[p][i] = sent[p][i]
        BY <2>3, <2>5, <2>6
      <4> QED BY <4>2, <4>3 DEF ToldEnds
    <3>3. ASSUME frame.run = r /\ frame.type = type PROVE type \in ToldEnds(r)'
      BY <3>3, <2>5, <2>7 DEF ToldEnds
    <3> QED BY <3>1, <3>2, <3>3
  <2>9. ToldEnds(r) \subseteq Terminal /\ ToldEnds(r)' \subseteq Terminal
    BY DEF ToldEnds
  <2> QED BY <1>2, <2>8, <2>9
<1> QED BY <1>1, <1>2

\* Frames that announce no end leave what was told as it is.
LEMMA EmitSilent ==
  ASSUME TypeOK, NEW q \in Requests, NEW frame \in Frame, Emit(q, frame),
         frame.type \notin Terminal
  PROVE  ToldOf' = ToldOf
<1>1. ASSUME NEW r \in Requests PROVE ToldEnds(r)' = ToldEnds(r)
  <2>1. ToldEnds(r)' =
          ToldEnds(r) \union
            IF stream[q] = "open" /\ frame.run = r /\ frame.type \in Terminal
            THEN {frame.type} ELSE {}
    BY EmitTells, Zenon
  <2> QED BY <2>1
<1> QED BY <1>1 DEF ToldOf

-----------------------------------------------------------------------------
(* Steps of the contract.                                                  *)

\* A step that changes none of the three is a stutter.
LEMMA Stutter ==
  ASSUME StatusOf' = StatusOf, aborted' = aborted, ToldOf' = ToldOf
  PROVE  ContractStep
BY DEF ContractStep, Contract!vars, StatusOf, ToldOf

\* The UPDATE of run q with the version it has sets its status and no other.
LEMMA UpdateSets ==
  ASSUME TypeOK, NEW q \in Requests, NEW status, NEW count, NEW error,
         row' = TransitionStatus(q, row[q].version, status, count, error)
  PROVE  StatusOf' = [StatusOf EXCEPT ![q] = status]
<1>1. row'[q].status = status
  BY DEF TransitionStatus, TypeOK
<1>2. \A r \in Requests \ {q} : row'[r] = row[r]
  BY DEF TransitionStatus, TypeOK
<1> QED BY <1>1, <1>2 DEF StatusOf

\* The UPDATE that starts a run.
LEMMA StartMaps ==
  ASSUME TypeOK, PhasesAgree, NEW q \in Requests, StartRun(q)
  PROVE  ContractStep
<1>1. row[q].status = "queued" /\ snap[q] = Read(q)
  BY DEF StartRun, At, PhasesAgree, Phase
<1>2. StatusOf' = [StatusOf EXCEPT ![q] = "running"]
  <2>1. row' = TransitionStatus(q, row[q].version, NextStatus("start"), row[q].tokenCount, "none")
    BY <1>1 DEF StartRun, Read
  <2>2. StatusOf' = [StatusOf EXCEPT ![q] = NextStatus("start")]
    BY <2>1, UpdateSets, Zenon
  <2> QED BY <2>2, NextStatusEnds
<1>3. aborted' = aborted /\ ToldOf' = ToldOf
  BY DEF StartRun, ToldOf, ToldEnds
<1>4. StatusOf[q] = "queued"
  BY <1>1 DEF StatusOf
<1>5. Contract!Start(q)
  BY <1>2, <1>3, <1>4 DEF Contract!Start, StatusOf, ToldOf
<1> QED BY <1>5 DEF ContractStep, Contract!Next

\* The UPDATE that ends a run.
LEMMA PersistMaps ==
  ASSUME TypeOK, PhasesAgree, NEW q \in Requests, Persist(q)
  PROVE  ContractStep
<1>1. /\ snap[q] = Read(q) /\ ending[q] \in EndEvents
      /\ ending[q] = "cancel" <=> q \in aborted
  BY DEF Persist, At, PhasesAgree, Phase
<1>2. StatusOf' = [StatusOf EXCEPT ![q] = NextStatus(ending[q])]
  <2>1. row' = TransitionStatus(q, row[q].version, NextStatus(ending[q]), tokenCount[q], ErrorOf(q))
    BY <1>1 DEF Persist, Read
  <2> QED BY <2>1, UpdateSets, Zenon
<1>3. aborted' = aborted /\ ToldOf' = ToldOf
  BY DEF Persist, ToldOf, ToldEnds
<1>4. IsLegal(StatusOf[q], ending[q])
  BY <1>1 DEF Persist, Read, StatusOf
<1>5. PICK event \in EndEvents : event = ending[q]
  BY <1>1
<1>6. Contract!Settle(q, event)
  BY <1>1, <1>2, <1>3, <1>4, <1>5
     DEF Contract!Settle, Contract!IsLegal, Contract!AllowedFrom, Contract!NextStatus,
         Contract!RunStatuses, Contract!Terminal, IsLegal, AllowedFrom, NextStatus,
         StatusOf, ToldOf
<1>7. event \in Contract!EndEvents
  BY DEF EndEvents, RunEvents, Contract!EndEvents, Contract!RunEvents
<1> QED BY <1>6, <1>7 DEF ContractStep, Contract!Next

\* The acceptance of a cancellation, or the close of a response.
LEMMA AskMaps ==
  ASSUME TypeOK, PhasesAgree, NEW q \in Requests, Cancel(q) \/ Disconnect(q)
  PROVE  ContractStep
<1> USE DEF db, task
<1>1. StatusOf' = StatusOf /\ ToldOf' = ToldOf /\ busy = NoRequest
  BY DEF Cancel, Disconnect, StatusOf, ToldOf, ToldEnds
<1>2. CASE q \in controllers
  <2>1. pc[q] = "streaming"
    BY <1>1, <1>2, RequestAssumption DEF PhasesAgree, Phase, EndAgrees, RunPcs
  <2>2. StatusOf[q] = "running"
    BY <2>1 DEF PhasesAgree, Phase, StatusOf
  <2>3. aborted' = aborted \union {q}
    BY <1>2 DEF Cancel, Disconnect, Aborted
  <2>4. Contract!Ask(q)
    BY <1>1, <2>2, <2>3 DEF Contract!Ask, StatusOf, ToldOf
  <2> QED BY <2>4 DEF ContractStep, Contract!Next
<1>3. CASE q \notin controllers
  BY <1>1, <1>3, Stutter DEF Cancel, Disconnect, Aborted
<1> QED BY <1>2, <1>3

\* The creation of a run.
LEMMA CreateMaps ==
  ASSUME TypeOK, PhasesAgree, NEW q \in Requests, NEW k \in Keys, CreateRun(q, k)
  PROVE  ContractStep
<1>1. row[q].status = "none" /\ row' = [row EXCEPT ![q] = QueuedRow]
  BY DEF CreateRun, Arrives, PhasesAgree, Phase
<1>2. StatusOf[q] = "none" /\ StatusOf' = [StatusOf EXCEPT ![q] = "queued"]
  BY <1>1 DEF StatusOf, QueuedRow, NoRow, TypeOK
<1>3. aborted' = aborted /\ ToldOf' = ToldOf
  BY DEF CreateRun, ToldOf, ToldEnds
<1>4. Contract!Create(q)
  BY <1>2, <1>3 DEF Contract!Create, StatusOf, ToldOf
<1> QED BY <1>4 DEF ContractStep, Contract!Next

\* A frame that announces the end of a run.
LEMMA TellMaps ==
  ASSUME TypeOK, PhasesAgree, NEW r \in Requests, row' = row, aborted' = aborted,
         row[r].status \in Terminal,
         ToldOf' = [ToldOf EXCEPT ![r] = @ \union {row[r].status}]
  PROVE  ContractStep
<1>1. StatusOf' = StatusOf /\ StatusOf[r] \in Contract!Terminal
  BY DEF StatusOf, Terminal, Contract!Terminal
<1>2. Contract!Tell(r)
  BY <1>1 DEF Contract!Tell, StatusOf, ToldOf
<1> QED BY <1>2 DEF ContractStep, Contract!Next

\* The last event of a run, sent to a client that is still there.
LEMMA ReportMaps ==
  ASSUME TypeOK, PhasesAgree, NEW q \in Requests, Report(q)
  PROVE  ContractStep
<1> DEFINE frame == RunFrame(NextStatus(ending[q]), q)
<1>1. /\ row[q].status = NextStatus(ending[q]) /\ row[q].status \in Terminal
  BY NextStatusEnds DEF Report, At, PhasesAgree, Phase
<1>2. row' = row /\ aborted' = aborted /\ Emit(q, frame)
  BY DEF Report, Publish, db
<1>3. frame.run = q /\ frame.type = row[q].status
  BY <1>1 DEF RunFrame
<1>4. frame \in Frame
  BY <1>1, RunFrameTyped DEF FrameTypes
<1> HIDE DEF frame
<1>5. ASSUME NEW r \in Requests
      PROVE  ToldEnds(r)' =
               ToldEnds(r) \union
                 IF stream[q] = "open" /\ frame.run = r /\ frame.type \in Terminal
                 THEN {frame.type} ELSE {}
  BY <1>2, <1>4, EmitTells, Zenon
<1>6. CASE stream[q] = "open"
  <2>1. ToldOf' = [ToldOf EXCEPT ![q] = @ \union {row[q].status}]
    <3>1. ToldEnds(q)' = ToldEnds(q) \union {row[q].status}
      BY <1>1, <1>3, <1>5, <1>6
    <3>2. ASSUME NEW r \in Requests \ {q} PROVE ToldEnds(r)' = ToldEnds(r)
      BY <1>3, <1>5
    <3> QED BY <3>1, <3>2 DEF ToldOf
  <2> QED BY <1>1, <1>2, <2>1, TellMaps
<1>7. CASE stream[q] # "open"
  <2>1. ASSUME NEW r \in Requests PROVE ToldEnds(r)' = ToldEnds(r)
    BY <1>5, <1>7
  <2>2. ToldOf' = ToldOf /\ StatusOf' = StatusOf
    BY <1>2, <2>1 DEF ToldOf, StatusOf
  <2> QED BY <1>2, <2>2, Stutter
<1> QED BY <1>6, <1>7

\* The two frames of a replay.
LEMMA ReplayMaps ==
  ASSUME TypeOK, PhasesAgree, IdleSilent, NEW q \in Requests, NEW k \in Keys, Replay(q, k)
  PROVE  ContractStep
<1>1. PICK r0 \in Requests : r0 = keyRun[k]
  BY DEF Replay, TypeOK
<1> DEFINE frames == <<RunFrame("created", r0), RunFrame(SnapshotType(r0), r0)>>
<1>2. row' = row /\ aborted' = aborted /\ sent[q] = <<>> /\ sent'[q] = frames
  BY <1>1 DEF Replay, Arrives, IdleSilent, TypeOK, db
<1>3. \A p \in Requests \ {q} : sent'[p] = sent[p]
  BY DEF Replay, TypeOK
<1>4. /\ DOMAIN sent'[q] = {1, 2}
      /\ sent'[q][1].type \notin Terminal
      /\ sent'[q][2].run = r0
      /\ sent'[q][2].type \in Terminal <=> row[r0].status \in Terminal
      /\ row[r0].status \in Terminal => sent'[q][2].type = row[r0].status
  BY <1>2 DEF RunFrame, SnapshotType, Terminal
<1> HIDE DEF frames
<1>5. ASSUME NEW r \in Requests, NEW type \in Terminal
      PROVE  type \in ToldEnds(r)' <=>
               type \in ToldEnds(r) \/ (r = r0 /\ row[r0].status = type)
  <2>1. ASSUME type \in ToldEnds(r)'
        PROVE  type \in ToldEnds(r) \/ (r = r0 /\ row[r0].status = type)
    <3>1. PICK p \in Requests : \E i \in DOMAIN sent'[p] :
            sent'[p][i].run = r /\ sent'[p][i].type = type
      BY <2>1 DEF ToldEnds
    <3>2. CASE p # q
      BY <3>1, <3>2, <1>3 DEF ToldEnds
    <3>3. CASE p = q
      BY <3>1, <3>3, <1>4
    <3> QED BY <3>2, <3>3
  <2>2. ASSUME type \in ToldEnds(r) PROVE type \in ToldEnds(r)'
    <3>1. PICK p \in Requests : \E i \in DOMAIN sent[p] :
            sent[p][i].run = r /\ sent[p][i].type = type
      BY <2>2 DEF ToldEnds
    <3>2. p # q
      BY <3>1, <1>2
    <3> QED BY <3>1, <3>2, <1>3 DEF ToldEnds
  <2>3. ASSUME r = r0, row[r0].status = type PROVE type \in ToldEnds(r)'
    BY <2>3, <1>4 DEF ToldEnds
  <2> QED BY <2>1, <2>2, <2>3
<1>6. \A r \in Requests : ToldEnds(r) \subseteq Terminal /\ ToldEnds(r)' \subseteq Terminal
  BY DEF ToldEnds
<1>7. CASE row[r0].status \in Terminal
  <2>1. \A r \in Requests \ {r0} : ToldEnds(r)' = ToldEnds(r)
    BY <1>5, <1>6
  <2>2. ToldEnds(r0)' = ToldEnds(r0) \union {row[r0].status}
    BY <1>5, <1>6, <1>7
  <2>3. ToldOf' = [ToldOf EXCEPT ![r0] = @ \union {row[r0].status}]
    BY <2>1, <2>2 DEF ToldOf
  <2> QED BY <1>2, <1>7, <2>3, TellMaps
<1>8. CASE row[r0].status \notin Terminal
  <2>1. \A r \in Requests : ToldEnds(r)' = ToldEnds(r)
    BY <1>5, <1>6, <1>8
  <2>2. ToldOf' = ToldOf /\ StatusOf' = StatusOf
    BY <1>2, <2>1 DEF ToldOf, StatusOf
  <2> QED BY <1>2, <2>2, Stutter
<1> QED BY <1>7, <1>8

\* The other steps of a handler and of the engine announce no end.
LEMMA SilentMaps ==
  ASSUME TypeOK, PhasesAgree, NEW q \in Requests,
         \/ Begin(q) \/ AfterStart(q) \/ Recover(q) \/ PersistConflict(q)
         \/ StatementFails(q) \/ EngineStep(q) \/ LookupFails(q) \/ HandlerFails(q)
  PROVE  ContractStep
<1> USE DEF db, EngineStep
<1>1. row' = row /\ aborted' = aborted
  BY DEF Begin, AfterStart, Recover, PersistConflict, StatementFails, EngineToken, EngineEnds,
     EngineThrows, LookupFails, HandlerFails
<1>2. StatusOf' = StatusOf
  BY <1>1 DEF StatusOf
<1>3. ToldOf' = ToldOf
  <2>1. CASE Begin(q)
    <3>1. /\ RunFrame("created", q) \in Frame /\ RunFrame("created", q).type \notin Terminal
          /\ Emit(q, RunFrame("created", q))
      BY <2>1, RunFrameTyped DEF Begin, Publish, FrameTypes, RunFrame, Terminal
    <3> QED BY <3>1, EmitSilent, Zenon
  <2>2. CASE AfterStart(q)
    <3>1. pc[q] = "started"
      BY <2>2 DEF AfterStart, PhasesAgree, Phase
    <3>2. /\ RunFrame("status", q) \in Frame /\ RunFrame("status", q).type \notin Terminal
          /\ Emit(q, RunFrame("status", q))
      BY <2>2, <3>1, RunFrameTyped DEF AfterStart, Publish, FrameTypes, RunFrame, Terminal
    <3> QED BY <3>2, EmitSilent, Zenon
  <2>3. CASE EngineToken(q)
    <3>1. Emit(q, TokenFrame(q))
      BY <2>3 DEF EngineToken
    <3> QED BY <3>1, TokenFrameSilent, EmitSilent
  <2>4. CASE Recover(q) \/ PersistConflict(q) \/ StatementFails(q) \/ EngineEnds(q)
             \/ EngineThrows(q) \/ LookupFails(q) \/ HandlerFails(q)
    <3>1. sent' = sent
      BY <2>4 DEF Recover, PersistConflict, StatementFails, EngineEnds, EngineThrows,
         LookupFails, HandlerFails
    <3> QED BY <3>1 DEF ToldOf, ToldEnds
  <2> QED BY <2>1, <2>2, <2>3, <2>4
<1> QED BY <1>1, <1>2, <1>3, Stutter

-----------------------------------------------------------------------------
(* The refinement.                                                         *)

\* Frames are written only for a request whose handler has begun, and no
\* handler returns to where it was before its request was made.
THEOREM IdleSilentAlways == Spec => []IdleSilent
<1>1. Init => IdleSilent
  BY DEF Init, IdleSilent
<1>2. TypeOK /\ PhasesAgree /\ IdleSilent /\ [Next]_vars => IdleSilent'
  <2> SUFFICES ASSUME TypeOK, PhasesAgree, IdleSilent, [Next]_vars PROVE IdleSilent'
    OBVIOUS
  <2> USE DEF task
  <2>1. ASSUME NEW q \in Requests, pc[q] # "idle", pc'[q] # "idle",
               \A r \in Requests \ {q} : pc'[r] = pc[r] /\ sent'[r] = sent[r]
        PROVE  IdleSilent'
    BY <2>1 DEF IdleSilent
  <2>2. ASSUME NEW q \in Requests, HandlerStep(q) PROVE IdleSilent'
    <3>1. busy = q /\ pc[q] \in HandlerPcs
      BY <2>2 DEF HandlerStep, Begin, StartRun, AfterStart, Recover, Persist, PersistConflict,
         Report, StatementFails, At, HandlerPcs
    <3>2. \A r \in Requests \ {q} : pc'[r] = pc[r] /\ sent'[r] = sent[r]
      BY <2>2 DEF HandlerStep, Begin, StartRun, AfterStart, Recover, Persist, PersistConflict,
         Report, StatementFails, Throw, GoTo, Publish, Emit, TypeOK
    <3>3. pc'[q] # "idle"
      BY <2>2, <3>1 DEF HandlerStep, Begin, StartRun, AfterStart, Recover, Persist,
         PersistConflict, Report, StatementFails, Throw, GoTo, TypeOK
    <3> QED BY <2>1, <3>1, <3>2, <3>3 DEF HandlerPcs
  <2>3. ASSUME NEW q \in Requests, EngineStep(q) PROVE IdleSilent'
    <3>1. pc[q] = "streaming"
      BY <2>3 DEF EngineStep, EngineToken, EngineEnds, EngineThrows
    <3>2. \A r \in Requests \ {q} : pc'[r] = pc[r] /\ sent'[r] = sent[r]
      BY <2>3 DEF EngineStep, EngineToken, EngineEnds, EngineThrows, Throw, GoTo, Emit, TypeOK
    <3>3. pc'[q] # "idle"
      BY <2>3, <3>1 DEF EngineStep, EngineToken, EngineEnds, EngineThrows, Throw, GoTo, TypeOK
    <3> QED BY <2>1, <3>1, <3>2, <3>3
  <2>4. ASSUME NEW q \in Requests, ClientStep(q) PROVE IdleSilent'
    <3>1. CASE Cancel(q) \/ Disconnect(q)
      BY <3>1 DEF Cancel, Disconnect, IdleSilent
    <3>2. CASE LookupFails(q) \/ HandlerFails(q) \/ \E k \in Keys : CreateRun(q, k) \/ Replay(q, k)
      <4>1. pc'[q] # "idle" /\ \A r \in Requests \ {q} : pc'[r] = pc[r] /\ sent'[r] = sent[r]
        BY <3>2 DEF LookupFails, HandlerFails, CreateRun, Replay, GoTo, TypeOK
      <4> QED BY <4>1 DEF IdleSilent
    <3> QED BY <2>4, <3>1, <3>2 DEF ClientStep
  <2>5. ASSUME ProcessStep PROVE IdleSilent'
    BY <2>5 DEF ProcessStep, BeginShutdown, Exit, Crash, Restart, ProcessGone, IdleSilent
  <2>6. ASSUME UNCHANGED vars PROVE IdleSilent'
    BY <2>6 DEF vars, IdleSilent
  <2> QED BY <2>2, <2>3, <2>4, <2>5, <2>6 DEF Next
<1> QED BY <1>1, <1>2, TypeCorrect, PhasesAgreeAlways, PTL DEF Spec

\* ImplementsContract: whatever fails, a run goes through its lifecycle once, is
\* cancelled exactly if that was asked for, and nobody is told another end.
THEOREM Implementation == Spec => ImplementsContract
<1>1. Init => Contract!Init
  <2> SUFFICES ASSUME Init PROVE Contract!Init
    OBVIOUS
  <2>1. \A r \in Requests : ToldEnds(r) = {}
    BY DEF Init, ToldEnds
  <2>2. \A r \in Requests : row[r].status = "none"
    BY DEF Init, NoRow
  <2> QED BY <2>1, <2>2 DEF Init, Contract!Init
<1>2. TypeOK /\ PhasesAgree /\ IdleSilent /\ [Next]_vars => ContractStep
  <2> SUFFICES ASSUME TypeOK, PhasesAgree, IdleSilent, [Next]_vars PROVE ContractStep
    OBVIOUS
  <2>1. ASSUME NEW q \in Requests, HandlerStep(q) PROVE ContractStep
    BY <2>1, StartMaps, PersistMaps, ReportMaps, SilentMaps DEF HandlerStep
  <2>2. ASSUME NEW q \in Requests, EngineStep(q) PROVE ContractStep
    BY <2>2, SilentMaps
  <2>3. ASSUME NEW q \in Requests, ClientStep(q) PROVE ContractStep
    BY <2>3, CreateMaps, ReplayMaps, AskMaps, SilentMaps DEF ClientStep
  <2>4. ASSUME ProcessStep \/ UNCHANGED vars PROVE ContractStep
    <3>1. UNCHANGED <<row, aborted, sent>>
      BY <2>4 DEF ProcessStep, BeginShutdown, Exit, Crash, Restart, ProcessGone, vars, db
    <3>2. StatusOf' = StatusOf /\ ToldOf' = ToldOf
      BY <3>1 DEF StatusOf, ToldOf, ToldEnds
    <3> QED BY <3>1, <3>2, Stutter
  <2> QED BY <2>1, <2>2, <2>3, <2>4 DEF Next
<1>3. ContractStep => [Contract!Next]_(Contract!vars)
  BY DEF ContractStep
<1> QED BY <1>1, <1>2, <1>3, TypeCorrect, PhasesAgreeAlways, IdleSilentAlways, PTL
        DEF Spec, ImplementsContract, Contract!Spec
=============================================================================
