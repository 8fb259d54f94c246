----------------------- MODULE GenerationServiceProofs -----------------------
(***************************************************************************)
(* What holds of GenerationService for any number of requests, keys,       *)
(* tokens, crashes, shutdowns and failing statements.                      *)
(***************************************************************************)
EXTENDS GenerationService, FiniteSetTheorems, TLAPS

\* nextStatus yields a status, and from a legal status never "none" again.
LEMMA NextStatusTyped ==
  ASSUME NEW event PROVE NextStatus(event) \in RunStatuses
BY DEF NextStatus, RunStatuses, Terminal

\* The UPDATE keeps the table well typed.
LEMMA TransitionTyped ==
  ASSUME TypeOK, NEW r \in Requests, NEW version \in Nat, NEW status \in RunStatuses,
         NEW count \in Nat, NEW error \in ErrorMessages
  PROVE  TransitionStatus(r, version, status, count, error) \in [Requests -> Row]
BY DEF TypeOK, TransitionStatus, Coalesce, Row

\* Writing a frame keeps the streams well typed.
LEMMA EmitTyped ==
  ASSUME TypeOK, NEW q \in Requests, NEW frame \in Frame, Emit(q, frame)
  PROVE  sent' \in [Requests -> Seq(Frame)]
BY DEF TypeOK, Emit

\* A frame about a run is a frame.
LEMMA RunFrameTyped ==
  ASSUME TypeOK, NEW r \in Requests, NEW type \in FrameTypes
  PROVE  RunFrame(type, r) \in Frame
BY DEF TypeOK, RunFrame, Frame, Row

\* Publishing keeps the streams and the counters well typed.
LEMMA PublishTyped ==
  ASSUME TypeOK, NEW q \in Requests, NEW frame \in Frame, Publish(q, frame)
  PROVE  sent' \in [Requests -> Seq(Frame)] /\ metrics' \in [MetricNames -> Nat]
<1>1. sent' \in [Requests -> Seq(Frame)]
  BY EmitTyped DEF Publish
<1>2. metrics' \in [MetricNames -> Nat]
  BY DEF Publish, Counted, TypeOK
<1> QED BY <1>1, <1>2

\* So do the end of a handler and an exception.
LEMMA FinallyTyped ==
  ASSUME TypeOK, NEW q \in Requests, Finally(q)
  PROVE  /\ controllers' \subseteq Requests
         /\ stream' \in [Requests -> {"none", "open", "ended", "closed"}]
         /\ busy' \in Requests \union {NoRequest}
BY DEF TypeOK, Finally

LEMMA ThrowTyped ==
  ASSUME TypeOK, NEW q \in Requests, Throw(q)
  PROVE  /\ controllers' \subseteq Requests
         /\ stream' \in [Requests -> {"none", "open", "ended", "closed"}]
         /\ busy' \in Requests \union {NoRequest}
         /\ pc' \in [Requests -> Pcs]
         /\ caught' \subseteq Requests
<1>1. CASE q \in caught
  BY <1>1, FinallyTyped DEF TypeOK, Throw, GoTo, Pcs, OverPcs
<1>2. CASE q \notin caught
  BY <1>2 DEF TypeOK, Throw, GoTo, Pcs, HandlerPcs
<1> QED BY <1>1, <1>2

\* Every variable keeps its type.
THEOREM TypeCorrect == Spec => []TypeOK
<1>1. Init => TypeOK
  BY DEF Init, TypeOK, NoRow, Row, NoMetrics, MetricNames, Pcs, Snapshot, ErrorMessages
<1>2. TypeOK /\ [Next]_vars => TypeOK'
  <2> SUFFICES ASSUME TypeOK, [Next]_vars PROVE TypeOK'
    OBVIOUS
  <2> USE DEF TypeOK, db, task, faults
  <2>1. ASSUME NEW q \in Requests, NEW k \in Keys, CreateRun(q, k) PROVE TypeOK'
    BY <2>1 DEF CreateRun, Arrives, QueuedRow, NoRow, Row, ErrorMessages, Snapshot, GoTo,
       RunStatuses, Pcs, HandlerPcs
  <2>2. ASSUME NEW q \in Requests, NEW k \in Keys, Replay(q, k) PROVE TypeOK'
    <3> DEFINE r == keyRun[k]
    <3>1. r \in Requests
      BY <2>2 DEF Replay
    <3>2. SnapshotType(r) \in FrameTypes
      BY <3>1 DEF SnapshotType, FrameTypes
    <3>3. RunFrame("created", r) \in Frame /\ RunFrame(SnapshotType(r), r) \in Frame
      BY <3>1, <3>2, RunFrameTyped DEF FrameTypes
    <3>4. sent' \in [Requests -> Seq(Frame)]
      BY <2>2, <3>3 DEF Replay
    <3> QED BY <2>2, <3>4 DEF Replay, Arrives, GoTo, Pcs, OverPcs
  <2>3. ASSUME NEW q \in Requests, LookupFails(q) PROVE TypeOK'
    BY <2>3 DEF LookupFails, StatementThrows, GoTo, Pcs, OverPcs
  <2>4. ASSUME NEW q \in Requests, HandlerFails(q) PROVE TypeOK'
    BY <2>4 DEF HandlerFails, StatementThrows, GoTo, Pcs, OverPcs
  <2>5. ASSUME NEW q \in Requests, Begin(q) PROVE TypeOK'
    <3>1. RunFrame("created", q) \in Frame
      BY RunFrameTyped DEF FrameTypes
    <3>2. sent' \in [Requests -> Seq(Frame)] /\ metrics' \in [MetricNames -> Nat]
      BY <2>5, <3>1, PublishTyped DEF Begin
    <3> QED BY <2>5, <3>2 DEF Begin, GoTo, Pcs, HandlerPcs, EndEvents, RunEvents
  <2>6. ASSUME NEW q \in Requests, StartRun(q) PROVE TypeOK'
    <3>1. row' \in [Requests -> Row]
      BY <2>6, TransitionTyped, NextStatusTyped DEF StartRun, Snapshot, Row, ErrorMessages
    <3> QED BY <2>6, <3>1 DEF StartRun, GoTo, Pcs, HandlerPcs
  <2>7. ASSUME NEW q \in Requests, AfterStart(q) PROVE TypeOK'
    <3>1. \A type \in FrameTypes : RunFrame(type, q) \in Frame
      BY RunFrameTyped
    <3>2. sent' \in [Requests -> Seq(Frame)] /\ metrics' \in [MetricNames -> Nat]
      BY <2>7, <3>1, PublishTyped DEF AfterStart, FrameTypes, Terminal
    <3>3. /\ controllers' \subseteq Requests
          /\ stream' \in [Requests -> {"none", "open", "ended", "closed"}]
          /\ busy' \in Requests \union {NoRequest}
      BY <2>7, FinallyTyped DEF AfterStart
    <3>4. snap' \in [Requests -> Snapshot]
      BY <2>7 DEF AfterStart, Read, Snapshot, Row
    <3> QED BY <2>7, <3>2, <3>3, <3>4 DEF AfterStart, GoTo, Pcs, OverPcs
  <2>8. ASSUME NEW q \in Requests, EngineToken(q) PROVE TypeOK'
    <3>1. TokenFrame(q) \in Frame
      BY DEF TokenFrame, Frame, FrameTypes
    <3>2. sent' \in [Requests -> Seq(Frame)]
      BY <2>8, <3>1, EmitTyped DEF EngineToken
    <3>3. tokenCount' \in [Requests -> Nat]
      BY <2>8 DEF EngineToken
    <3>4. UNCHANGED <<row, keyRun, controllers, aborted, pc, snap, ending, caught, stream,
                      metrics, busy, process, crashes, shutdowns, dbFaults>>
      BY <2>8 DEF EngineToken
    <3> QED BY <3>2, <3>3, <3>4
  <2>9. ASSUME NEW q \in Requests, EngineEnds(q) PROVE TypeOK'
    BY <2>9 DEF EngineEnds, EndingOf, EndEvents, RunEvents, GoTo, Pcs, HandlerPcs
  <2>10. ASSUME NEW q \in Requests, EngineThrows(q) PROVE TypeOK'
    BY <2>10, ThrowTyped DEF EngineThrows
  <2>11. ASSUME NEW q \in Requests, Recover(q) PROVE TypeOK'
    BY <2>11 DEF Recover, Read, Snapshot, Row, EndingOf, EndEvents, RunEvents, GoTo, Pcs,
       HandlerPcs
  <2>12. ASSUME NEW q \in Requests, Persist(q) PROVE TypeOK'
    <3>1. ErrorOf(q) \in ErrorMessages
      BY DEF ErrorOf, ErrorMessages
    <3>2. row' \in [Requests -> Row]
      BY <2>12, <3>1, TransitionTyped, NextStatusTyped DEF Persist, Snapshot
    <3> QED BY <2>12, <3>2 DEF Persist, GoTo, Pcs, HandlerPcs
  <2>13. ASSUME NEW q \in Requests, PersistConflict(q) PROVE TypeOK'
    BY <2>13, ThrowTyped DEF PersistConflict
  <2>14. ASSUME NEW q \in Requests, Report(q) PROVE TypeOK'
    <3>1. NextStatus(ending[q]) \in FrameTypes
      BY <2>14 DEF NextStatus, FrameTypes, Terminal, EndEvents, RunEvents
    <3>2. sent' \in [Requests -> Seq(Frame)] /\ metrics' \in [MetricNames -> Nat]
      BY <2>14, <3>1, RunFrameTyped, PublishTyped DEF Report
    <3> QED BY <2>14, <3>2, FinallyTyped DEF Report, GoTo, Pcs, OverPcs
  <2>15. ASSUME NEW q \in Requests, StatementFails(q) PROVE TypeOK'
    BY <2>15, ThrowTyped DEF StatementFails, StatementThrows
  <2>16. ASSUME NEW q \in Requests, Cancel(q) PROVE TypeOK'
    BY <2>16 DEF Cancel, Aborted
  <2>17. ASSUME NEW q \in Requests, Disconnect(q) PROVE TypeOK'
    BY <2>17 DEF Disconnect, Aborted
  <2>18. ASSUME ProcessGone PROVE
            /\ row' \in [Requests -> Row] /\ keyRun' \in [Keys -> Requests \union {NoRequest}]
            /\ pc' \in [Requests -> Pcs]
            /\ stream' \in [Requests -> {"none", "open", "ended", "closed"}]
            /\ metrics' \in [MetricNames -> Nat]
    BY <2>18 DEF ProcessGone, NoMetrics, Pcs, OverPcs
  <2>19. CASE BeginShutdown
    BY <2>19 DEF BeginShutdown
  <2>20. CASE Exit
    BY <2>20, <2>18 DEF Exit, ProcessGone
  <2>21. CASE Crash
    BY <2>21, <2>18 DEF Crash, ProcessGone
  <2>22. CASE Restart
    BY <2>22 DEF Restart
  <2>23. CASE UNCHANGED vars
    BY <2>23 DEF vars
  <2> QED
    BY <2>1, <2>2, <2>3, <2>4, <2>5, <2>6, <2>7, <2>8, <2>9, <2>10, <2>11, <2>12, <2>13,
       <2>14, <2>15, <2>16, <2>17, <2>19, <2>20, <2>21, <2>22, <2>23
       DEF Next, HandlerStep, EngineStep, ClientStep, ProcessStep
<1> QED BY <1>1, <1>2, PTL DEF Spec

-----------------------------------------------------------------------------
(* The inductive invariant.                                                *)

\* Where nextStatus leads, and which statuses are terminal.
LEMMA NextStatusEnds ==
  /\ \A event \in EndEvents : NextStatus(event) \in Terminal
  /\ \A event \in EndEvents : NextStatus(event) = "cancelled" <=> event = "cancel"
  /\ \A event \in EndEvents : NextStatus(event) = "failed" <=> event = "fail"
  /\ NextStatus("start") = "running"
BY DEF NextStatus, EndEvents, RunEvents, Terminal

\* No event is legal in a terminal status, nor before the row exists.
LEMMA LegalInProgress ==
  ASSUME NEW status \in RunStatuses \union {"none"}, NEW event \in EndEvents
  PROVE  /\ IsLegal(status, event) => status \in {"queued", "running"}
         /\ status \in {"queued", "running"} /\ event # "complete" => IsLegal(status, event)
         /\ status = "running" => IsLegal(status, event)
BY DEF IsLegal, AllowedFrom, EndEvents, RunEvents, RunStatuses, Terminal

\* No step writes a row that has ended.
LEMMA TerminalStep ==
  ASSUME TypeOK, PhasesAgree, [Next]_vars
  PROVE  \A r \in Requests : row[r].status \in Terminal => row'[r] = row[r]
<1> USE DEF PhasesAgree
<1>1. CASE UNCHANGED row
  BY <1>1
<1>2. ASSUME NEW q \in Requests, NEW k \in Keys, CreateRun(q, k)
      PROVE  \A r \in Requests : row[r].status \in Terminal => row'[r] = row[r]
  BY <1>2 DEF CreateRun, Arrives, Phase, Terminal, TypeOK
<1>3. ASSUME NEW q \in Requests, StartRun(q)
      PROVE  \A r \in Requests : row[r].status \in Terminal => row'[r] = row[r]
  BY <1>3 DEF StartRun, At, TransitionStatus, Phase, Terminal, TypeOK
<1>4. ASSUME NEW q \in Requests, Persist(q)
      PROVE  \A r \in Requests : row[r].status \in Terminal => row'[r] = row[r]
  <2>1. row[q].status \notin Terminal
    <3>0. Phase(q) /\ pc[q] = "finishing"
      BY <1>4 DEF Persist, At
    <3>1. ending[q] \in EndEvents /\ snap[q] = Read(q)
      BY <3>0 DEF Phase
    <3>2. IsLegal(row[q].status, ending[q]) /\ row[q].status \in RunStatuses \union {"none"}
      BY <1>4, <3>1 DEF Persist, Read, TypeOK, Row
    <3> QED BY <3>1, <3>2, LegalInProgress DEF Terminal
  <2> QED BY <1>4, <2>1 DEF Persist, TransitionStatus, TypeOK
<1>5. ASSUME NEW q \in Requests, HandlerStep(q)
      PROVE  UNCHANGED row \/ StartRun(q) \/ Persist(q)
  BY <1>5 DEF HandlerStep, db, Begin, AfterStart, Recover, PersistConflict, Report,
     StatementFails
<1>6. ASSUME NEW q \in Requests, EngineStep(q) PROVE UNCHANGED row
  BY <1>6 DEF EngineStep, db, EngineToken, EngineEnds, EngineThrows
<1>7. ASSUME NEW q \in Requests, ClientStep(q)
      PROVE  UNCHANGED row \/ \E k \in Keys : CreateRun(q, k)
  BY <1>7 DEF ClientStep, db, Replay, LookupFails, HandlerFails, Cancel, Disconnect
<1>8. ASSUME ProcessStep PROVE UNCHANGED row
  BY <1>8 DEF ProcessStep, db, BeginShutdown, Exit, Crash, Restart, ProcessGone
<1>9. ASSUME UNCHANGED vars PROVE UNCHANGED row
  BY <1>9 DEF vars
<1> QED BY <1>1, <1>2, <1>3, <1>4, <1>5, <1>6, <1>7, <1>8, <1>9 DEF Next

\* What was told stays true while a truthful frame, or none, is written.
LEMMA ToldPreserved ==
  ASSUME TypeOK, ToldTheTruth,
         \A r \in Requests : row[r].status \in Terminal => row'[r] = row[r],
         NEW q \in Requests, NEW frame \in Frame,
         frame.type \in Terminal =>
           frame.status = frame.type /\ row'[frame.run].status = frame.type,
         \/ sent' = sent
         \/ sent' = [sent EXCEPT ![q] = Append(@, frame)]
  PROVE  ToldTheTruth'
<1> DEFINE Good(f) == f.type \in Terminal => f.status = f.type /\ row'[f.run].status = f.type
<1>1. \A p \in Requests : \A i \in DOMAIN sent[p] : Good(sent[p][i])
  <2> TAKE p \in Requests
  <2> TAKE i \in DOMAIN sent[p]
  <2>1. sent[p][i] \in Frame
    BY DEF TypeOK
  <2> QED BY <2>1 DEF ToldTheTruth, Truthful, Frame
<1>2. Good(frame)
  OBVIOUS
<1>3. ASSUME NEW p \in Requests, NEW i \in DOMAIN sent'[p] PROVE Good(sent'[p][i])
  <2>1. sent[p] \in Seq(Frame) /\ sent[q] \in Seq(Frame)
    BY DEF TypeOK
  <2>2. CASE sent'[p] = sent[p]
    BY <2>2, <1>1
  <2>3. CASE p = q /\ sent'[q] = Append(sent[q], frame)
    <3>1. sent'[p][i] = IF i = Len(sent[q]) + 1 THEN frame ELSE sent[q][i]
      BY <2>1, <2>3
    <3>2. i = Len(sent[q]) + 1 \/ i \in DOMAIN sent[q]
      BY <2>1, <2>3
    <3> QED BY <3>1, <3>2, <1>1, <1>2
  <2> QED BY <2>2, <2>3 DEF TypeOK
<1> QED BY <1>3 DEF ToldTheTruth, Truthful

\* The locals of run r and what is known about it do not change.
Same(r) ==
  /\ pc'[r] = pc[r] /\ row'[r] = row[r] /\ snap'[r] = snap[r] /\ ending'[r] = ending[r]
  /\ stream'[r] = stream[r]
  /\ (r \in aborted') = (r \in aborted)
  /\ (r \in caught') = (r \in caught)
  /\ (r \in controllers') = (r \in controllers)

\* A step of one handler leaves what is known of the other runs as it was.
LEMMA OthersAgree ==
  ASSUME TypeOK, TypeOK', PhasesAgree, NEW q \in Requests,
         busy \in {q, NoRequest}, busy' \in {q, NoRequest},
         crashes' >= crashes, dbFaults' >= dbFaults,
         \A r \in Requests \ {q} : Same(r)
  PROVE  \A r \in Requests \ {q} : Phase(r)' /\ EndAgrees(r)'
<1> SUFFICES ASSUME NEW r \in Requests \ {q} PROVE Phase(r)' /\ EndAgrees(r)'
  OBVIOUS
<1>1. Phase(r) /\ EndAgrees(r) /\ Same(r)
  BY DEF PhasesAgree
<1>2. busy # r /\ busy' # r
  BY RequestAssumption
<1>3. Phase(r)'
  BY <1>1, <1>2 DEF Phase, Same, Read
<1>4. EndAgrees(r)'
  BY <1>1 DEF EndAgrees, Same, Stranded, InProgress, TypeOK
<1> QED BY <1>3, <1>4

\* Enough for a step of one handler to keep the inductive invariant.
LEMMA StepAgrees ==
  ASSUME TypeOK, TypeOK', PhasesAgree, [Next]_vars, NEW q \in Requests,
         busy \in {q, NoRequest}, busy' \in {q, NoRequest},
         crashes' >= crashes, dbFaults' >= dbFaults,
         \A r \in Requests \ {q} : Same(r),
         Phase(q)', EndAgrees(q)',
         NEW frame \in Frame,
         frame.type \in Terminal =>
           frame.status = frame.type /\ row'[frame.run].status = frame.type,
         sent' = sent \/ sent' = [sent EXCEPT ![q] = Append(@, frame)]
  PROVE  PhasesAgree'
<1>1. ToldTheTruth'
  BY TerminalStep, ToldPreserved DEF PhasesAgree
<1>2. \A r \in Requests : Phase(r)' /\ EndAgrees(r)'
  BY OthersAgree
<1> QED BY <1>1, <1>2 DEF PhasesAgree

\* A token frame is a frame and announces no end.
LEMMA TokenFrameSilent ==
  ASSUME NEW q \in Requests
  PROVE  TokenFrame(q) \in Frame /\ TokenFrame(q).type \notin Terminal
BY DEF TokenFrame, Frame, FrameTypes, Terminal

\* A step of one handler that writes no end.
LEMMA SilentStepAgrees ==
  ASSUME TypeOK, TypeOK', PhasesAgree, [Next]_vars, NEW q \in Requests,
         busy \in {q, NoRequest}, busy' \in {q, NoRequest},
         crashes' >= crashes, dbFaults' >= dbFaults,
         \A r \in Requests \ {q} : Same(r),
         Phase(q)', EndAgrees(q)', sent' = sent
  PROVE  PhasesAgree'
<1> DEFINE f == TokenFrame(q)
<1>1. f \in Frame /\ f.type \notin Terminal
  BY TokenFrameSilent
<1> HIDE DEF f
<1> QED BY <1>1, StepAgrees

\* The steps of clients keep the invariant.
LEMMA ClientAgrees ==
  ASSUME TypeOK, TypeOK', PhasesAgree, [Next]_vars, NEW q \in Requests, ClientStep(q)
  PROVE  PhasesAgree'
<1> USE DEF db, task, faults
<1>0. Phase(q) /\ EndAgrees(q)
  BY DEF PhasesAgree
<1>1. ASSUME NEW k \in Keys, CreateRun(q, k) PROVE PhasesAgree'
  <2>0. /\ pc[q] = "idle" /\ busy = NoRequest /\ busy' = q
        /\ pc'[q] = "created" /\ row'[q] = QueuedRow /\ stream'[q] = "open"
        /\ snap'[q] = [status |-> "queued", version |-> 0]
        /\ UNCHANGED <<aborted, caught, controllers, ending, sent, crashes, dbFaults>>
    BY <1>1 DEF CreateRun, Arrives, GoTo, TypeOK
  <2>1. row[q].status = "none" /\ q \notin aborted /\ q \notin controllers
    BY <1>0, <2>0 DEF Phase, EndAgrees, RunPcs, HandlerPcs
  <2>2. q \notin caught
    BY <1>0, <2>0 DEF Phase
  <2>3. Phase(q)'
    BY <2>0, <2>1, <2>2 DEF Phase, Read, QueuedRow, NoRow, HandlerPcs
  <2>4. EndAgrees(q)'
    BY <2>0, <2>1 DEF EndAgrees, QueuedRow, NoRow, RunPcs, HandlerPcs, Stranded, Terminal
  <2>5. \A r \in Requests \ {q} : Same(r)
    BY <1>1 DEF CreateRun, GoTo, Same, TypeOK
  <2> QED BY <2>0, <2>3, <2>4, <2>5, SilentStepAgrees DEF TypeOK
<1>2. ASSUME NEW k \in Keys, Replay(q, k) PROVE PhasesAgree'
  <2> DEFINE r0 == keyRun[k]
  <2>0. /\ pc[q] = "idle" /\ busy = NoRequest /\ pc'[q] = "replayed"
        /\ UNCHANGED <<row, busy, aborted, caught, controllers, ending, snap, crashes, dbFaults>>
    BY <1>2 DEF Replay, Arrives, GoTo, TypeOK
  <2>1. Phase(q)'
    BY <1>0, <2>0, RequestAssumption DEF Phase, Read, HandlerPcs
  <2>2. EndAgrees(q)'
    BY <1>0, <2>0 DEF Phase, EndAgrees, RunPcs, HandlerPcs, Stranded
  <2>3. \A r \in Requests \ {q} : Same(r)
    BY <1>2 DEF Replay, GoTo, Same, TypeOK
  <2>4. /\ busy \in {q, NoRequest} /\ busy' \in {q, NoRequest}
        /\ crashes' >= crashes /\ dbFaults' >= dbFaults
    BY <2>0 DEF TypeOK
  <2>5. \A r \in Requests \ {q} : Phase(r)' /\ EndAgrees(r)'
    BY <2>3, <2>4, OthersAgree
  <2>6. \A r \in Requests : Phase(r)' /\ EndAgrees(r)'
    BY <2>1, <2>2, <2>5
  <2>7. ASSUME NEW p \in Requests, NEW i \in DOMAIN sent'[p]
        PROVE  sent'[p][i].type \in Terminal =>
                 /\ sent'[p][i].status = sent'[p][i].type
                 /\ row'[sent'[p][i].run].status = sent'[p][i].type
    <3>1. CASE p # q
      <4>1. sent'[p] = sent[p]
        BY <1>2, <3>1 DEF Replay, TypeOK
      <4> QED BY <4>1, <2>0 DEF PhasesAgree, ToldTheTruth, Truthful
    <3>2. CASE p = q
      <4>1. sent'[q] = <<RunFrame("created", r0), RunFrame(SnapshotType(r0), r0)>>
        BY <1>2 DEF Replay, TypeOK
      <4>2. i = 1 \/ i = 2
        BY <3>2, <4>1
      <4>3. SnapshotType(r0) \in Terminal => SnapshotType(r0) = row[r0].status
        BY DEF SnapshotType, Terminal
      <4>4. "created" \notin Terminal
        BY DEF Terminal
      <4> QED BY <3>2, <4>1, <4>2, <4>3, <4>4, <2>0 DEF RunFrame
    <3> QED BY <3>1, <3>2
  <2> QED BY <2>6, <2>7 DEF PhasesAgree, ToldTheTruth, Truthful
<1>3. ASSUME LookupFails(q) \/ HandlerFails(q) PROVE PhasesAgree'
  <2>0. /\ pc[q] = "idle" /\ busy = NoRequest /\ pc'[q] \in {"refused", "hung"}
        /\ crashes' = crashes /\ dbFaults' = dbFaults + 1
        /\ UNCHANGED <<row, busy, aborted, caught, controllers, ending, snap, sent>>
    BY <1>3 DEF LookupFails, HandlerFails, Arrives, StatementThrows, GoTo, TypeOK
  <2>1. Phase(q)'
    BY <1>0, <2>0, RequestAssumption DEF Phase, Read, HandlerPcs
  <2>2. EndAgrees(q)'
    BY <1>0, <2>0 DEF Phase, EndAgrees, RunPcs, HandlerPcs, Stranded
  <2>3. \A r \in Requests \ {q} : Same(r)
    BY <1>3 DEF LookupFails, HandlerFails, GoTo, Same, TypeOK
  <2> QED BY <2>0, <2>1, <2>2, <2>3, SilentStepAgrees DEF TypeOK
<1>4. ASSUME Cancel(q) \/ Disconnect(q) PROVE PhasesAgree'
  <2>0. /\ busy = NoRequest /\ aborted' = Aborted(q)
        /\ stream'[q] \in {stream[q], "closed"}
        /\ UNCHANGED <<row, pc, busy, caught, controllers, ending, snap, sent, crashes, dbFaults>>
    BY <1>4 DEF Cancel, Disconnect, TypeOK
  <2>1. pc[q] \notin HandlerPcs
    BY <1>0, <2>0, RequestAssumption DEF Phase
  <2>2. q \in controllers => pc[q] = "streaming"
    BY <1>0, <2>1 DEF EndAgrees, RunPcs, HandlerPcs
  <2>3. q \in controllers <=> pc[q] = "streaming"
    BY <1>0, <2>2 DEF EndAgrees, RunPcs
  <2>4. q \in aborted' <=> (q \in aborted \/ pc[q] = "streaming")
    BY <2>0, <2>3 DEF Aborted
  <2>5. Phase(q)'
    BY <1>0, <2>0, <2>1, <2>4 DEF Phase, Read, HandlerPcs
  <2>6. EndAgrees(q)'
    BY <1>0, <2>0, <2>4 DEF Phase, EndAgrees, Stranded, InProgress, Terminal
  <2>7. \A r \in Requests \ {q} : Same(r)
    BY <1>4, <2>0 DEF Cancel, Disconnect, Aborted, Same, TypeOK
  <2> QED BY <2>0, <2>5, <2>6, <2>7, SilentStepAgrees DEF TypeOK
<1> QED BY <1>1, <1>2, <1>3, <1>4 DEF ClientStep

\* The engine's steps keep the invariant.
LEMMA EngineAgrees ==
  ASSUME TypeOK, TypeOK', PhasesAgree, [Next]_vars, NEW q \in Requests, EngineStep(q)
  PROVE  PhasesAgree'
<1> USE DEF db, task, faults
<1>0. Phase(q) /\ EndAgrees(q)
  BY DEF PhasesAgree
<1>1. pc[q] = "streaming" /\ busy = NoRequest
  BY DEF EngineStep, EngineToken, EngineEnds, EngineThrows
<1>2. CASE EngineToken(q)
  <2>1. /\ UNCHANGED <<row, pc, aborted, controllers, busy, caught, ending, snap, stream,
                       crashes, dbFaults>>
        /\ Emit(q, TokenFrame(q))
    BY <1>2 DEF EngineToken
  <2>2. Phase(q)' /\ EndAgrees(q)'
    BY <1>0, <2>1 DEF Phase, EndAgrees, Stranded, InProgress, Read
  <2>3. \A r \in Requests \ {q} : Same(r)
    BY <2>1 DEF Same
  <2> DEFINE f == TokenFrame(q)
  <2>4. sent' = sent \/ sent' = [sent EXCEPT ![q] = Append(@, f)]
    BY <2>1 DEF Emit
  <2>5. f \in Frame /\ f.type \notin Terminal
    BY TokenFrameSilent
  <2>6. /\ busy \in {q, NoRequest} /\ busy' \in {q, NoRequest}
        /\ crashes' >= crashes /\ dbFaults' >= dbFaults
    BY <1>1, <2>1 DEF TypeOK
  <2> HIDE DEF f
  <2> QED BY <2>2, <2>3, <2>4, <2>5, <2>6, StepAgrees
<1>3. CASE EngineEnds(q)
  <2>1. /\ UNCHANGED <<row, aborted, controllers, caught, snap, stream, sent, crashes, dbFaults>>
        /\ busy' = q /\ pc'[q] = "finishing" /\ ending'[q] = EndingOf(q, "complete")
    BY <1>3 DEF EngineEnds, GoTo, TypeOK
  <2>2. EndingOf(q, "complete") \in EndEvents
    BY DEF EndingOf, EndEvents, RunEvents
  <2>3. IsLegal("running", EndingOf(q, "complete"))
    BY <2>2, LegalInProgress DEF RunStatuses
  <2>4. EndingOf(q, "complete") = "cancel" <=> q \in aborted
    BY DEF EndingOf
  <2>5. row[q].status = "running" /\ snap[q] = Read(q) /\ q \notin caught
    BY <1>0, <1>1 DEF Phase
  <2>6. Phase(q)'
    BY <2>1, <2>2, <2>3, <2>4, <2>5 DEF Phase, Read, HandlerPcs
  <2>7. EndAgrees(q)'
    BY <1>0, <1>1, <2>1, <2>5 DEF EndAgrees, Stranded, RunPcs, HandlerPcs
  <2>8. \A r \in Requests \ {q} : Same(r)
    BY <1>3 DEF EngineEnds, GoTo, Same, TypeOK
  <2> QED BY <1>1, <2>1, <2>6, <2>7, <2>8, SilentStepAgrees DEF TypeOK
<1>4. CASE EngineThrows(q)
  <2>1. row[q].status = "running" /\ q \notin caught
    BY <1>0, <1>1 DEF Phase
  <2>2. /\ UNCHANGED <<row, aborted, controllers, ending, snap, stream, sent, crashes, dbFaults>>
        /\ busy' = q /\ pc' = [pc EXCEPT ![q] = "recovering"] /\ caught' = caught \union {q}
    BY <1>4, <2>1 DEF EngineThrows, Throw, GoTo, TypeOK
  <2>3. Phase(q)'
    BY <2>1, <2>2 DEF Phase, HandlerPcs, TypeOK
  <2>4. EndAgrees(q)'
    BY <1>0, <1>1, <2>1, <2>2 DEF EndAgrees, Stranded, RunPcs, HandlerPcs, TypeOK
  <2>5. \A r \in Requests \ {q} : Same(r)
    BY <2>2 DEF Same, TypeOK
  <2>6. /\ busy \in {q, NoRequest} /\ busy' \in {q, NoRequest}
        /\ crashes' >= crashes /\ dbFaults' >= dbFaults /\ sent' = sent
    BY <1>1, <2>2 DEF TypeOK
  <2> QED BY <2>3, <2>4, <2>5, <2>6, SilentStepAgrees
<1> QED BY <1>2, <1>3, <1>4 DEF EngineStep

\* An exception keeps the invariant, if one that leaves the catch block with the
\* run in progress is the work of a failing statement.
LEMMA ThrowAgrees ==
  ASSUME TypeOK, TypeOK', PhasesAgree, [Next]_vars, NEW q \in Requests,
         busy = q, pc[q] \in HandlerPcs \ {"created"}, row[q].status # "none",
         UNCHANGED <<row, aborted, snap, ending, sent, crashes>>, Throw(q),
         dbFaults' >= dbFaults,
         q \in caught /\ InProgress(q) => dbFaults' > 0
  PROVE  PhasesAgree'
<1>0. Phase(q) /\ EndAgrees(q)
  BY DEF PhasesAgree
<1>1. \A r \in Requests \ {q} : Same(r)
  BY DEF Throw, Finally, GoTo, Same, TypeOK
<1>2. CASE q \in caught
  <2>1. /\ pc'[q] = "rejected" /\ busy' = NoRequest /\ controllers' = controllers \ {q}
        /\ caught' = caught
    BY <1>2 DEF Throw, Finally, GoTo, TypeOK
  <2>2. Phase(q)'
    BY <2>1, RequestAssumption DEF Phase, HandlerPcs
  <2>3. EndAgrees(q)'
    BY <1>0, <1>2, <2>1 DEF EndAgrees, Stranded, InProgress, RunPcs, HandlerPcs
  <2>4. crashes' >= crashes
    BY DEF TypeOK
  <2> QED BY <1>1, <2>1, <2>2, <2>3, <2>4, SilentStepAgrees
<1>3. CASE q \notin caught
  <2>1. /\ pc'[q] = "recovering" /\ busy' = q /\ controllers' = controllers
        /\ caught' = caught \union {q}
    BY <1>3 DEF Throw, GoTo, TypeOK
  <2>2. Phase(q)'
    BY <2>1 DEF Phase, HandlerPcs
  <2>3. EndAgrees(q)'
    BY <1>0, <1>3, <2>1 DEF EndAgrees, Stranded, InProgress, RunPcs, HandlerPcs
  <2>4. crashes' >= crashes
    BY DEF TypeOK
  <2> QED BY <1>1, <2>1, <2>2, <2>3, <2>4, SilentStepAgrees
<1> QED BY <1>2, <1>3

\* The steps of run() keep the invariant.
LEMMA HandlerAgrees ==
  ASSUME TypeOK, TypeOK', PhasesAgree, [Next]_vars, NEW q \in Requests, HandlerStep(q)
  PROVE  PhasesAgree'
<1> USE DEF db, faults
<1>0. Phase(q) /\ EndAgrees(q)
  BY DEF PhasesAgree
<1>1. CASE Begin(q)
  <2>1. /\ UNCHANGED <<row, aborted, snap, caught, stream, busy, crashes, dbFaults>>
        /\ controllers' = controllers \union {q} /\ Emit(q, RunFrame("created", q))
        /\ busy = q /\ pc[q] = "created"
    BY <1>1 DEF Begin, At, Publish
  <2>2. \/ pc'[q] = "starting"
        \/ pc'[q] = "finishing" /\ ending'[q] = "fail"
    BY <1>1 DEF Begin, GoTo, TypeOK
  <2>3. row[q].status = "queued" /\ snap[q] = Read(q) /\ q \notin aborted /\ q \notin caught
        /\ stream[q] = "open"
    BY <1>0, <2>1 DEF Phase
  <2>4. "fail" \in EndEvents /\ IsLegal("queued", "fail")
    BY LegalInProgress DEF EndEvents, RunEvents, RunStatuses
  <2>5. Phase(q)'
    BY <2>1, <2>2, <2>3, <2>4 DEF Phase, Read, HandlerPcs
  <2>6. EndAgrees(q)'
    BY <1>0, <2>1, <2>2, <2>3 DEF EndAgrees, Stranded, RunPcs, HandlerPcs, Terminal
  <2>7. \A r \in Requests \ {q} : Same(r)
    BY <1>1 DEF Begin, GoTo, Same, TypeOK
  <2> DEFINE f == RunFrame("created", q)
  <2>8. f \in Frame /\ f.type \notin Terminal
    BY RunFrameTyped DEF RunFrame, FrameTypes, Terminal
  <2>9. sent' = sent \/ sent' = [sent EXCEPT ![q] = Append(@, f)]
    BY <2>1 DEF Emit
  <2>10. /\ busy \in {q, NoRequest} /\ busy' \in {q, NoRequest}
         /\ crashes' >= crashes /\ dbFaults' >= dbFaults
    BY <2>1 DEF TypeOK
  <2> HIDE DEF f
  <2> QED BY <2>5, <2>6, <2>7, <2>8, <2>9, <2>10, StepAgrees
<1>2. CASE StartRun(q)
  <2>1. /\ UNCHANGED <<aborted, controllers, snap, caught, stream, busy, sent, ending,
                       crashes, dbFaults>>
        /\ busy = q /\ pc[q] = "starting"
    BY <1>2 DEF StartRun, At
  <2>2. row[q].status = "queued" /\ snap[q] = Read(q) /\ q \notin aborted /\ q \notin caught
        /\ stream[q] = "open"
    BY <1>0, <2>1 DEF Phase
  <2>3. row[q].version = snap[q].version
    BY <2>2 DEF Read
  <2>4. /\ pc'[q] = "started" /\ row'[q].status = "running"
        /\ row'[q].error = row[q].error
    BY <1>2, <2>3, NextStatusEnds DEF StartRun, GoTo, TransitionStatus, Coalesce, TypeOK
  <2>5. Phase(q)'
    BY <2>1, <2>2, <2>4 DEF Phase, HandlerPcs
  <2>6. EndAgrees(q)'
    BY <1>0, <2>1, <2>2, <2>4 DEF EndAgrees, Stranded, RunPcs, HandlerPcs, Terminal
  <2>7. \A r \in Requests \ {q} : Same(r)
    BY <1>2, <2>1 DEF StartRun, GoTo, TransitionStatus, Same, TypeOK
  <2>8. /\ busy \in {q, NoRequest} /\ busy' \in {q, NoRequest}
        /\ crashes' >= crashes /\ dbFaults' >= dbFaults /\ sent' = sent
    BY <2>1 DEF TypeOK
  <2> QED BY <2>5, <2>6, <2>7, <2>8, SilentStepAgrees
<1>3. CASE AfterStart(q)
  <2>0. pc[q] = "started" /\ busy = q
    BY <1>0, <1>3 DEF AfterStart, Phase
  <2>1. /\ UNCHANGED <<row, aborted, controllers, caught, stream, ending, crashes, dbFaults>>
        /\ busy' = NoRequest /\ pc' = [pc EXCEPT ![q] = "streaming"]
        /\ snap' = [snap EXCEPT ![q] = Read(q)]
        /\ Emit(q, RunFrame("status", q))
    BY <1>3, <2>0 DEF AfterStart, Publish, GoTo
  <2>2. row[q].status = "running" /\ q \notin caught /\ stream[q] = "open"
    BY <1>0, <2>0 DEF Phase
  <2>3. Phase(q)'
    BY <2>0, <2>1, <2>2, RequestAssumption DEF Phase, Read, HandlerPcs, TypeOK
  <2>4. EndAgrees(q)'
    BY <1>0, <2>0, <2>1, <2>2 DEF EndAgrees, Stranded, RunPcs, HandlerPcs, TypeOK
  <2>5. \A r \in Requests \ {q} : Same(r)
    BY <2>1 DEF Same, TypeOK
  <2> DEFINE f == RunFrame("status", q)
  <2>6. f \in Frame /\ f.type \notin Terminal
    BY RunFrameTyped DEF RunFrame, FrameTypes, Terminal
  <2>7. sent' = sent \/ sent' = [sent EXCEPT ![q] = Append(@, f)]
    BY <2>1 DEF Emit
  <2>8. /\ busy \in {q, NoRequest} /\ busy' \in {q, NoRequest}
        /\ crashes' >= crashes /\ dbFaults' >= dbFaults
    BY <2>0, <2>1 DEF TypeOK
  <2> HIDE DEF f
  <2> QED BY <2>3, <2>4, <2>5, <2>6, <2>7, <2>8, StepAgrees
<1>4. CASE Recover(q)
  <2>1. /\ UNCHANGED <<row, aborted, controllers, caught, stream, busy, sent, crashes, dbFaults>>
        /\ busy = q /\ pc[q] = "recovering"
        /\ pc' = [pc EXCEPT ![q] = "finishing"]
        /\ snap' = [snap EXCEPT ![q] = Read(q)]
        /\ ending' = [ending EXCEPT ![q] = EndingOf(q, "fail")]
    BY <1>4 DEF Recover, At, GoTo
  <2>2. q \in caught /\ row[q].status # "none"
    BY <1>0, <2>1 DEF Phase
  <2>3. /\ EndingOf(q, "fail") \in EndEvents \ {"complete"}
        /\ EndingOf(q, "fail") = "cancel" <=> q \in aborted
    BY DEF EndingOf, EndEvents, RunEvents
  <2>4. Phase(q)'
    BY <2>1, <2>2, <2>3 DEF Phase, Read, HandlerPcs, TypeOK
  <2>5. EndAgrees(q)'
    BY <1>0, <2>1 DEF EndAgrees, Stranded, InProgress, RunPcs, HandlerPcs, TypeOK
  <2>6. \A r \in Requests \ {q} : Same(r)
    BY <2>1 DEF Same, TypeOK
  <2>7. /\ busy \in {q, NoRequest} /\ busy' \in {q, NoRequest}
        /\ crashes' >= crashes /\ dbFaults' >= dbFaults /\ sent' = sent
    BY <2>1 DEF TypeOK
  <2> QED BY <2>4, <2>5, <2>6, <2>7, SilentStepAgrees
<1>5. CASE Persist(q)
  <2>1. /\ UNCHANGED <<aborted, controllers, snap, caught, stream, busy, sent, ending,
                       crashes, dbFaults>>
        /\ busy = q /\ pc[q] = "finishing" /\ pc'[q] = "reporting"
    BY <1>5 DEF Persist, At, GoTo, TypeOK
  <2>2. /\ snap[q] = Read(q) /\ ending[q] \in EndEvents
        /\ ending[q] = "cancel" <=> q \in aborted
    BY <1>0, <2>1 DEF Phase
  <2>3. snap[q].version = row[q].version /\ snap[q].status = row[q].status
    BY <2>2 DEF Read
  <2>4. row[q].status \in {"queued", "running"}
    <3>1. IsLegal(row[q].status, ending[q]) /\ row[q].status \in RunStatuses \union {"none"}
      BY <1>5, <2>3 DEF Persist, TypeOK, Row
    <3> QED BY <3>1, <2>2, LegalInProgress
  <2>5. row[q].error = "none"
    BY <1>0, <2>4 DEF EndAgrees
  <2>6. row'[q].status = NextStatus(ending[q]) /\ row'[q].error = ErrorOf(q)
    BY <1>5, <2>3, <2>5 DEF Persist, TransitionStatus, Coalesce, TypeOK
  <2>7. ErrorOf(q) # "none" <=> ending[q] = "fail"
    BY DEF ErrorOf
  <2>8. Phase(q)'
    BY <2>1, <2>2, <2>6 DEF Phase, HandlerPcs
  <2>9. EndAgrees(q)'
    <3>1. NextStatus(ending[q]) \in Terminal
      BY <2>2, NextStatusEnds
    <3>2. NextStatus(ending[q]) = "cancelled" <=> q \in aborted
      BY <2>2, NextStatusEnds
    <3>3. NextStatus(ending[q]) = "failed" <=> row'[q].error # "none"
      BY <2>2, <2>6, <2>7, NextStatusEnds
    <3> QED BY <1>0, <2>1, <2>6, <3>1, <3>2, <3>3
            DEF EndAgrees, Stranded, RunPcs, HandlerPcs, Terminal
  <2>10. \A r \in Requests \ {q} : Same(r)
    BY <1>5, <2>1 DEF Persist, GoTo, TransitionStatus, Same, TypeOK
  <2>11. /\ busy \in {q, NoRequest} /\ busy' \in {q, NoRequest}
         /\ crashes' >= crashes /\ dbFaults' >= dbFaults /\ sent' = sent
    BY <2>1 DEF TypeOK
  <2> QED BY <2>8, <2>9, <2>10, <2>11, SilentStepAgrees
<1>6. CASE PersistConflict(q)
  <2>1. /\ UNCHANGED <<row, aborted, snap, ending, sent, crashes, dbFaults>>
        /\ busy = q /\ pc[q] = "finishing" /\ Throw(q)
        /\ ~IsLegal(snap[q].status, ending[q])
    BY <1>6 DEF PersistConflict, At
  <2>2. /\ snap[q] = Read(q) /\ ending[q] \in EndEvents /\ row[q].status # "none"
        /\ q \in caught => ending[q] # "complete"
    BY <1>0, <2>1 DEF Phase
  <2>3. ~IsLegal(row[q].status, ending[q])
    BY <2>1, <2>2 DEF Read
  <2>4. q \in caught => ~InProgress(q)
    <3>1. row[q].status \in RunStatuses \union {"none"}
      BY DEF TypeOK, Row
    <3> QED BY <2>2, <2>3, <3>1, LegalInProgress DEF InProgress
  <2>5. dbFaults' >= dbFaults /\ pc[q] \in HandlerPcs \ {"created"}
    BY <2>1 DEF TypeOK, HandlerPcs
  <2> QED BY <2>1, <2>2, <2>4, <2>5, ThrowAgrees
<1>7. CASE Report(q)
  <2>1. /\ UNCHANGED <<row, aborted, snap, ending, caught, crashes, dbFaults>>
        /\ busy = q /\ pc[q] = "reporting" /\ busy' = NoRequest /\ pc'[q] = "done"
        /\ controllers' = controllers \ {q}
        /\ Emit(q, RunFrame(NextStatus(ending[q]), q))
    BY <1>7 DEF Report, At, GoTo, Finally, Publish, TypeOK
  <2>2. ending[q] \in EndEvents /\ row[q].status = NextStatus(ending[q])
    BY <1>0, <2>1 DEF Phase
  <2>3. row[q].status \in Terminal
    BY <2>2, NextStatusEnds
  <2>4. Phase(q)'
    BY <2>1, <2>3, RequestAssumption DEF Phase, HandlerPcs
  <2>5. EndAgrees(q)'
    BY <1>0, <2>1 DEF EndAgrees, Stranded, RunPcs, HandlerPcs
  <2>6. \A r \in Requests \ {q} : Same(r)
    BY <1>7 DEF Report, GoTo, Finally, Same, TypeOK
  <2> DEFINE f == RunFrame(NextStatus(ending[q]), q)
  <2>7. f \in Frame
    BY <2>2, <2>3, RunFrameTyped DEF FrameTypes
  <2>8. f.status = f.type /\ row'[f.run].status = f.type
    BY <2>1, <2>2 DEF RunFrame
  <2>9. sent' = sent \/ sent' = [sent EXCEPT ![q] = Append(@, f)]
    BY <2>1 DEF Emit
  <2>10. /\ busy \in {q, NoRequest} /\ busy' \in {q, NoRequest}
         /\ crashes' >= crashes /\ dbFaults' >= dbFaults
    BY <2>1 DEF TypeOK
  <2> HIDE DEF f
  <2> QED BY <2>4, <2>5, <2>6, <2>7, <2>8, <2>9, <2>10, StepAgrees
<1>8. CASE StatementFails(q)
  <2>1. /\ UNCHANGED <<row, aborted, snap, ending, sent, crashes>>
        /\ busy = q /\ Throw(q) /\ dbFaults' = dbFaults + 1
        /\ pc[q] \in {"starting", "started", "recovering", "reporting", "finishing"}
    BY <1>0, <1>8 DEF StatementFails, StatementThrows, Phase
  <2>2. row[q].status # "none"
    BY <1>0, <2>1, NextStatusEnds DEF Phase, Terminal
  <2>3. dbFaults' >= dbFaults /\ dbFaults' > 0 /\ pc[q] \in HandlerPcs \ {"created"}
    BY <2>1 DEF TypeOK, HandlerPcs
  <2> QED BY <2>1, <2>2, <2>3, ThrowAgrees
<1> QED BY <1>1, <1>2, <1>3, <1>4, <1>5, <1>6, <1>7, <1>8 DEF HandlerStep

\* The steps of the process keep the invariant.
LEMMA ProcessAgrees ==
  ASSUME TypeOK, TypeOK', PhasesAgree, [Next]_vars, ProcessStep
  PROVE  PhasesAgree'
<1> USE DEF db, task, faults
<1>0. UNCHANGED <<row, aborted, snap, ending, caught, sent>>
  BY DEF ProcessStep, BeginShutdown, Exit, Crash, Restart, ProcessGone
<1>1. ToldTheTruth'
  BY <1>0 DEF PhasesAgree, ToldTheTruth, Truthful
<1>2. SUFFICES ASSUME NEW r \in Requests PROVE Phase(r)' /\ EndAgrees(r)'
  BY <1>1 DEF PhasesAgree
<1>3. Phase(r) /\ EndAgrees(r)
  BY DEF PhasesAgree
<1>4. CASE BeginShutdown \/ Restart
  <2>1. UNCHANGED <<controllers, pc, stream, busy, crashes, dbFaults>>
    BY <1>4 DEF BeginShutdown, Restart
  <2> QED BY <1>0, <1>3, <2>1 DEF Phase, EndAgrees, Read, Stranded, InProgress
<1>5. CASE Exit \/ Crash
  <2>1. /\ controllers' = {} /\ busy' = NoRequest
        /\ pc'[r] = IF pc[r] = "idle" THEN "idle" ELSE "gone"
    BY <1>5 DEF Exit, Crash, ProcessGone
  <2>2. Phase(r)'
    BY <1>0, <1>3, <2>1, RequestAssumption DEF Phase, HandlerPcs
  <2>3. Stranded(r)' => crashes' > 0 \/ dbFaults' > 0 \/ r \in aborted
    <3>1. CASE Crash
      BY <3>1 DEF Crash, TypeOK
    <3>2. CASE Exit
      <4>1. /\ busy = NoRequest /\ stream[r] # "open"
            /\ UNCHANGED <<crashes, dbFaults>>
        BY <3>2 DEF Exit
      <4>2. pc[r] \notin HandlerPcs
        BY <1>3, <4>1, RequestAssumption DEF Phase
      <4>3. CASE pc[r] = "streaming"
        BY <1>3, <4>1, <4>3 DEF Phase
      <4>4. CASE pc[r] \in OverPcs \union {"idle"}
        BY <1>0, <1>3, <4>1, <4>4 DEF Phase, EndAgrees, Stranded, InProgress, OverPcs, Terminal
      <4> QED BY <4>2, <4>3, <4>4 DEF TypeOK, Pcs
    <3> QED BY <1>5, <3>1, <3>2
  <2>4. EndAgrees(r)'
    BY <1>0, <1>3, <2>1, <2>3 DEF EndAgrees, RunPcs, HandlerPcs
  <2> QED BY <2>2, <2>4
<1> QED BY <1>4, <1>5 DEF ProcessStep

\* The inductive invariant holds of every behaviour.
THEOREM PhasesAgreeAlways == Spec => []PhasesAgree
<1>1. Init => PhasesAgree
  BY RequestAssumption DEF Init, PhasesAgree, Phase, EndAgrees, ToldTheTruth, HandlerPcs, RunPcs,
     NoRow, Stranded, Terminal
<1>2. TypeOK /\ TypeOK' /\ PhasesAgree /\ [Next]_vars => PhasesAgree'
  <2> SUFFICES ASSUME TypeOK, TypeOK', PhasesAgree, [Next]_vars PROVE PhasesAgree'
    OBVIOUS
  <2>1. CASE UNCHANGED vars
    BY <2>1 DEF vars, PhasesAgree, Phase, EndAgrees, ToldTheTruth, Truthful, Read, Stranded, InProgress
  <2> QED BY <2>1, ClientAgrees, EngineAgrees, HandlerAgrees, ProcessAgrees DEF Next
<1> QED BY <1>1, <1>2, TypeCorrect, PTL DEF Spec

-----------------------------------------------------------------------------
(* The safety properties.                                                  *)

\* CancelWins: a run ends cancelled exactly if its cancellation was accepted.
THEOREM CancelWinsAlways == Spec => []CancelWins
<1>1. PhasesAgree => CancelWins
  BY DEF PhasesAgree, EndAgrees, CancelWins
<1> QED BY <1>1, PhasesAgreeAlways, PTL

\* ToldTheTruth: the end a client was told is the end that is stored.
THEOREM ToldTheTruthAlways == Spec => []ToldTheTruth
<1>1. PhasesAgree => ToldTheTruth
  BY DEF PhasesAgree
<1> QED BY <1>1, PhasesAgreeAlways, PTL

\* Attended: a run in progress is worked on, read or aborted, or stranded.
THEOREM AttendedAlways == Spec => []Attended
<1>1. TypeOK /\ PhasesAgree => Attended
  <2> SUFFICES ASSUME TypeOK, PhasesAgree, NEW r \in Requests, InProgress(r)
               PROVE  \/ busy = r
                      \/ r \in controllers /\ (stream[r] = "open" \/ r \in aborted)
                      \/ Stranded(r)
    BY DEF Attended
  <2>1. Phase(r) /\ EndAgrees(r)
    BY DEF PhasesAgree
  <2>2. CASE pc[r] \in HandlerPcs
    BY <2>1, <2>2 DEF Phase
  <2>3. CASE pc[r] = "streaming"
    BY <2>1, <2>3 DEF Phase, EndAgrees, RunPcs
  <2>4. CASE pc[r] \in OverPcs \union {"idle"}
    BY <2>1, <2>4 DEF Phase, OverPcs, Stranded, InProgress, Terminal
  <2> QED BY <2>2, <2>3, <2>4 DEF TypeOK, Pcs
<1> QED BY <1>1, TypeCorrect, PhasesAgreeAlways, PTL

\* StrandedOnlyByFailure: nothing but a crash, a failing statement or a client
\* that left before a shutdown strands a run.
THEOREM StrandedOnlyByFailureAlways == Spec => []StrandedOnlyByFailure
<1>1. PhasesAgree => StrandedOnlyByFailure
  BY DEF PhasesAgree, EndAgrees, StrandedOnlyByFailure
<1> QED BY <1>1, PhasesAgreeAlways, PTL

\* ControllersAreLive: the controllers are those of the runs inside run().
THEOREM ControllersAreLiveAlways == Spec => []ControllersAreLive
<1>1. TypeOK /\ PhasesAgree => ControllersAreLive
  BY DEF TypeOK, PhasesAgree, EndAgrees, ControllersAreLive
<1> QED BY <1>1, TypeCorrect, PhasesAgreeAlways, PTL

\* NoLostUpdate: the version persistTerminal writes with is the current one.
THEOREM NoLostUpdateAlways == Spec => []NoLostUpdate
<1>1. PhasesAgree => NoLostUpdate
  <2> SUFFICES ASSUME PhasesAgree, NEW r \in Requests
               PROVE  /\ pc[r] = "finishing" =>
                           snap[r].version = row[r].version /\ snap[r].status = row[r].status
                      /\ pc[r] # "overtaken"
    BY DEF NoLostUpdate
  <2>1. (pc[r] = "finishing" => snap[r] = Read(r)) /\ pc[r] # "overtaken"
    BY DEF PhasesAgree, Phase
  <2> QED BY <2>1 DEF Read
<1> QED BY <1>1, PhasesAgreeAlways, PTL

\* FailureHasReason: exactly the failed runs have an error message.
THEOREM FailureHasReasonAlways == Spec => []FailureHasReason
<1>1. PhasesAgree => FailureHasReason
  BY DEF PhasesAgree, EndAgrees, FailureHasReason
<1> QED BY <1>1, PhasesAgreeAlways, PTL

\* TerminalIsFinal: no step, of any handler or process, writes an ended run.
THEOREM TerminalIsFinalAlways == Spec => TerminalIsFinal
<1>1. TypeOK /\ PhasesAgree /\ [Next]_vars =>
        [\A r \in Requests : row[r].status \in Terminal => row'[r] = row[r]]_vars
  BY TerminalStep
<1> QED BY <1>1, TypeCorrect, PhasesAgreeAlways, PTL DEF Spec, TerminalIsFinal

-----------------------------------------------------------------------------
(* Idempotency.                                                            *)

\* Every run has a key, no two keys have the same run, and no key has a run
\* that does not exist.
KeysAgree ==
  /\ \A r \in Requests : row[r].status # "none" <=> \E k \in Keys : keyRun[k] = r
  /\ \A k, l \in Keys : keyRun[k] = keyRun[l] /\ keyRun[k] # NoRequest => k = l

\* Only the creation of a run changes the keys and makes a row.
LEMMA KeyStep ==
  ASSUME TypeOK, PhasesAgree, [Next]_vars
  PROVE  \/ \E q \in Requests : \E k \in Keys : CreateRun(q, k)
         \/ /\ UNCHANGED keyRun
            /\ \A r \in Requests : row'[r].status = "none" <=> row[r].status = "none"
<1> USE DEF db
<1>1. ASSUME NEW q \in Requests, StartRun(q) \/ Persist(q)
      PROVE  /\ UNCHANGED keyRun
             /\ \A r \in Requests : row'[r].status = "none" <=> row[r].status = "none"
  <2>1. row[q].status # "none"
    <3>1. pc[q] \in {"starting", "finishing"}
      BY <1>1 DEF StartRun, Persist, At
    <3> QED BY <3>1 DEF PhasesAgree, Phase
  <2>2. NextStatus("start") # "none" /\ NextStatus(ending[q]) # "none"
    BY DEF NextStatus
  <2>3. PICK status, count, error :
          /\ row' = TransitionStatus(q, snap[q].version, status, count, error)
          /\ status # "none"
    BY <1>1, <2>2 DEF StartRun, Persist
  <2>4. row'[q].status # "none"
    BY <2>1, <2>3 DEF TransitionStatus, TypeOK
  <2>5. \A r \in Requests \ {q} : row'[r] = row[r]
    BY <2>3 DEF TransitionStatus, TypeOK
  <2>6. UNCHANGED keyRun
    BY <1>1 DEF StartRun, Persist
  <2> QED BY <2>1, <2>4, <2>5, <2>6
<1>2. ASSUME NEW q \in Requests, HandlerStep(q)
      PROVE  StartRun(q) \/ Persist(q) \/ UNCHANGED <<keyRun, row>>
  BY <1>2 DEF HandlerStep, Begin, AfterStart, Recover, PersistConflict, Report, StatementFails
<1>3. ASSUME NEW q \in Requests, EngineStep(q) PROVE UNCHANGED <<keyRun, row>>
  BY <1>3 DEF EngineStep, EngineToken, EngineEnds, EngineThrows
<1>4. ASSUME NEW q \in Requests, ClientStep(q)
      PROVE  (\E k \in Keys : CreateRun(q, k)) \/ UNCHANGED <<keyRun, row>>
  BY <1>4 DEF ClientStep, Replay, LookupFails, HandlerFails, Cancel, Disconnect
<1>5. ASSUME ProcessStep PROVE UNCHANGED <<keyRun, row>>
  BY <1>5 DEF ProcessStep, BeginShutdown, Exit, Crash, Restart, ProcessGone
<1>6. ASSUME UNCHANGED vars PROVE UNCHANGED <<keyRun, row>>
  BY <1>6 DEF vars
<1> QED BY <1>1, <1>2, <1>3, <1>4, <1>5, <1>6 DEF Next

\* OneRunPerKey: a run and its key are stored together, one for one.
THEOREM OneRunPerKeyAlways == Spec => []OneRunPerKey
<1>1. Init => KeysAgree
  BY RequestAssumption DEF Init, KeysAgree, NoRow
<1>2. TypeOK /\ PhasesAgree /\ KeysAgree /\ [Next]_vars => KeysAgree'
  <2> SUFFICES ASSUME TypeOK, PhasesAgree, KeysAgree, [Next]_vars PROVE KeysAgree'
    OBVIOUS
  <2>1. ASSUME NEW q \in Requests, NEW k \in Keys, CreateRun(q, k) PROVE KeysAgree'
    <3>1. row[q].status = "none" /\ keyRun[k] = NoRequest
      BY <2>1 DEF CreateRun, Arrives, PhasesAgree, Phase
    <3>2. row' = [row EXCEPT ![q] = QueuedRow] /\ keyRun' = [keyRun EXCEPT ![k] = q]
      BY <2>1 DEF CreateRun
    <3>3. row'[q].status # "none" /\ keyRun'[k] = q
      BY <3>2 DEF QueuedRow, NoRow, TypeOK
    <3>4. \A l \in Keys : keyRun[l] # q
      BY <3>1 DEF KeysAgree
    <3>5. \A l \in Keys \ {k} : keyRun'[l] = keyRun[l]
      BY <3>2 DEF TypeOK
    <3>6. \A r \in Requests \ {q} : row'[r] = row[r]
      BY <3>2 DEF TypeOK
    <3>7. ASSUME NEW r \in Requests
          PROVE  row'[r].status # "none" <=> \E l \in Keys : keyRun'[l] = r
      <4>1. CASE r = q
        BY <4>1, <3>3
      <4>2. CASE r # q
        <5>1. (\E l \in Keys : keyRun'[l] = r) <=> (\E l \in Keys : keyRun[l] = r)
          BY <4>2, <3>1, <3>3, <3>5, RequestAssumption
        <5> QED BY <4>2, <5>1, <3>6 DEF KeysAgree
      <4> QED BY <4>1, <4>2
    <3>8. \A l, m \in Keys : keyRun'[l] = keyRun'[m] /\ keyRun'[l] # NoRequest => l = m
      BY <3>3, <3>4, <3>5 DEF KeysAgree
    <3> QED BY <3>7, <3>8 DEF KeysAgree
  <2> QED BY <2>1, KeyStep DEF KeysAgree
<1>3. KeysAgree => OneRunPerKey
  <2> SUFFICES ASSUME KeysAgree, NEW r \in Requests
               PROVE  Cardinality({k \in Keys : keyRun[k] = r})
                        = IF row[r].status = "none" THEN 0 ELSE 1
    BY DEF OneRunPerKey
  <2>1. CASE row[r].status = "none"
    <3>1. {k \in Keys : keyRun[k] = r} = {}
      BY <2>1 DEF KeysAgree
    <3> QED BY <2>1, <3>1, FS_EmptySet
  <2>2. CASE row[r].status # "none"
    <3>1. PICK k \in Keys : keyRun[k] = r
      BY <2>2 DEF KeysAgree
    <3>2. {l \in Keys : keyRun[l] = r} = {k}
      BY <3>1, RequestAssumption DEF KeysAgree
    <3> QED BY <2>2, <3>2, FS_Singleton
  <2> QED BY <2>1, <2>2
<1> QED BY <1>1, <1>2, <1>3, TypeCorrect, PhasesAgreeAlways, PTL DEF Spec

-----------------------------------------------------------------------------
(* The counters.                                                           *)

\* The runs whose handler was left by an exception.
Rejected == {r \in Requests : pc[r] = "rejected"}

\* MetricsConserved, of sets that can be counted.
CountersAgree == IsFiniteSet(controllers) /\ IsFiniteSet(Rejected) /\ MetricsConserved

\* What moving one handler adds to the rejected ones.
LEMMA RejectedStep ==
  ASSUME TypeOK, NEW q \in Requests, NEW label, GoTo(q, label), pc[q] # "rejected"
  PROVE  Rejected' = IF label = "rejected" THEN Rejected \union {q} ELSE Rejected
BY DEF TypeOK, GoTo, Rejected

\* A step that counts nothing, registers nobody and rejects nobody.
LEMMA CountersKept ==
  ASSUME CountersAgree, UNCHANGED <<controllers, metrics>>, Rejected' = Rejected
  PROVE  CountersAgree'
<1>1. MetricsConserved <=>
        metrics["created"] = metrics["completed"] + metrics["cancelled"] + metrics["failed"]
          + Cardinality(controllers) + Cardinality(Rejected)
  BY DEF MetricsConserved, Rejected
<1>2. MetricsConserved' <=>
        metrics'["created"] = metrics'["completed"] + metrics'["cancelled"] + metrics'["failed"]
          + Cardinality(controllers') + Cardinality(Rejected')
  BY DEF MetricsConserved, Rejected
<1> QED
  BY <1>1, <1>2 DEF CountersAgree

\* An exception leaves the try block, and nothing changes, or the catch block, and the run
\* is rejected instead of being in progress.
LEMMA ThrowCounts ==
  ASSUME TypeOK, CountersAgree, NEW q \in Requests, q \in controllers, pc[q] # "rejected",
         Throw(q), UNCHANGED metrics
  PROVE  CountersAgree'
<1>1. CASE q \notin caught
  <2>1. Rejected' = Rejected /\ controllers' = controllers
    BY <1>1, RejectedStep DEF Throw
  <2> QED
    BY <2>1, CountersKept
<1>2. CASE q \in caught
  <2>1. Rejected' = Rejected \union {q} /\ controllers' = controllers \ {q}
    BY <1>2, RejectedStep DEF Throw, Finally
  <2>2. q \notin Rejected
    BY DEF Rejected
  <2>3. IsFiniteSet(Rejected') /\ Cardinality(Rejected') = Cardinality(Rejected) + 1
    BY <2>1, <2>2, FS_AddElement DEF CountersAgree
  <2>4. IsFiniteSet(controllers') /\ Cardinality(controllers') = Cardinality(controllers) - 1
    BY <2>1, FS_RemoveElement DEF CountersAgree
  <2>5. Cardinality(controllers) \in Nat /\ Cardinality(Rejected) \in Nat
    BY FS_CardinalityType DEF CountersAgree
  <2>6. \A name \in MetricNames : metrics[name] \in Nat
    BY DEF TypeOK
  <2>7. MetricsConserved'
    <3>1. metrics["created"] = metrics["completed"] + metrics["cancelled"] + metrics["failed"]
            + Cardinality(controllers) + Cardinality(Rejected)
      BY DEF CountersAgree, MetricsConserved, Rejected
    <3>2. metrics'["created"] = metrics'["completed"] + metrics'["cancelled"] + metrics'["failed"]
            + Cardinality(controllers') + Cardinality(Rejected')
      BY <2>3, <2>4, <2>5, <2>6, <3>1 DEF MetricNames, Terminal
    <3> QED
      BY <3>2 DEF MetricsConserved, Rejected
  <2> QED
    BY <2>3, <2>4, <2>7 DEF CountersAgree
<1> QED
  BY <1>1, <1>2

\* The announcement of a run, and of its end.
LEMMA BeginCounts ==
  ASSUME TypeOK, PhasesAgree, CountersAgree, NEW q \in Requests, Begin(q)
  PROVE  CountersAgree'
<1>1. pc[q] = "created" /\ q \notin controllers
  BY DEF Begin, At, PhasesAgree, EndAgrees, RunPcs, HandlerPcs
<1>2. controllers' = controllers \union {q} /\ metrics' = [metrics EXCEPT !["created"] = @ + 1]
  BY DEF Begin, Publish, Counted, RunFrame, MetricNames
<1>3. Rejected' = Rejected
  <2>1. GoTo(q, "starting") \/ GoTo(q, "finishing")
    BY DEF Begin
  <2> QED
    BY <1>1, <2>1, RejectedStep
<1>4. IsFiniteSet(controllers') /\ Cardinality(controllers') = Cardinality(controllers) + 1
  BY <1>1, <1>2, FS_AddElement DEF CountersAgree
<1>5. Cardinality(controllers) \in Nat /\ Cardinality(Rejected) \in Nat
  BY FS_CardinalityType DEF CountersAgree
<1>6. \A name \in MetricNames : metrics[name] \in Nat
  BY DEF TypeOK
<1>7. metrics'["created"] = metrics["created"] + 1
      /\ \A name \in Terminal : metrics'[name] = metrics[name]
  BY <1>2 DEF TypeOK, MetricNames, Terminal
<1>8. metrics["created"] = metrics["completed"] + metrics["cancelled"] + metrics["failed"]
        + Cardinality(controllers) + Cardinality(Rejected)
  BY DEF CountersAgree, MetricsConserved, Rejected
<1>9. metrics'["created"] = metrics'["completed"] + metrics'["cancelled"] + metrics'["failed"]
        + Cardinality(controllers') + Cardinality(Rejected')
  BY <1>3, <1>4, <1>5, <1>6, <1>7, <1>8 DEF MetricNames, Terminal
<1> QED
  BY <1>3, <1>4, <1>9 DEF CountersAgree, MetricsConserved, Rejected

LEMMA ReportCounts ==
  ASSUME TypeOK, PhasesAgree, CountersAgree, NEW q \in Requests, Report(q)
  PROVE  CountersAgree'
<1> DEFINE end == NextStatus(ending[q])
<1>1. pc[q] = "reporting" /\ q \in controllers
  BY DEF Report, At, PhasesAgree, EndAgrees, RunPcs, HandlerPcs
<1>2. end \in Terminal
  BY <1>1, NextStatusEnds DEF PhasesAgree, Phase
<1>3. controllers' = controllers \ {q} /\ metrics' = [metrics EXCEPT ![end] = @ + 1]
  BY <1>2 DEF Report, Finally, Publish, Counted, RunFrame, MetricNames
<1>4. Rejected' = Rejected
  BY <1>1, RejectedStep DEF Report
<1>5. IsFiniteSet(controllers') /\ Cardinality(controllers') = Cardinality(controllers) - 1
  BY <1>1, <1>3, FS_RemoveElement DEF CountersAgree
<1>6. Cardinality(controllers) \in Nat /\ Cardinality(Rejected) \in Nat
  BY FS_CardinalityType DEF CountersAgree
<1>7. \A name \in MetricNames : metrics[name] \in Nat
  BY DEF TypeOK
<1> HIDE DEF end
<1>8. metrics'[end] = metrics[end] + 1
      /\ \A name \in MetricNames \ {end} : metrics'[name] = metrics[name]
  BY <1>2, <1>3 DEF TypeOK, MetricNames
<1>9. metrics["created"] = metrics["completed"] + metrics["cancelled"] + metrics["failed"]
        + Cardinality(controllers) + Cardinality(Rejected)
  BY DEF CountersAgree, MetricsConserved, Rejected
<1>10. metrics'["created"] = metrics'["completed"] + metrics'["cancelled"] + metrics'["failed"]
         + Cardinality(controllers') + Cardinality(Rejected')
  BY <1>2, <1>4, <1>5, <1>6, <1>7, <1>8, <1>9 DEF MetricNames, Terminal
<1> QED
  BY <1>4, <1>5, <1>10 DEF CountersAgree, MetricsConserved, Rejected

\* Every other step of a handler, of the engine or of a client counts nothing.
LEMMA RunCounts ==
  ASSUME TypeOK, PhasesAgree, CountersAgree, NEW q \in Requests,
         HandlerStep(q) \/ EngineStep(q) \/ ClientStep(q)
  PROVE  CountersAgree'
<1>1. CASE Begin(q)
  BY <1>1, BeginCounts
<1>2. CASE Report(q)
  BY <1>2, ReportCounts
<1>3. CASE PersistConflict(q) \/ StatementFails(q) \/ EngineThrows(q)
  <2>1. pc[q] \in RunPcs /\ Throw(q) /\ UNCHANGED metrics
    BY <1>3 DEF PersistConflict, StatementFails, EngineThrows, At, RunPcs, HandlerPcs
  <2>2. q \in controllers /\ pc[q] # "rejected"
    BY <2>1 DEF PhasesAgree, EndAgrees, RunPcs, HandlerPcs
  <2> QED
    BY <2>1, <2>2, ThrowCounts
<1>4. CASE AfterStart(q)
  <2>1. pc[q] = "started"
    BY <1>4 DEF AfterStart, PhasesAgree, Phase
  <2>2. GoTo(q, "streaming") /\ UNCHANGED <<controllers, metrics>>
    BY <1>4, <2>1 DEF AfterStart, Publish, Counted, RunFrame, MetricNames, Terminal
  <2> QED
    BY <2>1, <2>2, RejectedStep, CountersKept
<1>5. CASE StartRun(q) \/ Recover(q) \/ Persist(q) \/ EngineEnds(q)
  <2>1. /\ pc[q] \in RunPcs
        /\ UNCHANGED <<controllers, metrics>>
        /\ \E label \in {"started", "overtaken", "finishing", "reporting"} : GoTo(q, label)
    BY <1>5 DEF StartRun, Recover, Persist, EngineEnds, At, RunPcs, HandlerPcs
  <2>2. Rejected' = Rejected
    BY <2>1, RejectedStep DEF RunPcs, HandlerPcs
  <2> QED
    BY <2>1, <2>2, CountersKept
<1>6. CASE EngineToken(q) \/ Cancel(q) \/ Disconnect(q)
  <2>1. UNCHANGED <<pc, controllers, metrics>>
    BY <1>6 DEF EngineToken, Cancel, Disconnect, task
  <2> QED
    BY <2>1, CountersKept DEF Rejected
<1>7. CASE LookupFails(q) \/ HandlerFails(q) \/ \E k \in Keys : CreateRun(q, k) \/ Replay(q, k)
  <2>1. /\ pc[q] = "idle"
        /\ UNCHANGED <<controllers, metrics>>
        /\ \E label \in {"refused", "hung", "created", "replayed"} : GoTo(q, label)
    BY <1>7 DEF LookupFails, HandlerFails, CreateRun, Replay, Arrives
  <2>2. Rejected' = Rejected
    BY <2>1, RejectedStep
  <2> QED
    BY <2>1, <2>2, CountersKept
<1> QED
  BY <1>1, <1>2, <1>3, <1>4, <1>5, <1>6, <1>7 DEF HandlerStep, EngineStep, ClientStep

\* MetricsConserved: since the process started, every announced run is counted as ended, is
\* in run(), or was lost to an exception, whatever the number of runs.
THEOREM MetricsConservedAlways == Spec => []MetricsConserved
<1>1. Init => CountersAgree
  <2> SUFFICES ASSUME Init PROVE CountersAgree
    OBVIOUS
  <2>1. controllers = {} /\ Rejected = {}
    BY DEF Init, Rejected
  <2>2. \A name \in MetricNames : metrics[name] = 0
    BY DEF Init, NoMetrics
  <2> QED
    BY <2>1, <2>2, FS_EmptySet DEF CountersAgree, MetricsConserved, Rejected, MetricNames, Terminal
<1>2. TypeOK /\ PhasesAgree /\ CountersAgree /\ [Next]_vars => CountersAgree'
  <2> SUFFICES ASSUME TypeOK, PhasesAgree, CountersAgree, [Next]_vars PROVE CountersAgree'
    OBVIOUS
  <2>1. CASE UNCHANGED vars
    BY <2>1, CountersKept DEF vars, Rejected
  <2>2. CASE BeginShutdown \/ Restart
    <3>1. UNCHANGED <<pc, controllers, metrics>>
      BY <2>2 DEF BeginShutdown, Restart, task
    <3> QED
      BY <3>1, CountersKept DEF Rejected
  <2>3. CASE Exit \/ Crash
    <3>1. controllers' = {} /\ Rejected' = {}
      BY <2>3 DEF Exit, Crash, ProcessGone, Rejected
    <3>2. \A name \in MetricNames : metrics'[name] = 0
      BY <2>3 DEF Exit, Crash, ProcessGone, NoMetrics
    <3> QED
      BY <3>1, <3>2, FS_EmptySet DEF CountersAgree, MetricsConserved, Rejected, MetricNames, Terminal
  <2> QED
    BY <2>1, <2>2, <2>3, RunCounts DEF Next, ProcessStep
<1>3. CountersAgree => MetricsConserved
  BY DEF CountersAgree
<1> QED
  BY <1>1, <1>2, <1>3, TypeCorrect, PhasesAgreeAlways, PTL DEF Spec

-----------------------------------------------------------------------------
(* The response of a run.                                                  *)

\* The frames are those of one run, in the order SseOrder asks for.
Ordered(frames, q) ==
  \A i \in 1 .. Len(frames) :
    /\ frames[i].run = q
    /\ frames[i].type = "created" <=> i = 1
    /\ frames[i].type = "token" => frames[2].type = "status"
    /\ frames[i].type = "status" => i = 2
    /\ frames[i].type \in Terminal => i = Len(frames)

SawStatus(frames) == Len(frames) >= 2 /\ frames[2].type = "status"

Unended(frames) == \A i \in 1 .. Len(frames) : frames[i].type \notin Terminal

Ended(frames) == frames[Len(frames)].type \in Terminal

TokensOf(frames) == {i \in DOMAIN frames : frames[i].type = "token"}

HasTokens(frames, n) == IsFiniteSet(TokensOf(frames)) /\ Cardinality(TokensOf(frames)) = n

\* What was written for run q, by where its handler is and whether its client is there.
ResponseAgrees(q) ==
  /\ pc[q] \in {"idle", "created"} => sent[q] = <<>>
  /\ pc[q] \in {"idle", "created", "starting", "started"} => tokenCount[q] = 0
  /\ pc[q] \in {"starting", "started"} => Len(sent[q]) = 1
  /\ row[q].status \in Terminal =>
       /\ row[q].tokenCount = tokenCount[q]
       /\ pc[q] \in {"recovering", "finishing"} => dbFaults > 0
  /\ row[q].status # "none" =>
       /\ Ordered(sent[q], q)
       /\ stream[q] = "open" =>
            /\ Unended(sent[q])
            /\ pc[q] # "created" => Len(sent[q]) >= 1
            /\ pc[q] = "streaming" => SawStatus(sent[q])
       /\ stream[q] \in {"open", "ended"} => HasTokens(sent[q], tokenCount[q])
       /\ stream[q] = "ended" => pc[q] \in OverPcs /\ (dbFaults = 0 => Ended(sent[q]))

\* Each frame comes where it may.
LEMMA AppendOrdered ==
  ASSUME NEW q \in Requests, NEW frames \in Seq(Frame), NEW frame \in Frame,
         Ordered(frames, q), Unended(frames), frame.run = q,
         \/ frame.type = "created" /\ frames = <<>>
         \/ frame.type = "status" /\ Len(frames) = 1
         \/ frame.type = "token" /\ SawStatus(frames)
         \/ frame.type \in Terminal /\ Len(frames) >= 1
  PROVE  /\ Ordered(Append(frames, frame), q)
         /\ Len(Append(frames, frame)) = Len(frames) + 1
         /\ frame.type \in Terminal => Ended(Append(frames, frame))
         /\ frame.type \notin Terminal => Unended(Append(frames, frame))
         /\ frame.type = "status" \/ SawStatus(frames) => SawStatus(Append(frames, frame))
<1> DEFINE longer == Append(frames, frame)
<1>1. /\ longer \in Seq(Frame) /\ Len(longer) = Len(frames) + 1 /\ Len(frames) \in Nat
      /\ \A i \in 1 .. Len(frames) : longer[i] = frames[i]
      /\ longer[Len(frames) + 1] = frame
  OBVIOUS
<1> HIDE DEF longer
<1>2. Ordered(longer, q)
  <2> SUFFICES ASSUME NEW i \in 1 .. Len(longer)
               PROVE  /\ longer[i].run = q
                      /\ longer[i].type = "created" <=> i = 1
                      /\ longer[i].type = "token" => longer[2].type = "status"
                      /\ longer[i].type = "status" => i = 2
                      /\ longer[i].type \in Terminal => i = Len(longer)
    BY DEF Ordered
  <2>1. CASE i = Len(frames) + 1
    <3>1. longer[i] = frame
      BY <1>1, <2>1
    <3>2. frame.type = "token" => longer[2].type = "status"
      BY <1>1 DEF SawStatus, Terminal
    <3>3. frames = <<>> => Len(frames) = 0
      OBVIOUS
    <3> QED
      BY <1>1, <2>1, <3>1, <3>2, <3>3 DEF Terminal, SawStatus
  <2>2. CASE i \in 1 .. Len(frames)
    <3>1. longer[i] = frames[i] /\ frames[i].type \notin Terminal
      BY <1>1, <2>2 DEF Unended
    <3>2. frames[i].type = "token" => Len(frames) >= 2 /\ frames[2].type = "status"
      BY <1>1, <2>2 DEF Ordered
    <3>3. frames[i].type = "token" => longer[2].type = "status"
      BY <1>1, <3>2
    <3> QED
      BY <2>2, <3>1, <3>3 DEF Ordered
  <2> QED
    BY <1>1, <2>1, <2>2
<1>3. frame.type \in Terminal => Ended(longer)
  BY <1>1 DEF Ended
<1>4. frame.type \notin Terminal => Unended(longer)
  BY <1>1 DEF Unended
<1>5. frame.type = "status" \/ SawStatus(frames) => SawStatus(longer)
  BY <1>1 DEF SawStatus, Terminal
<1> QED
  BY <1>1, <1>2, <1>3, <1>4, <1>5 DEF longer

\* Only a token adds one.
LEMMA AppendTokens ==
  ASSUME NEW frames \in Seq(Frame), NEW frame \in Frame, NEW n \in Nat, HasTokens(frames, n)
  PROVE  HasTokens(Append(frames, frame), IF frame.type = "token" THEN n + 1 ELSE n)
<1> DEFINE longer == Append(frames, frame)
           new == Len(frames) + 1
<1>1. /\ DOMAIN longer = 1 .. new /\ DOMAIN frames = 1 .. Len(frames) /\ Len(frames) \in Nat
      /\ \A i \in 1 .. Len(frames) : longer[i] = frames[i]
      /\ longer[new] = frame
  OBVIOUS
<1> HIDE DEF longer
<1>2. new \notin TokensOf(frames)
  BY <1>1 DEF TokensOf
<1>3. TokensOf(longer) = IF frame.type = "token" THEN TokensOf(frames) \union {new} ELSE TokensOf(frames)
  BY <1>1 DEF TokensOf
<1>4. /\ IsFiniteSet(TokensOf(frames) \union {new})
      /\ Cardinality(TokensOf(frames) \union {new}) = Cardinality(TokensOf(frames)) + 1
  BY <1>2, FS_AddElement DEF HasTokens
<1>5. HasTokens(longer, IF frame.type = "token" THEN n + 1 ELSE n)
  BY <1>3, <1>4 DEF HasTokens
<1> QED
  BY <1>5 DEF longer

\* A step of one handler leaves the responses of the other runs alone.
LEMMA OthersRespond ==
  ASSUME TypeOK, TypeOK', NEW r \in Requests, ResponseAgrees(r), Same(r),
         sent'[r] = sent[r], tokenCount'[r] = tokenCount[r], dbFaults' >= dbFaults
  PROVE  ResponseAgrees(r)'
<1>1. dbFaults' \in Nat /\ dbFaults \in Nat
  BY DEF TypeOK
<1>2. dbFaults > 0 => dbFaults' > 0
  BY <1>1
<1>3. dbFaults' = 0 => dbFaults = 0
  BY <1>1
<1> QED
  BY <1>2, <1>3 DEF ResponseAgrees, Same

\* An exception ends a response early only as the work of a failing statement.
LEMMA ThrowResponds ==
  ASSUME TypeOK, TypeOK', NEW q \in Requests, ResponseAgrees(q), pc[q] \in RunPcs, Throw(q),
         UNCHANGED <<row, tokenCount, sent>>, dbFaults' >= dbFaults,
         q \in caught \/ row[q].status \in Terminal => dbFaults' > 0
  PROVE  ResponseAgrees(q)'
<1>1. stream[q] # "ended" \/ row[q].status = "none"
  BY DEF ResponseAgrees, RunPcs, HandlerPcs, OverPcs
<1>2. pc[q] # "created"
  BY DEF RunPcs, HandlerPcs
<1>3. CASE q \in caught
  <2>1. pc'[q] = "rejected" /\ stream'[q] = IF stream[q] = "open" THEN "ended" ELSE stream[q]
    BY <1>3 DEF Throw, Finally, GoTo, TypeOK
  <2>2. dbFaults' # 0
    BY <1>3 DEF TypeOK
  <2> QED
    BY <1>1, <1>2, <2>1, <2>2 DEF ResponseAgrees, OverPcs
<1>4. CASE q \notin caught
  <2>1. pc'[q] = "recovering" /\ stream' = stream
    BY <1>4 DEF Throw, GoTo, TypeOK
  <2> QED
    BY <1>1, <1>2, <2>1 DEF ResponseAgrees
<1> QED
  BY <1>3, <1>4

\* The steps of a run that write a frame.
LEMMA EmitResponds ==
  ASSUME TypeOK, TypeOK', PhasesAgree, NEW q \in Requests, ResponseAgrees(q),
         Begin(q) \/ AfterStart(q) \/ EngineToken(q) \/ Report(q)
  PROVE  ResponseAgrees(q)'
<1> USE DEF db, faults
<1>0. Phase(q) /\ row[q].status # "none" /\ pc[q] \in {"created", "started", "streaming", "reporting"}
  <2>1. pc[q] \in {"created", "started", "overtaken", "streaming", "reporting"}
    BY DEF Begin, AfterStart, EngineToken, Report, At
  <2>2. Phase(q)
    BY DEF PhasesAgree
  <2> QED
    BY <2>1, <2>2, NextStatusEnds DEF Phase, Terminal
<1>1. /\ sent[q] \in Seq(Frame) /\ tokenCount[q] \in Nat /\ row' = row /\ dbFaults' = dbFaults
      /\ q \in DOMAIN sent
  BY DEF TypeOK, Begin, AfterStart, EngineToken, Report
<1>2. stream[q] # "ended"
  BY <1>0 DEF ResponseAgrees, OverPcs
<1>3. ASSUME NEW frame \in Frame, Emit(q, frame), frame.run = q,
             tokenCount'[q] = IF frame.type = "token" THEN tokenCount[q] + 1 ELSE tokenCount[q],
             \/ frame.type = "created" /\ sent[q] = <<>>
             \/ frame.type = "status" /\ Len(sent[q]) = 1
             \/ frame.type = "token" /\ (stream[q] = "open" => SawStatus(sent[q]))
             \/ frame.type \in Terminal /\ (stream[q] = "open" => Len(sent[q]) >= 1)
      PROVE  /\ stream[q] = "open" =>
                  /\ Ordered(sent'[q], q) /\ HasTokens(sent'[q], tokenCount'[q])
                  /\ Len(sent'[q]) = Len(sent[q]) + 1
                  /\ frame.type \in Terminal => Ended(sent'[q])
                  /\ frame.type \notin Terminal => Unended(sent'[q])
                  /\ frame.type = "status" \/ SawStatus(sent[q]) => SawStatus(sent'[q])
             /\ stream[q] # "open" => sent'[q] = sent[q]
  <2>1. CASE stream[q] = "open"
    <3>1. sent'[q] = Append(sent[q], frame)
      BY <1>1, <1>3, <2>1 DEF Emit
    <3>2. Ordered(sent[q], q) /\ Unended(sent[q]) /\ HasTokens(sent[q], tokenCount[q])
      BY <1>0, <2>1 DEF ResponseAgrees
    <3>3. HasTokens(sent'[q], tokenCount'[q])
      BY <1>1, <1>3, <3>1, <3>2, AppendTokens
    <3> QED
      BY <1>1, <1>3, <2>1, <3>1, <3>2, <3>3, AppendOrdered
  <2>2. CASE stream[q] # "open"
    BY <1>3, <2>2 DEF Emit
  <2> QED
    BY <2>1, <2>2
<1>4. ASSUME NEW type \in FrameTypes
      PROVE  /\ RunFrame(type, q) \in Frame
             /\ RunFrame(type, q).run = q /\ RunFrame(type, q).type = type
  BY RunFrameTyped DEF RunFrame
<1>5. CASE Begin(q)
  <2> DEFINE frame == RunFrame("created", q)
  <2>1. /\ pc[q] = "created" /\ pc'[q] \in {"starting", "finishing"} /\ stream' = stream
        /\ tokenCount' = tokenCount /\ Emit(q, frame)
    BY <1>5 DEF Begin, At, Publish, GoTo, TypeOK
  <2>2. frame \in Frame /\ frame.run = q /\ frame.type = "created"
    BY <1>4 DEF FrameTypes
  <2>3. stream[q] = "open" /\ row[q].status = "queued" /\ sent[q] = <<>> /\ tokenCount[q] = 0
    BY <1>0, <2>1 DEF Phase, ResponseAgrees
  <2>4. Len(sent[q]) = 0
    BY <2>3
  <2> HIDE DEF frame
  <2>5. /\ Ordered(sent'[q], q) /\ HasTokens(sent'[q], tokenCount'[q])
        /\ Len(sent'[q]) = 1 /\ Unended(sent'[q])
    BY <1>3, <2>1, <2>2, <2>3, <2>4 DEF Terminal
  <2> QED
    BY <1>1, <2>1, <2>3, <2>5 DEF ResponseAgrees, Terminal
<1>6. CASE AfterStart(q)
  <2> DEFINE frame == RunFrame("status", q)
  <2>0. pc[q] = "started"
    BY <1>0, <1>6 DEF AfterStart
  <2>1. /\ pc'[q] = "streaming" /\ stream' = stream
        /\ tokenCount' = tokenCount /\ Emit(q, frame)
    BY <1>6, <2>0 DEF AfterStart, Publish, GoTo, TypeOK
  <2>2. frame \in Frame /\ frame.run = q /\ frame.type = "status"
    BY <1>4 DEF FrameTypes
  <2>3. stream[q] = "open" /\ row[q].status = "running" /\ Len(sent[q]) = 1
    BY <1>0, <2>0 DEF Phase, ResponseAgrees
  <2> HIDE DEF frame
  <2>4. /\ Ordered(sent'[q], q) /\ HasTokens(sent'[q], tokenCount'[q])
        /\ Len(sent'[q]) = 2 /\ Unended(sent'[q]) /\ SawStatus(sent'[q])
    BY <1>3, <2>1, <2>2, <2>3 DEF Terminal
  <2> QED
    BY <1>1, <2>1, <2>3, <2>4 DEF ResponseAgrees, Terminal
<1>7. CASE EngineToken(q)
  <2> DEFINE frame == TokenFrame(q)
  <2>1. /\ pc[q] = "streaming" /\ pc' = pc /\ stream' = stream
        /\ tokenCount'[q] = tokenCount[q] + 1 /\ Emit(q, frame)
    BY <1>7 DEF EngineToken, TypeOK
  <2>2. frame \in Frame /\ frame.run = q /\ frame.type = "token"
    BY TokenFrameSilent DEF TokenFrame
  <2>3. row[q].status = "running"
    BY <1>0, <2>1 DEF Phase
  <2>4. stream[q] = "open" => SawStatus(sent[q]) /\ Len(sent[q]) >= 1
    BY <1>0, <2>1 DEF ResponseAgrees
  <2> HIDE DEF frame
  <2>5. /\ stream[q] = "open" =>
             /\ Ordered(sent'[q], q) /\ HasTokens(sent'[q], tokenCount'[q])
             /\ Len(sent'[q]) = Len(sent[q]) + 1 /\ Unended(sent'[q]) /\ SawStatus(sent'[q])
        /\ stream[q] # "open" => sent'[q] = sent[q]
    BY <1>3, <2>1, <2>2, <2>4 DEF Terminal
  <2>6. stream[q] = "open" => Len(sent'[q]) >= 1
    BY <1>1, <2>4, <2>5
  <2> QED
    BY <1>1, <1>2, <2>1, <2>3, <2>4, <2>5, <2>6 DEF ResponseAgrees, Terminal
<1>8. CASE Report(q)
  <2> DEFINE frame == RunFrame(NextStatus(ending[q]), q)
  <2>1. /\ pc[q] = "reporting" /\ pc'[q] = "done" /\ tokenCount' = tokenCount /\ Emit(q, frame)
        /\ stream'[q] = IF stream[q] = "open" THEN "ended" ELSE stream[q]
    BY <1>8 DEF Report, At, Publish, GoTo, Finally, TypeOK
  <2>2. NextStatus(ending[q]) \in Terminal
    BY <1>0, <2>1, NextStatusEnds DEF Phase
  <2>3. frame \in Frame /\ frame.run = q /\ frame.type \in Terminal
    BY <1>4, <2>2 DEF FrameTypes
  <2>4. stream[q] = "open" => Len(sent[q]) >= 1
    BY <1>0, <2>1 DEF ResponseAgrees
  <2> HIDE DEF frame
  <2>5. /\ stream[q] = "open" =>
             Ordered(sent'[q], q) /\ HasTokens(sent'[q], tokenCount'[q]) /\ Ended(sent'[q])
        /\ stream[q] # "open" => sent'[q] = sent[q]
    BY <1>3, <2>1, <2>3, <2>4 DEF Terminal
  <2> QED
    BY <1>1, <1>2, <2>1, <2>5 DEF ResponseAgrees, OverPcs
<1> QED
  BY <1>5, <1>6, <1>7, <1>8

\* The steps of a run that write none.
LEMMA SilentResponds ==
  ASSUME TypeOK, TypeOK', PhasesAgree, NEW q \in Requests, ResponseAgrees(q),
         \/ StartRun(q) \/ Recover(q) \/ Persist(q) \/ PersistConflict(q) \/ StatementFails(q)
         \/ EngineEnds(q) \/ EngineThrows(q)
  PROVE  ResponseAgrees(q)'
<1> USE DEF db, faults
<1>0. Phase(q)
  BY DEF PhasesAgree
<1>1. CASE StartRun(q)
  <2>1. /\ pc[q] = "starting" /\ pc'[q] = "started" /\ row'[q].status = "running"
        /\ UNCHANGED <<sent, tokenCount, stream, dbFaults>>
    BY <1>0, <1>1, NextStatusEnds DEF StartRun, At, Phase, GoTo, TransitionStatus, Read, TypeOK
  <2>2. row[q].status # "none"
    BY <1>0, <2>1 DEF Phase
  <2> QED
    BY <2>1, <2>2 DEF ResponseAgrees, Terminal, OverPcs
<1>2. CASE Recover(q) \/ EngineEnds(q)
  <2>1. /\ pc[q] \in {"recovering", "streaming"} /\ pc'[q] = "finishing"
        /\ UNCHANGED <<row, sent, tokenCount, stream, dbFaults>>
    BY <1>2 DEF Recover, EngineEnds, At, GoTo, TypeOK
  <2>2. pc[q] = "streaming" => row[q].status = "running"
    BY <1>0 DEF Phase
  <2> QED
    BY <2>1, <2>2 DEF ResponseAgrees, Terminal, OverPcs
<1>3. CASE Persist(q)
  <2>1. /\ pc[q] = "finishing" /\ pc'[q] = "reporting"
        /\ UNCHANGED <<sent, tokenCount, stream, dbFaults>>
    BY <1>3 DEF Persist, At, GoTo, TypeOK
  <2>2. row[q].status # "none" /\ snap[q].version = row[q].version
    BY <1>0, <2>1 DEF Phase, Read
  <2>3. row'[q].tokenCount = tokenCount[q]
    BY <1>3, <2>2 DEF Persist, TransitionStatus, TypeOK
  <2> QED
    BY <2>1, <2>2, <2>3 DEF ResponseAgrees, OverPcs
<1>4. CASE PersistConflict(q)
  <2>1. /\ pc[q] = "finishing" /\ Throw(q) /\ ~IsLegal(snap[q].status, ending[q])
        /\ UNCHANGED <<row, sent, tokenCount, dbFaults>>
    BY <1>4 DEF PersistConflict, At
  <2>2. /\ row[q].status # "none" /\ snap[q].status = row[q].status /\ ending[q] \in EndEvents
        /\ q \in caught /\ ending[q] # "complete"
    BY <1>0, <2>1 DEF Phase, Read
  <2>3. row[q].status \in Terminal
    <3>1. row[q].status \in RunStatuses \union {"none"}
      BY DEF TypeOK, Row
    <3> QED
      BY <2>1, <2>2, <3>1, LegalInProgress DEF RunStatuses, Terminal
  <2>4. dbFaults' > 0 /\ dbFaults' >= dbFaults
    BY <2>1, <2>3 DEF ResponseAgrees, TypeOK
  <2> QED
    BY <2>1, <2>4, ThrowResponds DEF RunPcs, HandlerPcs
<1>5. CASE StatementFails(q)
  <2>1. /\ pc[q] \in RunPcs /\ Throw(q) /\ dbFaults' = dbFaults + 1
        /\ UNCHANGED <<row, sent, tokenCount>>
    BY <1>5 DEF StatementFails, StatementThrows, RunPcs, HandlerPcs
  <2>2. dbFaults' > 0 /\ dbFaults' >= dbFaults
    BY <2>1 DEF TypeOK
  <2> QED
    BY <2>1, <2>2, ThrowResponds
<1>6. CASE EngineThrows(q)
  <2>1. pc[q] = "streaming" /\ Throw(q) /\ UNCHANGED <<row, sent, tokenCount, dbFaults>>
    BY <1>6 DEF EngineThrows
  <2>2. q \notin caught /\ row[q].status \notin Terminal
    BY <1>0, <2>1 DEF Phase, Terminal
  <2>3. dbFaults' >= dbFaults
    BY <2>1 DEF TypeOK
  <2> QED
    BY <2>1, <2>2, <2>3, ThrowResponds DEF RunPcs
<1> QED
  BY <1>1, <1>2, <1>3, <1>4, <1>5, <1>6

\* The steps of clients.
LEMMA ClientResponds ==
  ASSUME TypeOK, TypeOK', PhasesAgree, NEW q \in Requests, ResponseAgrees(q), ClientStep(q)
  PROVE  ResponseAgrees(q)'
<1> USE DEF db, task, faults
<1>0. Phase(q)
  BY DEF PhasesAgree
<1>1. ASSUME NEW k \in Keys, CreateRun(q, k) PROVE ResponseAgrees(q)'
  <2>1. /\ pc[q] = "idle" /\ pc'[q] = "created" /\ row'[q] = QueuedRow /\ stream'[q] = "open"
        /\ UNCHANGED <<sent, tokenCount, dbFaults>>
    BY <1>1 DEF CreateRun, Arrives, GoTo, TypeOK
  <2>2. sent'[q] = <<>> /\ tokenCount'[q] = 0
    BY <2>1 DEF ResponseAgrees
  <2>3. Ordered(<<>>, q) /\ Unended(<<>>)
    BY DEF Ordered, Unended
  <2>4. HasTokens(<<>>, 0)
    <3>1. TokensOf(<<>>) = {}
      BY DEF TokensOf
    <3> QED
      BY <3>1, FS_EmptySet DEF HasTokens
  <2> QED
    BY <2>1, <2>2, <2>3, <2>4 DEF ResponseAgrees, QueuedRow, NoRow, Terminal
<1>2. CASE LookupFails(q) \/ HandlerFails(q) \/ \E k \in Keys : Replay(q, k)
  <2>1. pc[q] = "idle" /\ pc'[q] \in {"refused", "hung", "replayed"} /\ row' = row
    BY <1>2 DEF LookupFails, HandlerFails, Replay, Arrives, GoTo, TypeOK
  <2>2. row[q].status = "none"
    BY <1>0, <2>1 DEF Phase
  <2> QED
    BY <2>1, <2>2 DEF ResponseAgrees, Terminal
<1>3. CASE Cancel(q) \/ Disconnect(q)
  <2>1. /\ stream'[q] \in {stream[q], "closed"}
        /\ UNCHANGED <<row, pc, sent, tokenCount, dbFaults>>
    BY <1>3 DEF Cancel, Disconnect, TypeOK
  <2> QED
    BY <2>1 DEF ResponseAgrees
<1> QED
  BY <1>1, <1>2, <1>3 DEF ClientStep

\* No handler, engine or client touches the response of another run.
LEMMA OthersUntouched ==
  ASSUME TypeOK, NEW q \in Requests, NEW r \in Requests \ {q},
         HandlerStep(q) \/ EngineStep(q) \/ ClientStep(q)
  PROVE  Same(r) /\ sent'[r] = sent[r] /\ tokenCount'[r] = tokenCount[r] /\ dbFaults' >= dbFaults
<1> USE DEF db, task, faults
<1>1. ASSUME NEW frame, Emit(q, frame) PROVE sent'[r] = sent[r]
  BY <1>1 DEF Emit, TypeOK
<1>2. ASSUME Throw(q)
      PROVE  /\ pc'[r] = pc[r] /\ stream'[r] = stream[r]
             /\ (r \in caught') = (r \in caught) /\ (r \in controllers') = (r \in controllers)
  BY <1>2 DEF Throw, Finally, GoTo, TypeOK
<1>3. ASSUME NEW version, NEW status, NEW count, NEW error,
             row' = TransitionStatus(q, version, status, count, error)
      PROVE  row'[r] = row[r]
  BY <1>3 DEF TransitionStatus, TypeOK
<1>4. CASE Begin(q) \/ AfterStart(q) \/ Report(q)
  <2>1. sent'[r] = sent[r]
    BY <1>1, <1>4 DEF Begin, AfterStart, Report, Publish
  <2> QED
    BY <1>4, <2>1 DEF Begin, AfterStart, Report, GoTo, Finally, Same, TypeOK
<1>5. CASE StartRun(q) \/ Persist(q)
  <2>1. row'[r] = row[r]
    BY <1>3, <1>5 DEF StartRun, Persist
  <2> QED
    BY <1>5, <2>1 DEF StartRun, Persist, GoTo, Same, TypeOK
<1>6. CASE PersistConflict(q) \/ StatementFails(q) \/ EngineThrows(q)
  <2>1. Throw(q) /\ UNCHANGED <<row, aborted, snap, ending, tokenCount, sent>>
        /\ dbFaults' \in {dbFaults, dbFaults + 1}
    BY <1>6 DEF PersistConflict, StatementFails, StatementThrows, EngineThrows
  <2> QED
    BY <1>2, <2>1 DEF Same, TypeOK
<1>7. CASE Recover(q) \/ EngineEnds(q)
  BY <1>7 DEF Recover, EngineEnds, GoTo, Same, TypeOK
<1>8. CASE EngineToken(q)
  <2>1. sent'[r] = sent[r]
    BY <1>1, <1>8 DEF EngineToken
  <2> QED
    BY <1>8, <2>1 DEF EngineToken, Same, TypeOK
<1>9. CASE ClientStep(q)
  <2>1. ASSUME NEW k \in Keys, CreateRun(q, k) \/ Replay(q, k)
        PROVE  /\ Same(r) /\ sent'[r] = sent[r] /\ tokenCount'[r] = tokenCount[r]
               /\ dbFaults' >= dbFaults
    BY <2>1 DEF CreateRun, Replay, GoTo, Same, TypeOK
  <2>2. CASE LookupFails(q) \/ HandlerFails(q)
    BY <2>2 DEF LookupFails, HandlerFails, StatementThrows, GoTo, Same, TypeOK
  <2>3. CASE Cancel(q) \/ Disconnect(q)
    BY <2>3 DEF Cancel, Disconnect, Aborted, Same, TypeOK
  <2> QED
    BY <1>9, <2>1, <2>2, <2>3 DEF ClientStep
<1> QED
  BY <1>4, <1>5, <1>6, <1>7, <1>8, <1>9 DEF HandlerStep, EngineStep

\* What each client was sent fits the run, its end and the number of its tokens.
ResponsesAgree == \A q \in Requests : ResponseAgrees(q)

THEOREM ResponsesAgreeAlways == Spec => []ResponsesAgree
<1>1. Init => ResponsesAgree
  BY DEF Init, ResponsesAgree, ResponseAgrees, NoRow, Terminal
<1>2. TypeOK /\ TypeOK' /\ PhasesAgree /\ ResponsesAgree /\ [Next]_vars => ResponsesAgree'
  <2> SUFFICES ASSUME TypeOK, TypeOK', PhasesAgree, ResponsesAgree, [Next]_vars,
                      NEW r \in Requests
               PROVE  ResponseAgrees(r)'
    BY DEF ResponsesAgree
  <2>0. ResponseAgrees(r)
    BY DEF ResponsesAgree
  <2>1. ASSUME NEW q \in Requests, HandlerStep(q) \/ EngineStep(q) \/ ClientStep(q)
        PROVE  ResponseAgrees(r)'
    <3>1. CASE r = q
      BY <2>0, <2>1, <3>1, EmitResponds, SilentResponds, ClientResponds DEF HandlerStep, EngineStep
    <3>2. CASE r # q
      BY <2>0, <2>1, <3>2, OthersUntouched, OthersRespond
    <3> QED
      BY <3>1, <3>2
  <2>2. CASE BeginShutdown \/ Restart \/ UNCHANGED vars
    <3>1. UNCHANGED <<row, pc, tokenCount, stream, sent, dbFaults>>
      BY <2>2 DEF BeginShutdown, Restart, vars, db, task, faults
    <3> QED
      BY <2>0, <3>1 DEF ResponseAgrees
  <2>3. CASE Exit \/ Crash
    <3>1. /\ UNCHANGED <<row, tokenCount, sent, dbFaults>>
          /\ pc'[r] = IF pc[r] = "idle" THEN "idle" ELSE "gone"
          /\ stream'[r] = IF stream[r] = "open" THEN "closed" ELSE stream[r]
      BY <2>3 DEF Exit, Crash, ProcessGone, db, faults
    <3>2. pc[r] = "idle" => row[r].status = "none"
      BY DEF PhasesAgree, Phase
    <3> QED
      BY <2>0, <3>1, <3>2 DEF ResponseAgrees, OverPcs, Terminal
  <2> QED
    BY <2>1, <2>2, <2>3 DEF Next, ProcessStep
<1> QED
  BY <1>1, <1>2, TypeCorrect, PhasesAgreeAlways, PTL DEF Spec

\* SseOrder: the frames of a new run come in order and are of that run only, and a response
\* the server ended lacks the end of the run only if a statement failed.
THEOREM SseOrderAlways == Spec => []SseOrder
<1>1. ResponsesAgree => SseOrder
  <2> SUFFICES ASSUME ResponsesAgree, NEW q \in Requests, row[q].status # "none"
               PROVE  /\ Ordered(sent[q], q)
                      /\ stream[q] = "ended" /\ dbFaults = 0 => Ended(sent[q])
    BY DEF SseOrder, Ordered, Ended
  <2> QED
    BY DEF ResponsesAgree, ResponseAgrees
<1> QED
  BY <1>1, ResponsesAgreeAlways, PTL

\* TokensAccounted: the stored number of tokens is that of the engine, and of the client that
\* stayed to the end.
THEOREM TokensAccountedAlways == Spec => []TokensAccounted
<1>1. ResponsesAgree => TokensAccounted
  <2> SUFFICES ASSUME ResponsesAgree, NEW r \in Requests, row[r].status \in Terminal
               PROVE  /\ row[r].tokenCount = tokenCount[r]
                      /\ stream[r] = "ended" => Cardinality(TokensOf(sent[r])) = row[r].tokenCount
    BY DEF TokensAccounted, TokensOf
  <2>1. ResponseAgrees(r) /\ row[r].status # "none"
    BY DEF ResponsesAgree, Terminal
  <2> QED
    BY <2>1 DEF ResponseAgrees, HasTokens
<1> QED
  BY <1>1, ResponsesAgreeAlways, PTL
=============================================================================
