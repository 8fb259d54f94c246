--------------------------------- MODULE Console ---------------------------------
(***************************************************************************)
(* The browser console (public/app.js) beside the server it talks to.  The *)
(* g-th submission of the form is generation g; its run, if the server     *)
(* accepts it, is run g, for its idempotency key is new.  What the server  *)
(* does with a run is RunContract, which GenerationService implements.     *)
(*                                                                         *)
(* The page is one record.  startGeneration, reconnectPoll and the event   *)
(* handlers run to their next await in one step, and any number of them    *)
(* wait at the same time: a response body per generation, polls, a timer.  *)
(*                                                                         *)
(* Not here: the readiness badge, the table of runs, and how the output is *)
(* cut and drawn.                                                          *)
(***************************************************************************)
EXTENDS Integers, Sequences, RunStatus

CONSTANTS
  MaxGenerations,  \* bound: submissions of the form
  MaxAttempts,     \* MAX_RECONNECT_ATTEMPTS
  MaxWire          \* bound: frames sent and not read yet

ASSUME ConsoleAssumption == MaxGenerations \in Nat /\ MaxAttempts \in Nat /\ MaxWire \in Nat \ {0}

Generations == 1 .. MaxGenerations
None == 0                               \* null, where a run's id may stand
Known == Generations \union {None}

VARIABLES
  page,       \* what the script's variables and the elements hold
  polls,      \* GET /runs/:id requests in flight, by run
  conn,       \* the response of each generation
  wire,       \* its frames that the page has not read yet
  submitted,  \* generations so far
  overlapped, \* the last was submitted while a response or a poll of an older one went on
  status, asked, told  \* the server's, see RunContract; told of what the page has read

Server == INSTANCE RunContract WITH Runs <- Generations

serverVars == <<status, asked, told>>
vars == <<page, polls, conn, wire, submitted, overlapped, serverVars>>

\* "requested" until the headers arrive; "open" while the server may send more, "ended"
\* when it has closed the response, "hung" when its handler failed after the headers;
\* "over" for the page.
ConnStates == {"none", "requested", "open", "ended", "hung", "over"}
Reading == {"requested", "open", "ended", "hung"}

Frames == [type : {"created", "status", "token", "end"}, status : RunStatuses]
Frame(type, g) == [type |-> type, status |-> status'[g]]

-----------------------------------------------------------------------------
(* The page.                                                               *)

ConsoleShows == RunStatuses \union {"idle", "reconnecting"}

Pages == [status : ConsoleShows, generating : BOOLEAN, current : Known, meta : Known,
          attempts : 0 .. MaxAttempts, timer : BOOLEAN, output : SUBSET Generations]

NewPage == [status |-> "idle", generating |-> FALSE, current |-> None, meta |-> None,
            attempts |-> 0, timer |-> FALSE, output |-> {}]

\* The head of startGeneration.
StartGeneration(p) ==
  [p EXCEPT !.status = "queued", !.generating = TRUE, !.current = None, !.attempts = 0,
            !.timer = FALSE, !.output = {}]

HandleServerEvent(p, g, frame) ==
  CASE frame.type = "created" -> [p EXCEPT !.status = frame.status, !.current = g, !.meta = g]
    [] frame.type = "status"  -> [p EXCEPT !.status = frame.status, !.meta = g]
    [] frame.type = "token"   -> [p EXCEPT !.output = @ \union {g}]
    [] OTHER                  -> [p EXCEPT !.status = frame.status, !.meta = g, !.generating = FALSE]

GivesUp(p) == p.current = None \/ p.attempts = MaxAttempts

\* A plausible defect: the attempts are not counted.
ReconnectPollForever(p) ==
  IF p.current = None
  THEN /\ page' = [p EXCEPT !.status = "failed", !.generating = FALSE]
       /\ UNCHANGED polls
  ELSE /\ page' = [p EXCEPT !.status = "reconnecting"]
       /\ polls' = [polls EXCEPT ![p.current] = @ + 1]

\* reconnectPoll up to its fetch.
ReconnectPoll(p) ==
  IF GivesUp(p)
  THEN /\ page' = [p EXCEPT !.status = "failed", !.generating = FALSE]
       /\ UNCHANGED polls
  ELSE /\ page' = [p EXCEPT !.status = "reconnecting", !.attempts = @ + 1]
       /\ polls' = [polls EXCEPT ![p.current] = @ + 1]

Submit ==
  /\ ~page.generating
  /\ submitted < MaxGenerations
  /\ submitted' = submitted + 1
  /\ page' = StartGeneration(page)
  /\ conn' = [conn EXCEPT ![submitted + 1] = "requested"]
  /\ overlapped' = \E g \in Generations : conn[g] \in Reading \/ polls[g] > 0
  /\ UNCHANGED <<polls, wire, serverVars>>

\* The end of its run that a frame tells the page, whatever became of the run meanwhile.
EndTold(frame) == IF frame.type = "end" THEN {frame.status} ELSE {}

ReadFrame(g) ==
  /\ conn[g] \in {"open", "ended"}
  /\ wire[g] # <<>>
  /\ page' = HandleServerEvent(page, g, Head(wire[g]))
  /\ told' = [told EXCEPT ![g] = @ \union EndTold(Head(wire[g]))]
  /\ wire' = [wire EXCEPT ![g] = Tail(@)]
  /\ UNCHANGED <<polls, conn, submitted, overlapped, status, asked>>

\* A plausible defect: a body that ends before the run starts is taken for its end.
StreamEndsWhileQueued(g) ==
  /\ conn[g] = "ended"
  /\ wire[g] = <<>>
  /\ conn' = [conn EXCEPT ![g] = "over"]
  /\ IF page.status = "running"
     THEN ReconnectPoll(page)
     ELSE page' = [page EXCEPT !.generating = FALSE] /\ UNCHANGED polls
  /\ UNCHANGED <<wire, submitted, overlapped, serverVars>>

\* The body has ended, with or without a terminal event before.
StreamEnds(g) ==
  /\ conn[g] = "ended"
  /\ wire[g] = <<>>
  /\ conn' = [conn EXCEPT ![g] = "over"]
  /\ IF page.status \in {"running", "queued"}
     THEN ReconnectPoll(page)
     ELSE page' = [page EXCEPT !.generating = FALSE] /\ UNCHANGED polls
  /\ UNCHANGED <<wire, submitted, overlapped, serverVars>>

\* The fetch or a read rejects, the answer is not 200, or a frame is not JSON.
StreamFails(g) ==
  /\ conn[g] \in Reading
  /\ conn' = [conn EXCEPT ![g] = "over"]
  /\ wire' = [wire EXCEPT ![g] = <<>>]
  /\ ReconnectPoll(page)
  /\ UNCHANGED <<submitted, overlapped, serverVars>>

\* The rest of reconnectPoll, after a response that carries the run.
PollAnswered(g) ==
  /\ polls[g] > 0
  /\ polls' = [polls EXCEPT ![g] = @ - 1]
  /\ IF status[g] \in Terminal
     THEN /\ page' = [page EXCEPT !.meta = g, !.status = status[g], !.generating = FALSE]
          /\ Server!Tell(g)
     ELSE /\ page' = [page EXCEPT !.meta = g, !.timer = TRUE]
          /\ UNCHANGED serverVars
  /\ UNCHANGED <<conn, wire, submitted, overlapped>>

\* The same after any other response, or none.
PollFails(g) ==
  /\ polls[g] > 0
  /\ polls' = [polls EXCEPT ![g] = @ - 1]
  /\ page' = [page EXCEPT !.timer = TRUE]
  /\ UNCHANGED <<conn, wire, submitted, overlapped, serverVars>>

TimerFires ==
  /\ page.timer
  /\ ReconnectPoll([page EXCEPT !.timer = FALSE])
  /\ UNCHANGED <<conn, wire, submitted, overlapped, serverVars>>

\* A plausible defect: the page shows the end it has only asked for.
ClickCancelShowingEnd ==
  /\ page.generating
  /\ page.current # None
  /\ Server!Ask(page.current)
  /\ page' = [page EXCEPT !.status = "cancelled", !.generating = FALSE]
  /\ UNCHANGED <<polls, conn, wire, submitted, overlapped>>

\* cancelCurrentRun; a request the server refuses, or never gets, changes nothing.
ClickCancel ==
  /\ page.generating
  /\ page.current # None
  /\ Server!Ask(page.current)
  /\ UNCHANGED <<page, polls, conn, wire, submitted, overlapped>>

-----------------------------------------------------------------------------
(* The server.                                                             *)

\* What the server sends while the response is open.
Send(g, type) ==
  wire' = IF conn[g] = "open" THEN [wire EXCEPT ![g] = Append(@, Frame(type, g))] ELSE wire

HasRoom(g) == Len(wire[g]) < MaxWire

\* POST /generate stores the run and answers with run.created.
Accept(g) ==
  /\ conn[g] = "requested"
  /\ Server!Create(g)
  /\ conn' = [conn EXCEPT ![g] = "open"]
  /\ wire' = [wire EXCEPT ![g] = <<Frame("created", g)>>]
  /\ UNCHANGED <<page, polls, submitted, overlapped>>

\* The handler throws after the headers: nothing ends the response.
HandlerFails(g) ==
  /\ conn[g] = "requested"
  /\ conn' = [conn EXCEPT ![g] = "hung"]
  /\ UNCHANGED <<page, polls, wire, submitted, overlapped, serverVars>>

RunStarts(g) ==
  /\ HasRoom(g)
  /\ Server!Start(g)
  /\ Send(g, "status")
  /\ UNCHANGED <<page, polls, conn, submitted, overlapped>>

Token(g) ==
  /\ status[g] = "running"
  /\ conn[g] = "open"
  /\ HasRoom(g)
  /\ UNCHANGED serverVars
  /\ Send(g, "token")
  /\ UNCHANGED <<page, polls, conn, submitted, overlapped>>

\* The run ends, and with it the response that is still open.
RunEnds(g) ==
  /\ HasRoom(g)
  /\ \E event \in EndEvents : Server!Settle(g, event)
  /\ Send(g, "end")
  /\ conn' = IF conn[g] = "open" THEN [conn EXCEPT ![g] = "ended"] ELSE conn
  /\ UNCHANGED <<page, polls, submitted, overlapped>>

\* A statement fails in run(), or a proxy closes: the body ends without a terminal
\* event, and the run may never end.
CutShort(g) ==
  /\ conn[g] = "open"
  /\ conn' = [conn EXCEPT ![g] = "ended"]
  /\ UNCHANGED <<page, polls, wire, submitted, overlapped, serverVars>>

\* The server notices that a response it has not ended is gone.
NoticesClose(g) ==
  /\ conn[g] = "over"
  /\ Server!Ask(g)
  /\ UNCHANGED <<page, polls, conn, wire, submitted, overlapped>>

-----------------------------------------------------------------------------

Init ==
  /\ page = NewPage
  /\ polls = [g \in Generations |-> 0]
  /\ conn = [g \in Generations |-> "none"]
  /\ wire = [g \in Generations |-> <<>>]
  /\ submitted = 0
  /\ overlapped = FALSE
  /\ Server!Init

PageStep(g) ==
  ReadFrame(g) \/ StreamEnds(g) \/ StreamFails(g) \/ PollAnswered(g) \/ PollFails(g)

ServerStep(g) ==
  \/ Accept(g) \/ HandlerFails(g) \/ RunStarts(g) \/ Token(g) \/ RunEnds(g)
  \/ CutShort(g) \/ NoticesClose(g)

Next ==
  \/ Submit \/ TimerFires \/ ClickCancel
  \/ \E g \in Generations : PageStep(g) \/ ServerStep(g)

Spec == Init /\ [][Next]_vars

\* Timers fire, polls are answered or rejected, what has arrived is read, and a request
\* is accepted or fails.  The server ends every response it does not leave hanging
\* (GenerationService.ResponsesEnd).
Fairness ==
  /\ WF_vars(TimerFires)
  /\ \A g \in Generations :
       /\ WF_vars(ReadFrame(g))
       /\ WF_vars(StreamEnds(g))
       /\ WF_vars(PollAnswered(g) \/ PollFails(g))
       /\ WF_vars(conn[g] = "requested" /\ (Accept(g) \/ HandlerFails(g) \/ StreamFails(g)))
       /\ WF_vars(RunEnds(g) \/ CutShort(g))

FairSpec == Spec /\ Fairness

-----------------------------------------------------------------------------
(* Properties.                                                             *)

\* Every variable keeps its type.
TypeOK ==
  /\ page \in Pages
  /\ polls \in [Generations -> Nat]
  /\ conn \in [Generations -> ConnStates]
  /\ wire \in [Generations -> Seq(Frames)]
  /\ submitted \in 0 .. MaxGenerations
  /\ overlapped \in BOOLEAN
  /\ status \in [Generations -> RunStatuses \union {"none"}]
  /\ asked \subseteq Generations
  /\ told \in [Generations -> SUBSET Terminal]

AtRest ==
  /\ ~page.generating /\ ~page.timer
  /\ \A g \in Generations : conn[g] \notin Reading /\ polls[g] = 0

\* A page that has come to rest after a submission that did not overlap an older one
\* shows the stored end of that run, and only its output; it says "failed" of a run that
\* did not fail only if it never heard of the run, or has asked for it as often as it may.
RestsTruthfully ==
  AtRest /\ ~overlapped /\ submitted > 0 =>
    /\ \/ /\ page.current = submitted /\ page.meta = submitted
          /\ page.status = status[submitted]
       \/ page.status = "failed" /\ GivesUp(page)
    /\ page.output \subseteq {submitted}

\* After a submission that did not overlap an older one, "completed" or "cancelled" on
\* display is the stored end of the run on display, even while a late poll or the end of
\* the stream is still to come.  Nothing is said of "failed", which the page also shows
\* when it gives up (RestsTruthfully).
ShownEndIsStored ==
  ~overlapped /\ page.status \in {"completed", "cancelled"} => page.status = status[page.meta]

\* The form can be used again, whatever becomes of the responses and of the run,
\* unless a response hangs.
ConsoleSettles == page.generating ~> (~page.generating \/ \E g \in Generations : conn[g] = "hung")
=============================================================================
