----------------------------- MODULE ConsoleProofs -----------------------------
(***************************************************************************)
(* The safety properties of Console hold for any number of generations,    *)
(* reconnection attempts and unread frames.                                *)
(***************************************************************************)
EXTENDS Console, TLAPS

\* What a frame says of its run, whose status is s: an end is told only of a run that has it.
FrameTrue(s, frame) ==
  /\ frame \in Frames
  /\ frame.type = "created" => frame.status = "queued"
  /\ frame.type = "status" => frame.status = "running"
  /\ frame.type = "end" => frame.status = s /\ s \in Terminal

FramesTrue == \A g \in Generations : \A i \in 1 .. Len(wire[g]) : FrameTrue(status[g], wire[g][i])

\* A submission that overlaps no other is the only one the page works for.
Alone ==
  ~overlapped =>
    /\ \A g \in Generations : g # submitted => conn[g] \notin Reading /\ polls[g] = 0
    /\ page.current \in {None, submitted}
    /\ page.output \subseteq {submitted}

\* The page has learnt the end of the last run, and shows it.
EndShown ==
  /\ submitted > 0
  /\ page.current = submitted /\ page.meta = submitted
  /\ page.status = status[submitted] /\ status[submitted] \in Terminal

\* Its run.created is the next frame to read.
CreatedNext(g) == wire[g] # <<>> /\ Head(wire[g]).type = "created"

\* While it reads the response it neither polls nor waits for a timer; afterwards it does
\* one of them, or shows the end, or has given up.
Following ==
  submitted > 0 /\ ~overlapped =>
    /\ conn[submitted] \in Reading =>
         /\ polls[submitted] = 0 /\ ~page.timer
         /\ page.status \in {"queued", "running"} \/ EndShown
    /\ conn[submitted] \in {"open", "ended"} => page.current = submitted \/ CreatedNext(submitted)
    /\ polls[submitted] > 0 \/ page.timer => page.current = submitted
    /\ polls[submitted] <= 1 /\ (polls[submitted] = 1 => ~page.timer)
    /\ conn[submitted] \notin Reading /\ polls[submitted] = 0 /\ ~page.timer =>
         EndShown \/ (page.status = "failed" /\ GivesUp(page))

ShownIsLearnt == ~overlapped /\ page.status \in {"completed", "cancelled"} => EndShown

\* Nothing is known of generations to come.
Unborn ==
  /\ \A g \in Generations : g > submitted => conn[g] = "none" /\ polls[g] = 0
  /\ page.current <= submitted

ConsoleInv ==
  TypeOK /\ FramesTrue /\ Alone /\ Following /\ ShownIsLearnt /\ Unborn

-----------------------------------------------------------------------------

LEMMA InitInv == Init => ConsoleInv
<1> SUFFICES ASSUME Init PROVE ConsoleInv
  OBVIOUS
<1> USE DEF Init, NewPage, Server!Init
<1>1. TypeOK
  <2>1. page \in Pages
    BY ConsoleAssumption DEF Pages, ConsoleShows, Known
  <2>2. wire \in [Generations -> Seq(Frames)]
    OBVIOUS
  <2>3. submitted \in 0 .. MaxGenerations
    BY ConsoleAssumption
  <2> QED
    BY <2>1, <2>2, <2>3 DEF TypeOK, ConnStates
<1>2. FramesTrue
  BY DEF FramesTrue
<1>3. Alone /\ Following /\ ShownIsLearnt /\ Unborn
  BY DEF Alone, Following, ShownIsLearnt, Unborn, Reading, None
<1> QED
  BY <1>1, <1>2, <1>3 DEF ConsoleInv

-----------------------------------------------------------------------------
(* Steps of the page.                                                      *)

LEMMA SubmitStep ==
  ASSUME ConsoleInv, Submit
  PROVE  ConsoleInv'
<1> DEFINE n == submitted + 1
<1>1. n \in Generations /\ submitted' = n /\ submitted \in Nat
  BY ConsoleAssumption DEF ConsoleInv, TypeOK, Submit, Generations
<1>2. page \in Pages /\ page' = StartGeneration(page)
  BY DEF ConsoleInv, TypeOK, Submit
<1>3. /\ page' \in Pages /\ page'.status = "queued" /\ page'.current = None /\ ~page'.timer
      /\ page'.output = {}
  <2>1. "queued" \in ConsoleShows /\ None \in Known /\ 0 \in 0 .. MaxAttempts
    BY ConsoleAssumption DEF ConsoleShows, RunStatuses, Known
  <2> QED
    BY <1>2, <2>1 DEF Pages, StartGeneration
<1>4. conn'[n] = "requested" /\ \A g \in Generations \ {n} : conn'[g] = conn[g]
  BY <1>1 DEF ConsoleInv, TypeOK, Submit
<1>5. polls'[n] = 0
  BY <1>1 DEF ConsoleInv, Unborn, Submit
<1>6. TypeOK'
  BY <1>1, <1>3, ConsoleAssumption DEF ConsoleInv, TypeOK, Submit, serverVars, ConnStates, Generations
<1>7. FramesTrue'
  BY DEF ConsoleInv, FramesTrue, FrameTrue, Submit, serverVars
<1>8. Alone'
  <2>1. ASSUME ~overlapped', NEW g \in Generations, g # n
        PROVE  conn'[g] \notin Reading /\ polls'[g] = 0
    BY <1>4, <2>1 DEF ConsoleInv, TypeOK, Submit
  <2> QED
    BY <1>1, <1>3, <2>1 DEF Alone
<1>9. Following'
  BY <1>1, <1>3, <1>4, <1>5 DEF Following, Reading
<1>10. ShownIsLearnt'
  BY <1>3 DEF ShownIsLearnt
<1>11. Unborn'
  BY <1>1, <1>3, <1>4 DEF None, ConsoleInv, Unborn, Submit, Generations
<1> QED
  BY <1>6, <1>7, <1>8, <1>9, <1>10, <1>11 DEF ConsoleInv

\* reconnectPoll asks for the run, or gives up.
LEMMA Reconnects ==
  ASSUME TypeOK, NEW p \in Pages, ReconnectPoll(p)
  PROVE  /\ page' \in Pages
         /\ polls' \in [Generations -> Nat]
         /\ page'.current = p.current /\ page'.timer = p.timer /\ page'.output = p.output
         /\ page'.status \in {"failed", "reconnecting"}
         /\ \/ page'.status = "failed" /\ GivesUp(page') /\ polls' = polls
            \/ /\ p.current \in Generations
               /\ polls' = [polls EXCEPT ![p.current] = @ + 1]
<1>1. CASE GivesUp(p)
  BY <1>1 DEF ReconnectPoll, GivesUp, TypeOK, Pages, ConsoleShows, RunStatuses, Terminal
<1>2. CASE ~GivesUp(p)
  <2>1. p.current \in Generations /\ p.attempts + 1 \in 0 .. MaxAttempts
    BY <1>2, ConsoleAssumption DEF GivesUp, Pages, Known
  <2>2. page' = [p EXCEPT !.status = "reconnecting", !.attempts = @ + 1]
    BY <1>2 DEF ReconnectPoll
  <2>3. page' \in Pages
    BY <2>1, <2>2 DEF Pages, ConsoleShows
  <2>4. polls' = [polls EXCEPT ![p.current] = @ + 1] /\ polls' \in [Generations -> Nat]
    BY <1>2, <2>1 DEF ReconnectPoll, TypeOK
  <2> QED
    BY <2>1, <2>2, <2>3, <2>4 DEF Pages
<1> QED
  BY <1>1, <1>2

\* After the last response is over and a reconnectPoll has run, one request is in flight
\* or the page has given up.
LEMMA ReconnectInv ==
  ASSUME ConsoleInv, NEW p \in Pages, ReconnectPoll(p),
         p.current = page.current, p.output = page.output,
         UNCHANGED <<submitted, overlapped, serverVars>>,
         ~overlapped /\ submitted > 0 =>
           polls[submitted] = 0 /\ ~p.timer /\ conn'[submitted] \notin Reading,
         \A g \in Generations : conn'[g] # conn[g] => conn[g] \in Reading /\ conn'[g] = "over"
  PROVE  Alone' /\ Following' /\ ShownIsLearnt' /\ Unborn'
<1> USE DEF serverVars
<1>1. /\ page' \in Pages
      /\ page'.current = page.current /\ page'.timer = p.timer /\ page'.output = page.output
      /\ page'.status \in {"failed", "reconnecting"}
      /\ \/ page'.status = "failed" /\ GivesUp(page') /\ polls' = polls
         \/ /\ page.current \in Generations
            /\ polls' = [polls EXCEPT ![page.current] = @ + 1]
  BY Reconnects DEF ConsoleInv
<1>2. polls \in [Generations -> Nat] /\ submitted \in 0 .. MaxGenerations /\ page \in Pages
  BY DEF ConsoleInv, TypeOK
<1>3. Alone'
  <2>1. ASSUME ~overlapped, NEW g \in Generations, g # submitted
        PROVE  conn'[g] \notin Reading /\ polls'[g] = 0
    <3>1. conn[g] \notin Reading /\ polls[g] = 0 /\ page.current # g
      BY <2>1 DEF ConsoleInv, Alone, None, Generations
    <3>2. conn'[g] = conn[g]
      BY <3>1
    <3>3. polls'[g] = polls[g]
      BY <1>1, <1>2, <3>1
    <3> QED
      BY <3>1, <3>2, <3>3
  <2> QED
    BY <1>1, <2>1 DEF ConsoleInv, Alone
<1>4. Following'
  <2> SUFFICES ASSUME submitted > 0, ~overlapped PROVE Following'
    BY DEF Following
  <2>1. submitted \in Generations /\ page.current \in {None, submitted} /\ polls[submitted] = 0
    BY <1>2 DEF ConsoleInv, Alone, Generations
  <2>2. conn'[submitted] \notin Reading /\ ~page'.timer
    BY <1>1
  <2>3. CASE page'.status = "failed" /\ GivesUp(page') /\ polls' = polls
    BY <1>1, <2>1, <2>2, <2>3 DEF Following, Reading
  <2>4. CASE page.current \in Generations /\ polls' = [polls EXCEPT ![page.current] = @ + 1]
    <3>1. page.current = submitted /\ polls'[submitted] = 1
      BY <1>2, <2>1, <2>4 DEF None, Generations
    <3> QED
      BY <1>1, <2>2, <3>1 DEF Following, Reading
  <2> QED
    BY <1>1, <2>3, <2>4
<1>5. ShownIsLearnt'
  BY <1>1 DEF ShownIsLearnt
<1>6. Unborn'
  <2>1. ASSUME NEW g \in Generations, g > submitted PROVE conn'[g] = "none" /\ polls'[g] = 0
    <3>1. conn[g] = "none" /\ polls[g] = 0 /\ page.current # g
      BY <1>2, <2>1 DEF ConsoleInv, Unborn, Generations
    <3>2. conn'[g] = conn[g]
      BY <3>1 DEF Reading
    <3>3. polls'[g] = polls[g]
      BY <1>1, <1>2, <3>1
    <3> QED
      BY <3>1, <3>2, <3>3
  <2> QED
    BY <1>1, <2>1 DEF ConsoleInv, Unborn
<1> QED
  BY <1>3, <1>4, <1>5, <1>6

LEMMA FramesKept ==
  ASSUME FramesTrue,
         \A g \in Generations : wire'[g] = wire[g] \/ wire'[g] = <<>>,
         \A g \in Generations : status[g] \in Terminal => status'[g] = status[g]
  PROVE  FramesTrue'
  BY DEF FramesTrue, FrameTrue

LEMMA StreamEndsStep ==
  ASSUME ConsoleInv, NEW g \in Generations, StreamEnds(g)
  PROVE  ConsoleInv'
<1> USE DEF StreamEnds, serverVars
<1>1. /\ page \in Pages /\ conn' = [conn EXCEPT ![g] = "over"] /\ conn \in [Generations -> ConnStates]
      /\ conn[g] = "ended" /\ wire[g] = <<>> /\ submitted \in 0 .. MaxGenerations
  BY DEF ConsoleInv, TypeOK
<1>2. ~overlapped => g = submitted
  BY <1>1 DEF ConsoleInv, Alone, Reading
<1>3. ~overlapped /\ submitted > 0 =>
        polls[submitted] = 0 /\ ~page.timer /\ conn'[submitted] \notin Reading
  BY <1>1, <1>2 DEF ConsoleInv, Following, Reading
<1>4. \A h \in Generations : conn'[h] # conn[h] => conn[h] \in Reading /\ conn'[h] = "over"
  BY <1>1 DEF Reading
<1>5. FramesTrue'
  BY FramesKept DEF ConsoleInv
<1>6. CASE page.status \in {"running", "queued"}
  <2>1. ReconnectPoll(page)
    BY <1>6
  <2>2. TypeOK'
    BY <1>1, <2>1, Reconnects DEF ConsoleInv, TypeOK, ConnStates
  <2>3. Alone' /\ Following' /\ ShownIsLearnt' /\ Unborn'
    BY <1>1, <1>3, <1>4, <2>1, ReconnectInv
  <2> QED
    BY <1>5, <2>2, <2>3 DEF ConsoleInv
<1>7. CASE page.status \notin {"running", "queued"}
  <2>1. page' = [page EXCEPT !.generating = FALSE] /\ polls' = polls
    BY <1>7
  <2>2. /\ page' \in Pages /\ page'.status = page.status /\ page'.current = page.current
        /\ page'.meta = page.meta /\ page'.timer = page.timer /\ page'.output = page.output
    BY <1>1, <2>1 DEF Pages
  <2>3. TypeOK'
    BY <1>1, <2>1, <2>2 DEF ConsoleInv, TypeOK, ConnStates
  <2>4. Alone' /\ Unborn' /\ ShownIsLearnt'
    BY <1>1, <2>1, <2>2 DEF ConsoleInv, Alone, Unborn, ShownIsLearnt, EndShown, Reading
  <2>5. Following'
    <3>1. ~overlapped /\ submitted > 0 => EndShown
      BY <1>1, <1>2, <1>7 DEF ConsoleInv, Following, Reading
    <3> QED
      BY <1>3, <2>1, <2>2, <3>1 DEF Following, EndShown, Reading
  <2> QED
    BY <1>5, <2>3, <2>4, <2>5 DEF ConsoleInv
<1> QED
  BY <1>6, <1>7

LEMMA StreamFailsStep ==
  ASSUME ConsoleInv, NEW g \in Generations, StreamFails(g)
  PROVE  ConsoleInv'
<1> USE DEF StreamFails, serverVars
<1>1. /\ page \in Pages /\ conn' = [conn EXCEPT ![g] = "over"] /\ conn \in [Generations -> ConnStates]
      /\ wire' = [wire EXCEPT ![g] = <<>>] /\ wire \in [Generations -> Seq(Frames)]
      /\ conn[g] \in Reading /\ submitted \in 0 .. MaxGenerations
  BY DEF ConsoleInv, TypeOK
<1>2. ~overlapped => g = submitted
  BY <1>1 DEF ConsoleInv, Alone
<1>3. ~overlapped /\ submitted > 0 =>
        polls[submitted] = 0 /\ ~page.timer /\ conn'[submitted] \notin Reading
  BY <1>1, <1>2 DEF ConsoleInv, Following, Reading
<1>4. \A h \in Generations : conn'[h] # conn[h] => conn[h] \in Reading /\ conn'[h] = "over"
  BY <1>1
<1>5. FramesTrue'
  BY <1>1, FramesKept DEF ConsoleInv
<1>6. TypeOK'
  BY <1>1, Reconnects DEF ConsoleInv, TypeOK, ConnStates
<1>7. Alone' /\ Following' /\ ShownIsLearnt' /\ Unborn'
  BY <1>1, <1>3, <1>4, ReconnectInv
<1> QED
  BY <1>5, <1>6, <1>7 DEF ConsoleInv

LEMMA TimerFiresStep ==
  ASSUME ConsoleInv, TimerFires
  PROVE  ConsoleInv'
<1> USE DEF TimerFires, serverVars
<1> DEFINE p == [page EXCEPT !.timer = FALSE]
<1>1. /\ p \in Pages /\ p.current = page.current /\ p.output = page.output /\ ~p.timer
      /\ ReconnectPoll(p) /\ submitted \in 0 .. MaxGenerations
      /\ polls \in [Generations -> Nat]
  BY DEF ConsoleInv, TypeOK, Pages
<1>2. ~overlapped /\ submitted > 0 => polls[submitted] = 0 /\ conn'[submitted] \notin Reading
  BY <1>1 DEF ConsoleInv, Following, Generations
<1>3. FramesTrue'
  BY FramesKept DEF ConsoleInv
<1> HIDE DEF p
<1>4. TypeOK'
  BY <1>1, Reconnects DEF ConsoleInv, TypeOK
<1>5. Alone' /\ Following' /\ ShownIsLearnt' /\ Unborn'
  BY <1>1, <1>2, ReconnectInv
<1> QED
  BY <1>3, <1>4, <1>5 DEF ConsoleInv

LEMMA PollAnsweredStep ==
  ASSUME ConsoleInv, NEW g \in Generations, PollAnswered(g) \/ PollFails(g)
  PROVE  ConsoleInv'
<1> USE DEF serverVars, Server!Tell
<1>1. /\ page \in Pages /\ polls \in [Generations -> Nat] /\ submitted \in 0 .. MaxGenerations
      /\ status \in [Generations -> RunStatuses \union {"none"}]
      /\ told \in [Generations -> SUBSET Terminal]
  BY DEF ConsoleInv, TypeOK
<1>2. /\ polls[g] > 0 /\ polls' = [polls EXCEPT ![g] = @ - 1]
      /\ polls' \in [Generations -> Nat]
      /\ UNCHANGED <<conn, wire, submitted, overlapped, status, asked>>
      /\ told' \in [Generations -> SUBSET Terminal]
  BY <1>1 DEF PollAnswered, PollFails
<1>3. \/ page' = [page EXCEPT !.meta = g, !.status = status[g], !.generating = FALSE] /\ status[g] \in Terminal
      \/ page' = [page EXCEPT !.meta = g, !.timer = TRUE]
      \/ page' = [page EXCEPT !.timer = TRUE]
  BY DEF PollAnswered, PollFails
<1>4. page' \in Pages /\ page'.current = page.current /\ page'.output = page.output
  BY <1>1, <1>3 DEF Pages, Known, ConsoleShows, RunStatuses
<1>5. TypeOK'
  BY <1>2, <1>4 DEF ConsoleInv, TypeOK
<1>6. FramesTrue'
  BY <1>2, FramesKept DEF ConsoleInv
<1>7. Unborn'
  BY <1>1, <1>2, <1>4 DEF ConsoleInv, Unborn
<1>8. Alone'
  BY <1>1, <1>2, <1>4 DEF ConsoleInv, Alone
<1>9. ASSUME ~overlapped PROVE Following' /\ ShownIsLearnt'
  <2>1. g = submitted /\ submitted > 0
    BY <1>1, <1>2, <1>9 DEF ConsoleInv, Alone, Generations
  <2>2. /\ conn[submitted] \notin Reading /\ ~page.timer /\ page.current = submitted
        /\ polls'[submitted] = 0
    BY <1>1, <1>2, <1>9, <2>1 DEF ConsoleInv, Following
  <2>3. CASE /\ page' = [page EXCEPT !.meta = g, !.status = status[g], !.generating = FALSE]
             /\ status[g] \in Terminal
    <3>1. EndShown' /\ ~page'.timer
      BY <1>1, <1>2, <2>1, <2>2, <2>3 DEF EndShown, Pages
    <3> QED
      BY <1>2, <2>2, <3>1 DEF Following, ShownIsLearnt, Reading
  <2>4. CASE \/ page' = [page EXCEPT !.meta = g, !.timer = TRUE]
             \/ page' = [page EXCEPT !.timer = TRUE]
    <3>1. page'.timer /\ page'.status = page.status /\ page'.meta \in {page.meta, submitted}
      BY <1>1, <2>1, <2>4 DEF Pages
    <3>2. Following'
      BY <1>2, <1>4, <2>2, <3>1 DEF Following, Reading
    <3>3. ShownIsLearnt'
      BY <1>2, <1>4, <3>1 DEF ConsoleInv, ShownIsLearnt, EndShown
    <3> QED
      BY <3>2, <3>3
  <2> QED
    BY <1>3, <2>3, <2>4
<1> QED
  BY <1>2, <1>5, <1>6, <1>7, <1>8, <1>9 DEF ConsoleInv, Following, ShownIsLearnt

\* What a frame of the only response makes the page show.
LEMMA FrameShown ==
  ASSUME page \in Pages, NEW g \in Generations, NEW frame, FrameTrue(status[g], frame),
         page' = HandleServerEvent(page, g, frame)
  PROVE  /\ page' \in Pages
         /\ page'.timer = page.timer /\ page'.attempts = page.attempts
         /\ page'.current = IF frame.type = "created" THEN g ELSE page.current
         /\ page'.output \in {page.output, page.output \union {g}}
         /\ \/ page'.status \in {"queued", "running"}
            \/ /\ page'.meta = g /\ page'.current = page.current
               /\ page'.status = status[g] /\ status[g] \in Terminal
            \/ /\ page'.status = page.status /\ page'.meta = page.meta
               /\ page'.current = page.current
<1>1. frame.status \in ConsoleShows /\ g \in Known
  BY DEF FrameTrue, Frames, ConsoleShows, Known
<1>2. CASE frame.type = "created"
  <2>1. page' = [page EXCEPT !.status = frame.status, !.current = g, !.meta = g]
    BY <1>2 DEF HandleServerEvent
  <2> QED
    BY <1>1, <1>2, <2>1 DEF FrameTrue, Pages
<1>3. CASE frame.type = "status"
  <2>1. page' = [page EXCEPT !.status = frame.status, !.meta = g]
    BY <1>3 DEF HandleServerEvent
  <2> QED
    BY <1>1, <1>3, <2>1 DEF FrameTrue, Pages
<1>4. CASE frame.type = "token"
  <2>1. page' = [page EXCEPT !.output = @ \union {g}]
    BY <1>4 DEF HandleServerEvent
  <2> QED
    BY <1>4, <2>1 DEF Pages
<1>5. CASE frame.type = "end"
  <2>1. page' = [page EXCEPT !.status = frame.status, !.meta = g, !.generating = FALSE]
    BY <1>5 DEF HandleServerEvent
  <2> QED
    BY <1>1, <1>5, <2>1 DEF FrameTrue, Pages
<1> QED
  BY <1>2, <1>3, <1>4, <1>5 DEF FrameTrue, Frames

\* The end that a frame tells is the stored one.
LEMMA EndToldTrue ==
  ASSUME ConsoleInv, NEW g \in Generations, ReadFrame(g)
  PROVE  \/ UNCHANGED told
         \/ /\ status[g] \in Terminal
            /\ told' = [told EXCEPT ![g] = @ \union {status[g]}]
<1>1. /\ wire \in [Generations -> Seq(Frames)] /\ wire[g] # <<>>
      /\ told \in [Generations -> SUBSET Terminal]
      /\ told' = [told EXCEPT ![g] = @ \union EndTold(Head(wire[g]))]
  BY DEF ConsoleInv, TypeOK, ReadFrame
<1>2. FrameTrue(status[g], Head(wire[g]))
  <2>1. Head(wire[g]) = wire[g][1] /\ 1 \in 1 .. Len(wire[g])
    BY <1>1
  <2> QED
    BY <2>1 DEF ConsoleInv, FramesTrue
<1>3. CASE Head(wire[g]).type = "end"
  BY <1>1, <1>2, <1>3 DEF FrameTrue, EndTold
<1>4. CASE Head(wire[g]).type # "end"
  <2>1. told' = [told EXCEPT ![g] = @]
    BY <1>1, <1>4 DEF EndTold
  <2> QED
    BY <1>1, <2>1
<1> QED
  BY <1>3, <1>4

LEMMA ReadFrameStep ==
  ASSUME ConsoleInv, NEW g \in Generations, ReadFrame(g)
  PROVE  ConsoleInv'
<1> USE DEF serverVars
<1>1. /\ page \in Pages /\ wire \in [Generations -> Seq(Frames)] /\ submitted \in 0 .. MaxGenerations
      /\ conn[g] \in {"open", "ended"} /\ wire[g] # <<>>
      /\ UNCHANGED <<polls, conn, submitted, overlapped, status, asked>>
      /\ told \in [Generations -> SUBSET Terminal]
  BY DEF ConsoleInv, TypeOK, ReadFrame
<1> DEFINE frame == Head(wire[g])
<1>2. FrameTrue(status[g], frame) /\ page' = HandleServerEvent(page, g, frame)
  <2>1. frame = wire[g][1] /\ 1 \in 1 .. Len(wire[g])
    BY <1>1
  <2>2. FrameTrue(status[g], wire[g][1])
    BY <2>1 DEF ConsoleInv, FramesTrue
  <2> QED
    BY <2>1, <2>2 DEF ReadFrame
<1>3. wire' = [wire EXCEPT ![g] = Tail(@)] /\ wire' \in [Generations -> Seq(Frames)]
  BY <1>1 DEF ReadFrame
<1>4. /\ page' \in Pages
      /\ page'.timer = page.timer /\ page'.attempts = page.attempts
      /\ page'.current = IF frame.type = "created" THEN g ELSE page.current
      /\ page'.output \in {page.output, page.output \union {g}}
      /\ \/ page'.status \in {"queued", "running"}
         \/ /\ page'.meta = g /\ page'.current = page.current
            /\ page'.status = status[g] /\ status[g] \in Terminal
         \/ /\ page'.status = page.status /\ page'.meta = page.meta
            /\ page'.current = page.current
  <2> HIDE DEF frame
  <2> QED
    BY <1>1, <1>2, FrameShown
<1>5. TypeOK'
  <2>1. told' \in [Generations -> SUBSET Terminal]
    BY <1>1, EndToldTrue
  <2> QED
    BY <1>1, <1>3, <1>4, <2>1 DEF ConsoleInv, TypeOK
<1>6. FramesTrue'
  <2>1. ASSUME NEW h \in Generations, NEW i \in 1 .. Len(wire'[h]) PROVE FrameTrue(status[h], wire'[h][i])
    <3>1. CASE h = g
      <4>1. wire'[h][i] = wire[h][i + 1] /\ i + 1 \in 1 .. Len(wire[h])
        BY <1>1, <1>3, <3>1
      <4> QED
        BY <4>1 DEF ConsoleInv, FramesTrue
    <3>2. CASE h # g
      BY <1>3, <3>2 DEF ConsoleInv, FramesTrue
    <3> QED
      BY <3>1, <3>2
  <2> QED
    BY <1>1, <2>1 DEF FramesTrue, FrameTrue
<1>7. g <= submitted
  BY <1>1 DEF ConsoleInv, Unborn, Generations
<1> HIDE DEF frame
<1>8. Unborn'
  BY <1>1, <1>4, <1>7 DEF ConsoleInv, Unborn
<1>9. ASSUME ~overlapped PROVE Alone' /\ Following' /\ ShownIsLearnt'
  <2>1. g = submitted /\ submitted > 0
    BY <1>1, <1>9 DEF ConsoleInv, Alone, Generations, Reading
  <2>2. Alone'
    BY <1>1, <1>4, <1>9, <2>1 DEF ConsoleInv, Alone
  <2>3. /\ polls[submitted] = 0 /\ ~page.timer /\ conn[submitted] \in Reading
        /\ page.status \in {"queued", "running"} \/ EndShown
    BY <1>1, <1>9, <2>1 DEF ConsoleInv, Following, Reading
  <2>4. page'.current = submitted
    <3>1. page.current = submitted \/ frame.type = "created"
      BY <1>1, <1>9, <2>1 DEF ConsoleInv, Following, CreatedNext, frame
    <3> QED
      BY <1>4, <2>1, <3>1
  <2>5. page'.status \in {"queued", "running"} \/ EndShown'
    BY <1>1, <1>4, <2>1, <2>3, <2>4 DEF EndShown
  <2>6. Following'
    BY <1>1, <1>4, <2>3, <2>4, <2>5 DEF Following
  <2>7. ShownIsLearnt'
    BY <2>5 DEF ShownIsLearnt
  <2> QED
    BY <2>2, <2>6, <2>7
<1> QED
  BY <1>1, <1>5, <1>6, <1>8, <1>9 DEF ConsoleInv, Alone, Following, ShownIsLearnt

-----------------------------------------------------------------------------
(* Steps of the server, and what they have in common.                      *)

\* Runs that have ended stay as they are; a response opens with run.created next, and what
\* is next stays next.
LEMMA ServerInv ==
  ASSUME ConsoleInv, UNCHANGED <<page, polls, submitted, overlapped>>,
         \A g \in Generations : status[g] \in Terminal => status'[g] = status[g],
         \A g \in Generations : conn'[g] # conn[g] =>
           conn[g] \in {"requested", "open"} /\ conn'[g] \in {"open", "ended", "hung"},
         \A g \in Generations : conn'[g] \in {"open", "ended"} =>
           CreatedNext(g)' \/ (conn[g] \in {"open", "ended"} /\ ~CreatedNext(g))
  PROVE  Alone' /\ Following' /\ ShownIsLearnt' /\ Unborn'
<1>1. submitted \in 0 .. MaxGenerations
  BY DEF ConsoleInv, TypeOK
<1>2. Alone' /\ Unborn'
  BY DEF ConsoleInv, Alone, Unborn, Reading
<1>3. EndShown /\ submitted \in Generations => EndShown'
  BY DEF EndShown
<1>4. Following'
  <2> SUFFICES ASSUME submitted > 0, ~overlapped PROVE Following'
    BY DEF Following
  <2>1. submitted \in Generations
    BY <1>1 DEF Generations
  <2>2. conn'[submitted] \in Reading <=> conn[submitted] \in Reading
    BY <2>1 DEF Reading
  <2>3. conn'[submitted] \in {"open", "ended"} => page.current = submitted \/ CreatedNext(submitted)'
    BY <2>1 DEF ConsoleInv, Following
  <2>4. EndShown => EndShown'
    BY <1>3, <2>1
  <2> QED
    BY <2>1, <2>2, <2>3, <2>4 DEF ConsoleInv, Following, GivesUp
<1>5. ShownIsLearnt'
  <2>1. ASSUME ~overlapped, EndShown PROVE EndShown'
    BY <1>1, <1>3, <2>1 DEF EndShown, Generations
  <2> QED
    BY <2>1 DEF ConsoleInv, ShownIsLearnt
<1> QED
  BY <1>2, <1>4, <1>5

LEMMA AcceptStep ==
  ASSUME ConsoleInv, NEW g \in Generations, Accept(g)
  PROVE  ConsoleInv'
<1> USE DEF Accept, Server!Create
<1>1. /\ conn \in [Generations -> ConnStates] /\ wire \in [Generations -> Seq(Frames)]
      /\ status \in [Generations -> RunStatuses \union {"none"}]
      /\ status[g] = "none" /\ status' = [status EXCEPT ![g] = "queued"] /\ conn[g] = "requested"
  BY DEF ConsoleInv, TypeOK
<1>2. Frame("created", g) = [type |-> "created", status |-> "queued"]
  BY <1>1 DEF Frame
<1>3. Frame("created", g) \in Frames
  BY <1>2 DEF Frames, RunStatuses
<1>4. TypeOK'
  BY <1>1, <1>3 DEF ConsoleInv, TypeOK, ConnStates, RunStatuses
<1>5. FramesTrue'
  <2>1. ASSUME NEW h \in Generations, NEW i \in 1 .. Len(wire'[h]) PROVE FrameTrue(status'[h], wire'[h][i])
    <3>1. CASE h = g
      BY <1>1, <1>2, <1>3, <3>1 DEF FrameTrue
    <3>2. CASE h # g
      BY <1>1, <3>2 DEF ConsoleInv, FramesTrue, FrameTrue
    <3> QED
      BY <3>1, <3>2
  <2> QED
    BY <2>1 DEF FramesTrue
<1>6. CreatedNext(g)'
  BY <1>1, <1>2 DEF CreatedNext
<1>7. \A h \in Generations \ {g} : conn'[h] = conn[h] /\ (CreatedNext(h)' <=> CreatedNext(h))
  BY <1>1 DEF CreatedNext
<1>8. Alone' /\ Following' /\ ShownIsLearnt' /\ Unborn'
  <2>1. \A h \in Generations : status[h] \in Terminal => status'[h] = status[h]
    BY <1>1 DEF Terminal
  <2>2. conn'[g] = "open"
    BY <1>1
  <2> HIDE DEF Accept
  <2>3. UNCHANGED <<page, polls, submitted, overlapped>>
    BY DEF Accept
  <2> QED
    BY <1>1, <1>6, <1>7, <2>1, <2>2, <2>3, ServerInv
<1> QED
  BY <1>4, <1>5, <1>8 DEF ConsoleInv

\* A frame is sent after the ones not read yet.
LEMMA SendInv ==
  ASSUME ConsoleInv, NEW g \in Generations, NEW type \in {"status", "token", "end"}, Send(g, type),
         UNCHANGED <<page, polls, submitted, overlapped>>,
         status' \in [Generations -> RunStatuses \union {"none"}], status'[g] \in RunStatuses,
         type = "status" => status'[g] = "running",
         type = "end" => status'[g] \in Terminal,
         \A h \in Generations : status[h] \in Terminal => status'[h] = status[h],
         \A h \in Generations : conn'[h] # conn[h] => conn[h] = "open" /\ conn'[h] = "ended"
  PROVE  /\ wire' \in [Generations -> Seq(Frames)] /\ FramesTrue'
         /\ Alone' /\ Following' /\ ShownIsLearnt' /\ Unborn'
<1>1. wire \in [Generations -> Seq(Frames)]
  BY DEF ConsoleInv, TypeOK
<1> DEFINE frame == [type |-> type, status |-> status'[g]]
<1>2. frame \in Frames /\ FrameTrue(status'[g], frame) /\ frame.type # "created"
  BY DEF FrameTrue, Frames
<1>3. wire' = wire \/ wire' = [wire EXCEPT ![g] = Append(@, frame)]
  BY DEF Send, Frame
<1> HIDE DEF frame
<1>4. \A h \in Generations :
        \/ wire'[h] = wire[h]
        \/ h = g /\ wire'[h] = Append(wire[h], frame)
  BY <1>1, <1>3
<1>5. wire' \in [Generations -> Seq(Frames)]
  <2>1. CASE wire' = wire
    BY <1>1, <2>1
  <2>2. CASE wire' = [wire EXCEPT ![g] = Append(@, frame)]
    <3>1. wire[g] \in Seq(Frames)
      BY <1>1
    <3>2. Append(wire[g], frame) \in Seq(Frames)
      BY <1>2, <3>1
    <3> QED
      BY <1>1, <2>2, <3>2
  <2> QED
    BY <1>3, <2>1, <2>2
<1>6. ASSUME NEW h \in Generations
      PROVE  /\ \A i \in 1 .. Len(wire'[h]) : FrameTrue(status'[h], wire'[h][i])
             /\ CreatedNext(h) => CreatedNext(h)'
  <2>1. \A i \in 1 .. Len(wire[h]) : FrameTrue(status'[h], wire[h][i])
    BY DEF ConsoleInv, FramesTrue, FrameTrue
  <2>2. CASE wire'[h] = wire[h]
    BY <2>1, <2>2 DEF CreatedNext
  <2>3. CASE h = g /\ wire'[h] = Append(wire[h], frame)
    <3>1. wire[h] \in Seq(Frames)
      BY <1>1
    <3>2. /\ Len(wire'[h]) = Len(wire[h]) + 1 /\ wire'[h][Len(wire[h]) + 1] = frame
          /\ \A i \in 1 .. Len(wire[h]) : wire'[h][i] = wire[h][i]
      BY <1>2, <2>3, <3>1
    <3>3. \A i \in 1 .. Len(wire'[h]) : FrameTrue(status'[h], wire'[h][i])
      BY <1>2, <2>1, <2>3, <3>1, <3>2
    <3>4. wire[h] # <<>> => wire'[h] # <<>> /\ Head(wire'[h]) = Head(wire[h])
      BY <1>2, <2>3, <3>1
    <3> QED
      BY <3>3, <3>4 DEF CreatedNext
  <2> QED
    BY <1>4, <2>2, <2>3
<1>7. Alone' /\ Following' /\ ShownIsLearnt' /\ Unborn'
  BY <1>6, ServerInv
<1> QED
  BY <1>5, <1>6, <1>7 DEF FramesTrue

LEMMA RunStep ==
  ASSUME ConsoleInv, NEW g \in Generations, RunStarts(g) \/ Token(g) \/ RunEnds(g)
  PROVE  ConsoleInv'
<1>1. status \in [Generations -> RunStatuses \union {"none"}] /\ conn \in [Generations -> ConnStates]
  BY DEF ConsoleInv, TypeOK
<1>2. CASE RunStarts(g)
  <2>1. status[g] = "queued" /\ status' = [status EXCEPT ![g] = "running"]
    BY <1>2 DEF RunStarts, Server!Start
  <2>2. /\ wire' \in [Generations -> Seq(Frames)] /\ FramesTrue'
        /\ Alone' /\ Following' /\ ShownIsLearnt' /\ Unborn'
    BY <1>1, <1>2, <2>1, SendInv DEF RunStarts, RunStatuses, Terminal
  <2>3. TypeOK'
    BY <1>1, <1>2, <2>1, <2>2 DEF ConsoleInv, TypeOK, RunStarts, Server!Start, RunStatuses
  <2> QED
    BY <2>2, <2>3 DEF ConsoleInv
<1>3. CASE Token(g)
  <2>1. status[g] = "running" /\ status' = status /\ conn' = conn
    BY <1>3 DEF Token, serverVars
  <2>2. /\ wire' \in [Generations -> Seq(Frames)] /\ FramesTrue'
        /\ Alone' /\ Following' /\ ShownIsLearnt' /\ Unborn'
    BY <1>1, <1>3, <2>1, SendInv DEF Token, RunStatuses
  <2>3. TypeOK'
    BY <1>3, <2>2 DEF ConsoleInv, TypeOK, Token, serverVars
  <2> QED
    BY <2>2, <2>3 DEF ConsoleInv
<1>4. CASE RunEnds(g)
  <2>1. PICK event \in EndEvents : Server!Settle(g, event)
    BY <1>4 DEF RunEnds
  <2>2. /\ status[g] \in {"queued", "running"} /\ Server!NextStatus(event) \in Terminal
        /\ status' = [status EXCEPT ![g] = Server!NextStatus(event)]
    <3>1. event \in {"complete", "cancel", "fail"}
      BY DEF EndEvents, RunEvents
    <3>2. Server!AllowedFrom(event) \subseteq {"queued", "running"}
      BY <3>1 DEF Server!AllowedFrom
    <3>3. Server!NextStatus(event) \in Terminal
      BY <3>1 DEF Server!NextStatus, Terminal
    <3> QED
      BY <2>1, <3>2, <3>3 DEF Server!Settle, Server!IsLegal
  <2>3. conn' \in [Generations -> ConnStates]
        /\ \A h \in Generations : conn'[h] # conn[h] => conn[h] = "open" /\ conn'[h] = "ended"
    BY <1>1, <1>4 DEF RunEnds, ConnStates
  <2>4. \A h \in Generations : status[h] \in Terminal => status'[h] = status[h]
    BY <1>1, <2>2 DEF Terminal
  <2>5. status' \in [Generations -> RunStatuses \union {"none"}] /\ status'[g] \in Terminal
    BY <1>1, <2>2 DEF RunStatuses
  <2>6. /\ wire' \in [Generations -> Seq(Frames)] /\ FramesTrue'
        /\ Alone' /\ Following' /\ ShownIsLearnt' /\ Unborn'
    <3>1. Send(g, "end") /\ UNCHANGED <<page, polls, submitted, overlapped>>
      BY <1>4 DEF RunEnds
    <3>2. status'[g] \in RunStatuses
      BY <2>5 DEF RunStatuses
    <3> QED
      BY <2>3, <2>4, <2>5, <3>1, <3>2, SendInv
  <2>7. TypeOK'
    BY <1>4, <2>1, <2>3, <2>5, <2>6 DEF ConsoleInv, TypeOK, RunEnds, Server!Settle
  <2> QED
    BY <2>6, <2>7 DEF ConsoleInv
<1> QED
  BY <1>2, <1>3, <1>4

\* The steps that send nothing.
LEMMA SilentStep ==
  ASSUME ConsoleInv, UNCHANGED <<page, polls, wire, submitted, overlapped, status, told>>,
         asked' \subseteq Generations, conn' \in [Generations -> ConnStates],
         \A g \in Generations : conn'[g] # conn[g] =>
           \/ conn[g] = "requested" /\ conn'[g] = "hung"
           \/ conn[g] = "open" /\ conn'[g] = "ended"
  PROVE  ConsoleInv'
<1>1. TypeOK'
  BY DEF ConsoleInv, TypeOK
<1>2. FramesTrue'
  BY FramesKept DEF ConsoleInv
<1>3. \A g \in Generations : CreatedNext(g)' <=> CreatedNext(g)
  BY DEF CreatedNext
<1>4. Alone' /\ Following' /\ ShownIsLearnt' /\ Unborn'
  BY <1>3, ServerInv
<1> QED
  BY <1>1, <1>2, <1>4 DEF ConsoleInv

LEMMA StepInv == ConsoleInv /\ [Next]_vars => ConsoleInv'
<1> SUFFICES ASSUME ConsoleInv, [Next]_vars PROVE ConsoleInv'
  OBVIOUS
<1>1. asked \subseteq Generations /\ conn \in [Generations -> ConnStates] /\ page \in Pages
  BY DEF ConsoleInv, TypeOK
<1>2. ASSUME NEW g \in Generations, PageStep(g) PROVE ConsoleInv'
  BY <1>2, ReadFrameStep, StreamEndsStep, StreamFailsStep, PollAnsweredStep DEF PageStep
<1>3. ASSUME NEW g \in Generations, HandlerFails(g) \/ CutShort(g) \/ NoticesClose(g) PROVE ConsoleInv'
  <2>1. /\ UNCHANGED <<page, polls, wire, submitted, overlapped, status, told>>
        /\ asked' \subseteq Generations
    BY <1>1, <1>3 DEF HandlerFails, CutShort, NoticesClose, serverVars, Server!Ask
  <2>2. /\ conn' \in [Generations -> ConnStates]
        /\ \A h \in Generations : conn'[h] # conn[h] =>
             \/ conn[h] = "requested" /\ conn'[h] = "hung"
             \/ conn[h] = "open" /\ conn'[h] = "ended"
    BY <1>1, <1>3 DEF HandlerFails, CutShort, NoticesClose, ConnStates
  <2> QED
    BY <2>1, <2>2, SilentStep
<1>4. ASSUME NEW g \in Generations, ServerStep(g) PROVE ConsoleInv'
  BY <1>3, <1>4, AcceptStep, RunStep DEF ServerStep
<1>5. CASE ClickCancel
  <2>1. page.current \in Generations
    BY <1>1, <1>5 DEF ClickCancel, Pages, Known
  <2> QED
    BY <1>1, <1>5, <2>1, SilentStep DEF ClickCancel, Server!Ask
<1>6. CASE UNCHANGED vars
  BY <1>1, <1>6, SilentStep DEF vars, serverVars
<1> QED
  BY <1>2, <1>4, <1>5, <1>6, SubmitStep, TimerFiresStep DEF Next

-----------------------------------------------------------------------------

\* The inductive invariant: of a generation that overlaps no other, the page either reads
\* the response, or asks, or waits to ask, or shows the stored end, or has given up.
THEOREM ConsoleInvAlways == Spec => []ConsoleInv
  BY InitInv, StepInv, PTL DEF Spec

\* A page at rest shows the stored end of its run, or "failed" of one it could not follow.
THEOREM RestsTruthfullyAlways == Spec => []RestsTruthfully
<1>1. ConsoleInv => RestsTruthfully
  <2> SUFFICES ASSUME ConsoleInv, AtRest, ~overlapped, submitted > 0
               PROVE  /\ \/ /\ page.current = submitted /\ page.meta = submitted
                            /\ page.status = status[submitted]
                         \/ page.status = "failed" /\ GivesUp(page)
                      /\ page.output \subseteq {submitted}
    BY DEF RestsTruthfully
  <2>1. submitted \in Generations
    BY DEF ConsoleInv, TypeOK, Generations
  <2>2. EndShown \/ (page.status = "failed" /\ GivesUp(page))
    BY <2>1 DEF ConsoleInv, Following, AtRest
  <2> QED
    BY <2>2 DEF ConsoleInv, Alone, EndShown
<1> QED
  BY ConsoleInvAlways, <1>1, PTL

\* An end on display is the stored end of the run on display.
THEOREM ShownEndIsStoredAlways == Spec => []ShownEndIsStored
<1>1. ConsoleInv => ShownEndIsStored
  BY DEF ConsoleInv, ShownIsLearnt, EndShown, ShownEndIsStored
<1> QED
  BY ConsoleInvAlways, <1>1, PTL
-----------------------------------------------------------------------------
(* What the page is told and asks for.                                     *)

\* A cancel is asked of a run that exists, whatever the page takes for its status.
LEMMA PageMaps ==
  ASSUME ConsoleInv, Submit \/ TimerFires \/ ClickCancel
  PROVE  [Server!Next]_(Server!vars)
<1> USE DEF Server!vars, serverVars
<1>1. CASE Submit
  BY <1>1 DEF Submit
<1>2. CASE TimerFires
  BY <1>2 DEF TimerFires
<1>3. CASE ClickCancel
  <2>1. page.current \in Generations
    BY <1>3 DEF ClickCancel, ConsoleInv, TypeOK, Pages, Known
  <2> QED
    BY <1>3, <2>1 DEF ClickCancel, Server!Next
<1> QED
  BY <1>1, <1>2, <1>3

\* Reading tells the page the end in the frame, however long that was on its way; a poll
\* that is answered tells the stored one; the rest leaves the run alone.
LEMMA ResponseMaps ==
  ASSUME ConsoleInv, NEW g \in Generations,
         PageStep(g) \/ HandlerFails(g) \/ Token(g) \/ CutShort(g)
  PROVE  [Server!Next]_(Server!vars)
<1> USE DEF Server!vars, serverVars
<1>1. CASE ReadFrame(g)
  <2>1. UNCHANGED <<status, asked>>
    BY <1>1 DEF ReadFrame
  <2>2. Server!Terminal = Terminal
    BY DEF Server!Terminal, Terminal
  <2>3. UNCHANGED told \/ Server!Tell(g)
    BY <1>1, <2>1, <2>2, EndToldTrue DEF Server!Tell
  <2> QED
    BY <2>1, <2>3 DEF Server!Next
<1>2. CASE PollAnswered(g) /\ status[g] \in Terminal
  BY <1>2 DEF PollAnswered, Server!Next
<1>3. CASE PollAnswered(g) /\ status[g] \notin Terminal
  BY <1>3 DEF PollAnswered
<1>4. CASE StreamEnds(g) \/ StreamFails(g) \/ PollFails(g)
  BY <1>4 DEF StreamEnds, StreamFails, PollFails
<1>5. CASE HandlerFails(g) \/ Token(g) \/ CutShort(g)
  BY <1>5 DEF HandlerFails, Token, CutShort
<1> QED
  BY <1>1, <1>2, <1>3, <1>4, <1>5 DEF PageStep

\* What the server does to a run is a step of the contract.
LEMMA RunMaps ==
  ASSUME NEW g \in Generations,
         Accept(g) \/ RunStarts(g) \/ RunEnds(g) \/ NoticesClose(g)
  PROVE  Server!Next
<1>1. \/ Server!Create(g) \/ Server!Start(g) \/ Server!Ask(g)
      \/ \E event \in EndEvents : Server!Settle(g, event)
  BY DEF Accept, RunStarts, RunEnds, NoticesClose
<1>2. Server!EndEvents = EndEvents
  BY DEF Server!EndEvents, EndEvents, Server!RunEvents, RunEvents
<1> QED
  BY <1>1, <1>2 DEF Server!Next

\* The console keeps the client's side of the contract: every end that a frame or a poll
\* tells the page, of any generation, overlapped or given up, is the stored end of that
\* run.  That the server keeps its side is taken from RunContract here and proved of
\* GenerationService (Implementation).
THEOREM ConsoleMeetsContract == Spec => Server!Spec
<1>1. Init => Server!Init
  BY DEF Init
<1>2. ConsoleInv /\ [Next]_vars => [Server!Next]_(Server!vars)
  <2> SUFFICES ASSUME ConsoleInv, [Next]_vars PROVE [Server!Next]_(Server!vars)
    OBVIOUS
  <2>1. CASE UNCHANGED vars
    BY <2>1 DEF vars, serverVars, Server!vars
  <2>2. ASSUME NEW g \in Generations, PageStep(g) \/ ServerStep(g)
        PROVE  [Server!Next]_(Server!vars)
    BY <2>2, ResponseMaps, RunMaps DEF ServerStep
  <2> QED
    BY <2>1, <2>2, PageMaps DEF Next
<1> QED
  BY <1>1, <1>2, ConsoleInvAlways, PTL DEF Spec, Server!Spec
=============================================================================
