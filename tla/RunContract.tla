----------------------------- MODULE RunContract -----------------------------
(***************************************************************************)
(* What the server promises about a run, with no event loop, no SQL and no *)
(* engine in it: a run moves along the lifecycle and stops in one terminal *)
(* status; a run somebody asked to cancel can only end cancelled, and no   *)
(* other run does; and nobody is ever told a terminal status the run does  *)
(* not have.  GenerationService implements it.                             *)
(***************************************************************************)
EXTENDS RunStatus

CONSTANT Runs

VARIABLES
  status,   \* [Runs -> RunStatuses \union {"none"}], as persisted
  asked,    \* runs whose cancellation was accepted
  told      \* [Runs -> SUBSET Terminal], the ends clients were told of

vars == <<status, asked, told>>

Init ==
  /\ status = [r \in Runs |-> "none"]
  /\ asked = {}
  /\ told = [r \in Runs |-> {}]

Create(r) ==
  /\ status[r] = "none"
  /\ status' = [status EXCEPT ![r] = "queued"]
  /\ UNCHANGED <<asked, told>>

Start(r) ==
  /\ status[r] = "queued"
  /\ status' = [status EXCEPT ![r] = "running"]
  /\ UNCHANGED <<asked, told>>

Ask(r) ==
  /\ status[r] \in {"queued", "running"}
  /\ asked' = asked \union {r}
  /\ UNCHANGED <<status, told>>

\* A run completes only from running; it is cancelled exactly when asked.
Settle(r, event) ==
  /\ IsLegal(status[r], event)
  /\ (event = "cancel") <=> (r \in asked)
  /\ status' = [status EXCEPT ![r] = NextStatus(event)]
  /\ UNCHANGED <<asked, told>>

Tell(r) ==
  /\ status[r] \in Terminal
  /\ told' = [told EXCEPT ![r] = @ \union {status[r]}]
  /\ UNCHANGED <<status, asked>>

Next ==
  \E r \in Runs :
    \/ Create(r)
    \/ Start(r)
    \/ Ask(r)
    \/ \E event \in EndEvents : Settle(r, event)
    \/ Tell(r)

Spec == Init /\ [][Next]_vars
=============================================================================
