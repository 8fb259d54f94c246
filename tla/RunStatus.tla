------------------------------ MODULE RunStatus ------------------------------
(***************************************************************************)
(* The run lifecycle of src/domain/status.ts: the statuses a row of the    *)
(* `runs` table can have, the events that move a run between them, and the *)
(* partial function nextStatus, which throws ConflictError on an illegal   *)
(* event.  "none" is the status of a run whose row does not exist.         *)
(***************************************************************************)

Terminal  == {"completed", "cancelled", "failed"}
RunStatuses == {"queued", "running"} \union Terminal
RunEvents == {"start", "complete", "cancel", "fail"}
EndEvents == RunEvents \ {"start"}

\* A plausible defect: a cancel or a failure may also be applied to a run that
\* has already ended.
AllowedFromAnything(event) ==
  CASE event = "start"    -> {"queued"}
    [] event = "complete" -> {"running"}
    [] OTHER              -> RunStatuses

\* The statuses an event may be applied in.
AllowedFrom(event) ==
  CASE event = "start"    -> {"queued"}
    [] event = "complete" -> {"running"}
    [] OTHER              -> {"queued", "running"}

\* FALSE where nextStatus throws ConflictError.
IsLegal(status, event) == status \in AllowedFrom(event)

\* What nextStatus returns where it does not throw.
NextStatus(event) ==
  CASE event = "start"    -> "running"
    [] event = "complete" -> "completed"
    [] event = "cancel"   -> "cancelled"
    [] OTHER              -> "failed"
=============================================================================
