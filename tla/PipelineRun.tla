----------------------------- MODULE PipelineRun -----------------------------
(***************************************************************************)
(* What AiWorker takes one pipeline run (run_with_retry around a pipeline) *)
(* for: it passes its first checkpoint only if no cancel is recorded, it   *)
(* ends as cancelled only if one is, and it produces no result before that *)
(* checkpoint.                                                             *)
(***************************************************************************)
VARIABLES
    phase,          \* "started" until the first checkpoint is passed
    cancelled       \* the job's cancellation intent is recorded

vars == <<phase, cancelled>>

Init == phase = "started" /\ cancelled = FALSE

Cancel == ~cancelled /\ cancelled' = TRUE /\ UNCHANGED phase

FirstCheckpoint ==
    /\ phase = "started"
    /\ ~cancelled
    /\ phase' = "running"
    /\ UNCHANGED cancelled

JobCancelled ==
    /\ phase \in {"started", "running"}
    /\ cancelled
    /\ phase' = "cancelled"
    /\ UNCHANGED cancelled

\* a completed event, or the last PipelineFailure
PipelineEnds ==
    /\ phase = "running"
    /\ phase' \in {"completed", "failed"}
    /\ UNCHANGED cancelled

UnexpectedError ==
    /\ phase \in {"started", "running"}
    /\ phase' = "error"
    /\ UNCHANGED cancelled

Next == Cancel \/ FirstCheckpoint \/ JobCancelled \/ PipelineEnds \/ UnexpectedError

Spec == Init /\ [][Next]_vars

=============================================================================
