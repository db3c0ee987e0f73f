------------------------ MODULE JobAttemptsProperties ------------------------
(***************************************************************************)
(* What one pipeline run, over all its attempts, must and must not do.     *)
(***************************************************************************)
EXTENDS JobAttempts

\* where the body of the with-block of fetch_source is
Reading == {"read", "check", "checkDeadline", "call", "answer"}

(***************************************************************************)
(* After a cancel is recorded, at most the provider round that had already *)
(* passed its checkpoint is still sent, whatever retries follow            *)
(* (video_analysis/pipeline.py:72-74: no provider call for those left).    *)
(***************************************************************************)
CancelStopsCalls == lateCalls["cancel"] <= 1

(***************************************************************************)
(* The same for the deadline: the checkpoints are taken again in every     *)
(* attempt, so no retry calls a provider for an expired job                *)
(* (deadline.py:8-12).                                                     *)
(***************************************************************************)
DeadlineStopsCalls == lateCalls["deadline"] <= 1

(***************************************************************************)
(* Both: what a checkpoint asks for stops the calls of every attempt after *)
(* it (deadline.py:8-12, cancellation.py:1-14).                            *)
(***************************************************************************)
ChecksStopCalls == CancelStopsCalls /\ DeadlineStopsCalls

(***************************************************************************)
(* The temporary copy is gone whenever no attempt is reading it: during a  *)
(* backoff and however the run ended (object_store.py:155, 197-199).       *)
(***************************************************************************)
NoFileLeftBehind ==
    file # "absent" => step \in Reading \cup {"fetch"}

(***************************************************************************)
(* No provider sees, and no result is built from, content other than the   *)
(* one the request declared, also when attempts download it again.         *)
(***************************************************************************)
OnlyVerifiedIsAnalysed ==
    step \in Reading => file = "right"

(***************************************************************************)
(* No HTTP request goes to a URL validate_download_url rejects, whatever   *)
(* the redirects (object_store.py:76-80).                                  *)
(***************************************************************************)
RequestsOnlyAllowed == requested \subseteq Allowed

(***************************************************************************)
(* A cancel recorded while a checkpoint is still ahead prevents a result,  *)
(* across attempts too: a run completes in spite of one only when it came  *)
(* after the last round's check (worker.py:265-270, the late result).      *)
(***************************************************************************)
NoCheckAhead ==
    \/ step \in {"result", "completed"}
    \/ step \in {"checkDeadline", "call", "answer"} /\ rounds = 1

CancelledInTime == cancelled /\ ~NoCheckAhead

CancelPreventsResult == [](CancelledInTime => [](step # "completed"))

(***************************************************************************)
(* The run ends: redirects, rounds and attempts are all bounded.           *)
(***************************************************************************)
RunEnds == <>(step \in Ended)

(***************************************************************************)
(* A run is what AiWorker takes it for.                                    *)
(***************************************************************************)
Phase == IF step \in Ended THEN step
         ELSE IF step = "start" /\ attempt = 1 THEN "started" ELSE "running"

Run == INSTANCE PipelineRun WITH phase <- Phase

ImplementsRun == Run!Spec

-----------------------------------------------------------------------------
(***************************************************************************)
(* Why it works: an inductive invariant, in the parts it is made of.       *)
(***************************************************************************)
\* The source is held exactly while it is fetched and read.
FileFollowsStep ==
    /\ step = "fetch" => fetch \in {"requesting", "served"}
    /\ step \in Reading => fetch = "open" /\ file = "right"
    /\ step \notin Reading \cup {"fetch"} => fetch = "closed" /\ file = "absent"

\* A round is late once: no later checkpoint lets another one pass.
LateOnce ==
    /\ \/ lateCalls["cancel"] = 0
       \/ lateCalls["cancel"] = 1 /\ cancelled /\ step \notin {"checkDeadline", "call"}
    /\ \/ lateCalls["deadline"] = 0
       \/ lateCalls["deadline"] = 1 /\ now > Deadline /\ step # "call"

\* A run that fails on a transient code has used every attempt (retry.py:3-7).
RetriesOnlyTransient ==
    /\ step = "backoff" => failure \in RetryableCodes /\ attempt < MaxAttempts
    /\ step = "failed" => failure \in OtherCodes \/ attempt = MaxAttempts

AttemptInvariant ==
    /\ TypeOK
    /\ FileFollowsStep
    /\ LateOnce
    /\ RetriesOnlyTransient
    /\ RequestsOnlyAllowed
    /\ step \in Reading \ {"read"} => rounds # 0

=============================================================================
