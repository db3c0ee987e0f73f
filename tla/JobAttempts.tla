----------------------------- MODULE JobAttempts -----------------------------
(***************************************************************************)
(* One pipeline run from the inside: run_with_retry (app/common/retry.py)  *)
(* around the run() of a pipeline (app/pipeline/document_extraction and    *)
(* video_analysis), its cancellation and deadline checkpoints, the source  *)
(* it fetches and the provider calls it makes.                             *)
(*                                                                         *)
(* Both pipelines have one shape: check, fetch, read the content, then a   *)
(* number of provider rounds, each behind a checkpoint: one LLM call for a *)
(* document, the two Roboflow calls of each sampled frame for a video or a *)
(* photo; then the result is built and validated.  A checkpoint is two     *)
(* reads, first the cancel key in Redis, then the clock.  Between any two  *)
(* steps time may pass and a cancel may be recorded.                       *)
(***************************************************************************)
EXTENDS SourceFetch

CONSTANTS
    MaxAttempts,    \* RetryPolicy.max_attempts
    MaxRounds,      \* video_max_sampled_frames
    Deadline,       \* payload.deadlineAt
    Expiry,         \* download.expiresAt
    SourceUrl,      \* download.url
    Horizon         \* the time the model stops at (a bound on `now')

ASSUME AttemptAssumption ==
    /\ MaxRedirects \in Nat /\ MaxAttempts \in Nat \ {0} /\ MaxRounds \in Nat \ {0}
    /\ Deadline \in Nat /\ Expiry \in Nat /\ Horizon \in Nat
    /\ Allowed \subseteq Url /\ SourceUrl \in Url

VARIABLES
    step,           \* where the run is
    attempt,        \* the attempt it is in
    rounds,         \* provider rounds left in this attempt
    failure,        \* the code of the last PipelineFailure
    now,
    cancelled,      \* the job's cancellation intent is recorded
    lateCalls       \* rounds sent after the cancel, and after the deadline

runVars == <<step, attempt, rounds, failure>>
vars == <<fetchVars, runVars, now, cancelled, lateCalls>>

RetryableCodes == {"MODEL_PROVIDER_TIMEOUT", "MODEL_PROVIDER_UNAVAILABLE",
                   "OBJECT_STORAGE_TEMPORARILY_UNAVAILABLE"}

OtherCodes == {"UNSUPPORTED_MEDIA_TYPE", "FILE_TOO_LARGE", "ENCRYPTED_DOCUMENT_UNSUPPORTED",
               "CORRUPTED_FILE", "CONTENT_HASH_MISMATCH", "INVALID_DEADLINE",
               "INVALID_DOWNLOAD_REFERENCE"}

ErrorCode == RetryableCodes \cup OtherCodes

Working == {"start", "startDeadline", "expiry", "fetch", "read", "check", "checkDeadline",
            "call", "answer", "result", "backoff"}
Ended   == {"completed", "failed", "cancelled", "error"}

TypeOK ==
    /\ FetchTypeOK
    /\ step \in Working \cup Ended
    /\ attempt \in 1..MaxAttempts
    /\ rounds \in 0..MaxRounds
    /\ failure \in ErrorCode \cup {"NONE"}
    /\ now \in Nat
    /\ cancelled \in BOOLEAN
    /\ lateCalls \in [{"cancel", "deadline"} -> Nat]

Init ==
    /\ FetchInit(SourceUrl)
    /\ step = "start"
    /\ attempt = 1
    /\ rounds = 0
    /\ failure = "NONE"
    /\ now = 0
    /\ cancelled = FALSE
    /\ lateCalls = [w \in {"cancel", "deadline"} |-> 0]

Goto(from, to) == step = from /\ step' = to

-----------------------------------------------------------------------------
(***************************************************************************)
(* Ways out of an attempt; each leaves the with-block of fetch_source.     *)
(***************************************************************************)
MayRetry(code) == code \in RetryableCodes /\ attempt < MaxAttempts

FailAttempt(code) ==
    /\ failure' = code
    /\ \/ MayRetry(code) /\ step' = "backoff"
       \/ ~MayRetry(code) /\ step' = "failed"
    /\ Close
    /\ UNCHANGED <<attempt, rounds, now, cancelled, lateCalls>>

Fail(code) == FailAttempt(code) /\ UNCHANGED requested

\* an exception that is no PipelineFailure, from any library or client
UnexpectedError ==
    /\ step \in Working
    /\ step' = "error"
    /\ Close
    /\ UNCHANGED <<attempt, rounds, failure, requested, now, cancelled, lateCalls>>

\* after sleeper(backoff_delay): operation(attempt + 1), from the beginning
Retry ==
    /\ Goto("backoff", "start")
    /\ attempt' = attempt + 1
    /\ UNCHANGED <<fetchVars, rounds, failure, now, cancelled, lateCalls>>

-----------------------------------------------------------------------------
(***************************************************************************)
(* Checkpoints: check_cancelled() and check_deadline(), before the fetch   *)
(* and before each provider round.                                         *)
(***************************************************************************)
\* Faulty variant: the intent is only looked for in a retry.
CheckCancelledInRetry(from, to) ==
    /\ attempt = 1 \/ ~cancelled
    /\ Goto(from, to)
    /\ UNCHANGED <<fetchVars, attempt, rounds, failure, now, cancelled, lateCalls>>

\* Faulty variant: the intent is only looked for before the fetch.
CheckCancelledFirst(from, to) ==
    /\ from = "check" \/ ~cancelled
    /\ Goto(from, to)
    /\ UNCHANGED <<fetchVars, attempt, rounds, failure, now, cancelled, lateCalls>>

CheckCancelled(from, to) ==
    /\ ~cancelled
    /\ Goto(from, to)
    /\ UNCHANGED <<fetchVars, attempt, rounds, failure, now, cancelled, lateCalls>>

JobCancelled(from) ==
    /\ cancelled
    /\ Goto(from, "cancelled")
    /\ Close
    /\ UNCHANGED <<attempt, rounds, failure, requested, now, cancelled, lateCalls>>

\* Faulty variant: the deadline is only looked at in the first attempt.
CheckDeadlineOnce(from, to) ==
    /\ attempt > 1 \/ now <= Deadline
    /\ Goto(from, to)
    /\ UNCHANGED <<fetchVars, attempt, rounds, failure, now, cancelled, lateCalls>>

CheckDeadline(from, to) ==
    /\ now <= Deadline
    /\ Goto(from, to)
    /\ UNCHANGED <<fetchVars, attempt, rounds, failure, now, cancelled, lateCalls>>

DeadlinePassed(from) ==
    /\ step = from
    /\ now > Deadline
    /\ Fail("INVALID_DEADLINE")

Checkpoint(from, middle, to) ==
    \/ CheckCancelled(from, middle)
    \/ JobCancelled(from)
    \/ CheckDeadline(middle, to)
    \/ DeadlinePassed(middle)

-----------------------------------------------------------------------------
(***************************************************************************)
(* The source: fetched, then its type detected and its text or frames read.*)
(***************************************************************************)
\* _ensure_not_expired
EnsureNotExpired ==
    \/ /\ now < Expiry
       /\ Goto("expiry", "fetch")
       /\ OpenFetch(SourceUrl)
       /\ UNCHANGED <<attempt, rounds, failure, now, cancelled, lateCalls>>
    \/ /\ step = "expiry"
       /\ now >= Expiry
       /\ Fail("INVALID_DOWNLOAD_REFERENCE")

Fetch ==
    \/ /\ step = "fetch"
       /\ \/ \E u \in Url : FollowRedirect(u)
          \/ \E content \in {"right", "wrong"} : Download(content)
       /\ UNCHANGED <<runVars, now, cancelled, lateCalls>>
    \/ /\ Goto("fetch", "read")
       /\ Verify
       /\ UNCHANGED <<attempt, rounds, failure, now, cancelled, lateCalls>>
    \/ /\ step = "fetch"
       /\ \E code \in ErrorCode : FetchFails(code) /\ FailAttempt(code)

\* detect_media_type, then extract_text (with OCR, hence a provider code),
\* sample_frames or sample_image
ReadContent ==
    \/ /\ Goto("read", "check")
       /\ rounds' \in 1..MaxRounds
       /\ UNCHANGED <<fetchVars, attempt, failure, now, cancelled, lateCalls>>
    \/ /\ step = "read"
       /\ \E code \in {"UNSUPPORTED_MEDIA_TYPE", "CORRUPTED_FILE",
                       "ENCRYPTED_DOCUMENT_UNSUPPORTED", "MODEL_PROVIDER_UNAVAILABLE"} :
             Fail(code)

-----------------------------------------------------------------------------
(***************************************************************************)
(* Provider rounds.  From the checkpoint to the request itself time passes *)
(* (the retrieval of legal context, the first of a frame's two calls).     *)
(***************************************************************************)
Call ==
    /\ Goto("call", "answer")
    /\ lateCalls' = [cancel   |-> lateCalls["cancel"] + IF cancelled THEN 1 ELSE 0,
                     deadline |-> lateCalls["deadline"] + IF now > Deadline THEN 1 ELSE 0]
    /\ UNCHANGED <<fetchVars, attempt, rounds, failure, now, cancelled>>

Answer ==
    /\ step = "answer"
    /\ rounds' = rounds - 1
    /\ \/ rounds > 1 /\ step' = "check" /\ UNCHANGED <<fetch, url, hops, file>>
       \/ rounds = 1 /\ step' = "result" /\ Close
    /\ UNCHANGED <<requested, attempt, failure, now, cancelled, lateCalls>>

\* unsent when the provider is not configured
ProviderFails ==
    \/ /\ step = "call"
       /\ Fail("MODEL_PROVIDER_UNAVAILABLE")
    \/ /\ step = "answer"
       /\ \E code \in {"MODEL_PROVIDER_TIMEOUT", "MODEL_PROVIDER_UNAVAILABLE"} : Fail(code)

\* the canonical result, valid against its schema (an invalid one is an UnexpectedError)
BuildResult ==
    /\ Goto("result", "completed")
    /\ UNCHANGED <<fetchVars, attempt, rounds, failure, now, cancelled, lateCalls>>

-----------------------------------------------------------------------------
RunStep ==
    \/ Checkpoint("start", "startDeadline", "expiry")
    \/ EnsureNotExpired
    \/ Fetch
    \/ ReadContent
    \/ Checkpoint("check", "checkDeadline", "call")
    \/ Call
    \/ Answer
    \/ ProviderFails
    \/ BuildResult
    \/ Retry

RecordCancel ==
    /\ ~cancelled
    /\ cancelled' = TRUE
    /\ UNCHANGED <<fetchVars, runVars, now, lateCalls>>

Tick ==
    /\ now < Horizon
    /\ now' = now + 1
    /\ UNCHANGED <<fetchVars, runVars, cancelled, lateCalls>>

Next == RunStep \/ UnexpectedError \/ RecordCancel \/ Tick

Spec == Init /\ [][Next]_vars

(***************************************************************************)
(* The run's thread goes on: every HTTP request has a timeout, and a sleep *)
(* of backoff_delay ends.                                                  *)
(***************************************************************************)
FairSpec == Spec /\ WF_vars(RunStep)

=============================================================================
