-------------------------- MODULE JobAttemptsProofs --------------------------
(***************************************************************************)
(* AttemptInvariant is inductive for every number of attempts, rounds and  *)
(* redirects, every set of URLs, deadline and expiry; the safety           *)
(* properties of JobAttemptsProperties and the refinement of PipelineRun   *)
(* follow from it.                                                         *)
(***************************************************************************)
EXTENDS JobAttemptsProperties, TLAPS

LEMMA AttemptInitially == Init => AttemptInvariant
<1> SUFFICES ASSUME Init PROVE AttemptInvariant
  OBVIOUS
<1> USE AttemptAssumption DEF Init, FetchInit
<1>1. TypeOK
  <2>1. lateCalls \in [{"cancel", "deadline"} -> Nat]
    OBVIOUS
  <2>2. attempt \in 1..MaxAttempts /\ rounds \in 0..MaxRounds /\ now \in Nat
    OBVIOUS
  <2>3. FetchTypeOK
    BY DEF FetchTypeOK
  <2>. QED  BY <2>1, <2>2, <2>3 DEF TypeOK, Working
<1>2. LateOnce
  BY DEF LateOnce
<1>. QED
  BY <1>1, <1>2
     DEF AttemptInvariant, FileFollowsStep, RetriesOnlyTransient, RequestsOnlyAllowed, Reading

(***************************************************************************)
(* Leaving an attempt, by a failure or for good, keeps the invariant       *)
(* whatever the place it is left from.                                     *)
(***************************************************************************)
LEMMA FailurePreserves ==
    ASSUME AttemptInvariant, NEW code \in ErrorCode, FailAttempt(code),
           requested' \subseteq Allowed
    PROVE  AttemptInvariant'
<1> USE AttemptAssumption DEF AttemptInvariant, FailAttempt, Close
<1>1. TypeOK'
  BY DEF TypeOK, FetchTypeOK, Working, Ended
<1>2. step' \in {"backoff", "failed"}
  OBVIOUS
<1>3. FileFollowsStep' /\ RequestsOnlyAllowed' /\ LateOnce'
  BY <1>2 DEF FileFollowsStep, Reading, RequestsOnlyAllowed, LateOnce
<1>4. RetriesOnlyTransient'
  BY DEF RetriesOnlyTransient, MayRetry, TypeOK, ErrorCode
<1>. QED  BY <1>1, <1>2, <1>3, <1>4 DEF Reading

LEMMA UnsentFailurePreserves ==
    ASSUME AttemptInvariant, NEW code \in ErrorCode, Fail(code)
    PROVE  AttemptInvariant'
BY FailurePreserves DEF Fail, AttemptInvariant, RequestsOnlyAllowed

(***************************************************************************)
(* The two checkpoints, wherever they are taken.                           *)
(***************************************************************************)
LEMMA CheckpointPreserves ==
    ASSUME AttemptInvariant,
           NEW from, NEW middle, NEW to,
           <<from, middle, to>> \in {<<"start", "startDeadline", "expiry">>,
                                     <<"check", "checkDeadline", "call">>},
           Checkpoint(from, middle, to)
    PROVE  AttemptInvariant'
<1> USE AttemptAssumption
<1>0. \/ from = "start" /\ middle = "startDeadline" /\ to = "expiry"
      \/ from = "check" /\ middle = "checkDeadline" /\ to = "call"
  OBVIOUS
<1>1. CASE CheckCancelled(from, middle)
  BY <1>0, <1>1
     DEF CheckCancelled, Goto, AttemptInvariant, TypeOK, FetchTypeOK, FileFollowsStep, LateOnce,
         RetriesOnlyTransient, RequestsOnlyAllowed, Working, Ended, Reading, fetchVars
<1>2. CASE JobCancelled(from)
  BY <1>0, <1>2
     DEF JobCancelled, Goto, Close, AttemptInvariant, TypeOK, FetchTypeOK, FileFollowsStep,
         LateOnce, RetriesOnlyTransient, RequestsOnlyAllowed, Working, Ended, Reading
<1>3. CASE CheckDeadline(middle, to)
  <2> USE DEF CheckDeadline, Goto, AttemptInvariant, TypeOK, FetchTypeOK, fetchVars
  <2>1. LateOnce'
    BY <1>0, <1>3 DEF LateOnce
  <2>. QED
    BY <1>0, <1>3, <2>1
       DEF FileFollowsStep, RetriesOnlyTransient, RequestsOnlyAllowed, Working, Ended, Reading
<1>4. CASE DeadlinePassed(middle)
  BY <1>4, UnsentFailurePreserves DEF DeadlinePassed, ErrorCode, OtherCodes
<1>. QED  BY <1>1, <1>2, <1>3, <1>4 DEF Checkpoint

LEMMA FetchPreserves ==
    ASSUME AttemptInvariant, Fetch
    PROVE  AttemptInvariant'
<1> USE AttemptAssumption
<1>1. ASSUME step = "fetch", UNCHANGED <<runVars, now, cancelled, lateCalls>>,
             \/ \E u \in Url : FollowRedirect(u)
             \/ \E content \in {"right", "wrong"} : Download(content)
      PROVE  AttemptInvariant'
  BY <1>1
     DEF FollowRedirect, Download, Request, MayRequest, runVars, AttemptInvariant, TypeOK,
         FetchTypeOK, FileFollowsStep, LateOnce, RetriesOnlyTransient, RequestsOnlyAllowed,
         Working, Ended, Reading
<1>2. ASSUME Goto("fetch", "read"), Verify,
             UNCHANGED <<attempt, rounds, failure, now, cancelled, lateCalls>>
      PROVE  AttemptInvariant'
  BY <1>2
     DEF Goto, Verify, AttemptInvariant, TypeOK, FetchTypeOK, FileFollowsStep, LateOnce,
         RetriesOnlyTransient, RequestsOnlyAllowed, Working, Ended, Reading
<1>3. ASSUME NEW code \in ErrorCode, FetchFails(code), FailAttempt(code)
      PROVE  AttemptInvariant'
  <2>1. requested' \subseteq Allowed
    BY <1>3
       DEF FetchFails, FailsUnsent, FailsAsked, FailsVerified, Request, MayRequest,
           AttemptInvariant, RequestsOnlyAllowed
  <2>. QED  BY <1>3, <2>1, FailurePreserves
<1>. QED  BY <1>1, <1>2, <1>3 DEF Fetch

LEMMA AttemptStep == AttemptInvariant /\ [Next]_vars => AttemptInvariant'
<1> SUFFICES ASSUME AttemptInvariant, [Next]_vars PROVE AttemptInvariant'
  OBVIOUS
<1> USE AttemptAssumption
<1>1. CASE Checkpoint("start", "startDeadline", "expiry")
  BY <1>1, CheckpointPreserves
<1>2. CASE Checkpoint("check", "checkDeadline", "call")
  BY <1>2, CheckpointPreserves
<1>3. CASE EnsureNotExpired
  <2>1. CASE step = "expiry" /\ Fail("INVALID_DOWNLOAD_REFERENCE")
    BY <2>1, UnsentFailurePreserves DEF ErrorCode, OtherCodes
  <2>2. CASE /\ Goto("expiry", "fetch")
             /\ OpenFetch(SourceUrl)
             /\ UNCHANGED <<attempt, rounds, failure, now, cancelled, lateCalls>>
    BY <2>2
       DEF Goto, OpenFetch, AttemptInvariant, TypeOK, FetchTypeOK, FileFollowsStep, LateOnce,
           RetriesOnlyTransient, RequestsOnlyAllowed, Working, Ended, Reading
  <2>. QED  BY <1>3, <2>1, <2>2 DEF EnsureNotExpired
<1>4. CASE Fetch
  BY <1>4, FetchPreserves
<1>5. CASE ReadContent
  <2>1. CASE \E code \in ErrorCode : Fail(code)
    BY <2>1, UnsentFailurePreserves
  <2>2. CASE /\ Goto("read", "check")
             /\ rounds' \in 1..MaxRounds
             /\ UNCHANGED <<fetchVars, attempt, failure, now, cancelled, lateCalls>>
    BY <2>2
       DEF Goto, fetchVars, AttemptInvariant, TypeOK, FetchTypeOK, FileFollowsStep, LateOnce,
           RetriesOnlyTransient, RequestsOnlyAllowed, Working, Ended, Reading
  <2>. QED  BY <1>5, <2>1, <2>2 DEF ReadContent, ErrorCode, RetryableCodes, OtherCodes
<1>6. CASE Call
  <2> USE <1>6 DEF Call, Goto, fetchVars, AttemptInvariant, TypeOK
  \* no late round before this one: its checkpoint would have stopped it
  <2>1. LateOnce'
    BY DEF LateOnce
  <2>2. TypeOK'
    BY DEF FetchTypeOK, Working
  <2>. QED
    BY <2>1, <2>2
       DEF FetchTypeOK, FileFollowsStep, RetriesOnlyTransient, RequestsOnlyAllowed, Working,
           Ended, Reading
<1>7. CASE Answer
  BY <1>7
     DEF Answer, Close, AttemptInvariant, TypeOK, FetchTypeOK, FileFollowsStep, LateOnce,
         RetriesOnlyTransient, RequestsOnlyAllowed, Working, Ended, Reading
<1>8. CASE ProviderFails
  BY <1>8, UnsentFailurePreserves DEF ProviderFails, ErrorCode, RetryableCodes
<1>9. CASE BuildResult
  BY <1>9
     DEF BuildResult, Goto, fetchVars, AttemptInvariant, TypeOK, FetchTypeOK, FileFollowsStep,
         LateOnce, RetriesOnlyTransient, RequestsOnlyAllowed, Working, Ended, Reading
<1>10. CASE Retry
  BY <1>10
     DEF Retry, Goto, fetchVars, AttemptInvariant, TypeOK, FetchTypeOK, FileFollowsStep,
         LateOnce, RetriesOnlyTransient, RequestsOnlyAllowed, Working, Ended, Reading
<1>11. CASE UnexpectedError
  BY <1>11
     DEF UnexpectedError, Close, AttemptInvariant, TypeOK, FetchTypeOK, FileFollowsStep,
         LateOnce, RetriesOnlyTransient, RequestsOnlyAllowed, Working, Ended, Reading
<1>12. CASE RecordCancel
  BY <1>12
     DEF RecordCancel, fetchVars, runVars, AttemptInvariant, TypeOK, FetchTypeOK,
         FileFollowsStep, LateOnce, RetriesOnlyTransient, RequestsOnlyAllowed
<1>13. CASE Tick
  BY <1>13
     DEF Tick, fetchVars, runVars, AttemptInvariant, TypeOK, FetchTypeOK,
         FileFollowsStep, LateOnce, RetriesOnlyTransient, RequestsOnlyAllowed
<1>14. CASE UNCHANGED vars
  BY <1>14
     DEF vars, fetchVars, runVars, AttemptInvariant, TypeOK, FetchTypeOK,
         FileFollowsStep, LateOnce, RetriesOnlyTransient, RequestsOnlyAllowed
<1>. QED
  BY <1>1, <1>2, <1>3, <1>4, <1>5, <1>6, <1>7, <1>8, <1>9, <1>10, <1>11, <1>12,
     <1>13, <1>14
  DEF Next, RunStep

(***************************************************************************)
(* The inductive invariant holds in every run.                             *)
(***************************************************************************)
THEOREM AttemptsKeepInvariant == Spec => []AttemptInvariant
BY AttemptInitially, AttemptStep, PTL DEF Spec

(***************************************************************************)
(* At most one provider round is sent after a cancel, over all the         *)
(* attempts of a run (retry.py:51-61, video_analysis/pipeline.py:75-76).   *)
(***************************************************************************)
THEOREM CancelChecked == Spec => []CancelStopsCalls
<1>1. AttemptInvariant => CancelStopsCalls
  BY DEF AttemptInvariant, LateOnce, CancelStopsCalls
<1>. QED  BY <1>1, AttemptsKeepInvariant, PTL

(***************************************************************************)
(* At most one provider round is sent after the deadline                   *)
(* (deadline.py:21-29 at every checkpoint).                                *)
(***************************************************************************)
THEOREM DeadlineChecked == Spec => []DeadlineStopsCalls
<1>1. AttemptInvariant => DeadlineStopsCalls
  BY DEF AttemptInvariant, LateOnce, DeadlineStopsCalls
<1>. QED  BY <1>1, AttemptsKeepInvariant, PTL

(***************************************************************************)
(* Neither a cancel nor the deadline is followed by more than the one      *)
(* round that had passed its checkpoint                                    *)
(* (video_analysis/pipeline.py:72-78).                                     *)
(***************************************************************************)
THEOREM ChecksAreHeeded == Spec => []ChecksStopCalls
BY CancelChecked, DeadlineChecked, PTL DEF ChecksStopCalls

(***************************************************************************)
(* No temporary file outlives the attempt that fetched it                  *)
(* (object_store.py:191-199).                                              *)
(***************************************************************************)
THEOREM FilesAreDeleted == Spec => []NoFileLeftBehind
<1>1. AttemptInvariant => NoFileLeftBehind
  BY DEF AttemptInvariant, FileFollowsStep, NoFileLeftBehind
<1>. QED  BY <1>1, AttemptsKeepInvariant, PTL

(***************************************************************************)
(* No content is analysed that was not verified against the request        *)
(* (object_store.py:181-189).                                              *)
(***************************************************************************)
THEOREM SourceIsVerified == Spec => []OnlyVerifiedIsAnalysed
<1>1. AttemptInvariant => OnlyVerifiedIsAnalysed
  BY DEF AttemptInvariant, FileFollowsStep, OnlyVerifiedIsAnalysed
<1>. QED  BY <1>1, AttemptsKeepInvariant, PTL

(***************************************************************************)
(* No request leaves for a rejected URL, redirects included                *)
(* (object_store.py:87-116).                                               *)
(***************************************************************************)
THEOREM UrlsAreChecked == Spec => []RequestsOnlyAllowed
<1>1. AttemptInvariant => RequestsOnlyAllowed
  BY DEF AttemptInvariant
<1>. QED  BY <1>1, AttemptsKeepInvariant, PTL

-----------------------------------------------------------------------------
(***************************************************************************)
(* Cancellation: a run that still has a check ahead of it when the intent  *)
(* is recorded keeps having one until it ends without a result.            *)
(***************************************************************************)
LEMMA CancelledInTimeStays ==
    AttemptInvariant /\ CancelledInTime /\ [Next]_vars => CancelledInTime'
<1> SUFFICES ASSUME AttemptInvariant, CancelledInTime, [Next]_vars PROVE CancelledInTime'
  OBVIOUS
<1> USE AttemptAssumption DEF AttemptInvariant, CancelledInTime, NoCheckAhead
<1>1. ASSUME NEW code, FailAttempt(code) PROVE CancelledInTime'
  BY <1>1 DEF FailAttempt
<1>2. CASE \/ Checkpoint("start", "startDeadline", "expiry")
           \/ Checkpoint("check", "checkDeadline", "call")
  BY <1>1, <1>2
     DEF Checkpoint, CheckCancelled, JobCancelled, CheckDeadline, DeadlinePassed, Fail, Goto
<1>3. CASE EnsureNotExpired
  BY <1>1, <1>3 DEF EnsureNotExpired, Goto, Fail
<1>4. CASE Fetch
  BY <1>1, <1>4 DEF Fetch, Goto, runVars
<1>5. CASE ReadContent
  BY <1>1, <1>5 DEF ReadContent, Goto, Fail
<1>6. CASE Call
  BY <1>6 DEF Call, Goto
<1>7. CASE Answer
  BY <1>7 DEF Answer
<1>8. CASE ProviderFails
  BY <1>1, <1>8 DEF ProviderFails, Fail
<1>9. CASE BuildResult
  BY <1>9 DEF BuildResult, Goto
<1>10. CASE Retry
  BY <1>10 DEF Retry, Goto
<1>11. CASE UnexpectedError
  BY <1>11 DEF UnexpectedError
<1>12. CASE RecordCancel \/ Tick
  BY <1>12 DEF RecordCancel, Tick, runVars
<1>13. CASE UNCHANGED vars
  BY <1>13 DEF vars, runVars
<1>. QED
  BY <1>2, <1>3, <1>4, <1>5, <1>6, <1>7, <1>8, <1>9, <1>10, <1>11, <1>12, <1>13 DEF Next, RunStep

(***************************************************************************)
(* A cancel recorded while a checkpoint is ahead prevents a result, for    *)
(* any number of attempts and rounds (retry.py:51, document_extraction     *)
(* pipeline.py:130-146).                                                   *)
(***************************************************************************)
THEOREM CancelIsHonoured == Spec => CancelPreventsResult
<1>1. CancelledInTime => step # "completed"
  BY DEF CancelledInTime, NoCheckAhead
<1>. QED
  BY <1>1, AttemptsKeepInvariant, CancelledInTimeStays, PTL DEF Spec, CancelPreventsResult

-----------------------------------------------------------------------------
(***************************************************************************)
(* Every step of a run is a step of PipelineRun, or none of its business.  *)
(***************************************************************************)
LEMMA RunStepSimulated == AttemptInvariant /\ [Next]_vars => [Run!Next]_Run!vars
<1> SUFFICES ASSUME AttemptInvariant, [Next]_vars PROVE [Run!Next]_Run!vars
  OBVIOUS
<1> USE DEF Run!vars, Phase, Working, Ended
<1>1. ASSUME NEW code, FailAttempt(code), step \in Working, step # "start"
      PROVE  [Run!Next]_Run!vars
  BY <1>1 DEF FailAttempt, Run!Next, Run!PipelineEnds
<1>2. CASE Checkpoint("start", "startDeadline", "expiry")
  <2>1. CASE CheckCancelled("start", "startDeadline")
    BY <1>2, <2>1 DEF CheckCancelled, Goto, Run!Next, Run!FirstCheckpoint
  <2>2. CASE JobCancelled("start")
    BY <1>2, <2>2 DEF JobCancelled, Goto, Run!Next, Run!JobCancelled
  <2>3. CASE CheckDeadline("startDeadline", "expiry")
    BY <2>3 DEF CheckDeadline, Goto
  <2>4. CASE DeadlinePassed("startDeadline")
    BY <2>4, <1>1 DEF DeadlinePassed, Fail
  <2>. QED  BY <1>2, <2>1, <2>2, <2>3, <2>4 DEF Checkpoint
<1>3. CASE Checkpoint("check", "checkDeadline", "call")
  <2>1. CASE CheckCancelled("check", "checkDeadline")
    BY <2>1 DEF CheckCancelled, Goto
  <2>2. CASE JobCancelled("check")
    BY <2>2 DEF JobCancelled, Goto, Run!Next, Run!JobCancelled
  <2>3. CASE CheckDeadline("checkDeadline", "call")
    BY <2>3 DEF CheckDeadline, Goto
  <2>4. CASE DeadlinePassed("checkDeadline")
    BY <2>4, <1>1 DEF DeadlinePassed, Fail
  <2>. QED  BY <1>3, <2>1, <2>2, <2>3, <2>4 DEF Checkpoint
<1>4. CASE EnsureNotExpired
  BY <1>1, <1>4 DEF EnsureNotExpired, Goto, Fail
<1>5. CASE Fetch
  BY <1>1, <1>5 DEF Fetch, Goto, runVars
<1>6. CASE ReadContent
  BY <1>1, <1>6 DEF ReadContent, Goto, Fail
<1>7. CASE Call
  BY <1>7 DEF Call, Goto
<1>8. CASE Answer
  BY <1>8 DEF Answer
<1>9. CASE ProviderFails
  BY <1>1, <1>9 DEF ProviderFails, Fail
<1>10. CASE BuildResult
  BY <1>10 DEF BuildResult, Goto, Run!Next, Run!PipelineEnds
<1>11. CASE Retry
  \* the next attempt is not the first one: the phase stays "running"
  BY <1>11 DEF Retry, Goto, AttemptInvariant, TypeOK
<1>12. CASE UnexpectedError
  BY <1>12 DEF UnexpectedError, Run!Next, Run!UnexpectedError
<1>13. CASE RecordCancel
  BY <1>13 DEF RecordCancel, runVars, Run!Next, Run!Cancel
<1>14. CASE Tick \/ UNCHANGED vars
  BY <1>14 DEF Tick, vars, runVars
<1>. QED
  BY <1>2, <1>3, <1>4, <1>5, <1>6, <1>7, <1>8, <1>9, <1>10, <1>11, <1>12, <1>13, <1>14
     DEF Next, RunStep

(***************************************************************************)
(* run_with_retry around a pipeline is what AiWorker takes it for: it      *)
(* passes its first checkpoint, and then ends, as PipelineRun says         *)
(* (worker.py:241-260).                                                    *)
(***************************************************************************)
THEOREM RunsAsPromised == Spec => ImplementsRun
<1>1. Init => Run!Init
  BY DEF Init, Run!Init, Phase, Ended
<1>. QED
  BY <1>1, AttemptsKeepInvariant, RunStepSimulated, PTL DEF Spec, ImplementsRun, Run!Spec

=============================================================================
