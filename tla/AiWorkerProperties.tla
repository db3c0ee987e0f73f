-------------------------- MODULE AiWorkerProperties --------------------------
(***************************************************************************)
(* What the handlers of one job, together, must and must not do.           *)
(***************************************************************************)
EXTENDS AiWorker

(***************************************************************************)
(* The job's result is computed and durable.                               *)
(***************************************************************************)
Decided == record.state \in {"PENDING_PUBLISH", "TERMINAL"}

(***************************************************************************)
(* One result per job: whatever crashes, duplicates, takeovers and late    *)
(* renewals do, two different result events are never both published       *)
(* (idempotency.py, docstring: the LLM is not deterministic, yet a jobId   *)
(* must not get two different completed events).                           *)
(***************************************************************************)
OneResultPerJob == \A e, f \in published : e = f

(***************************************************************************)
(* A decided result is for good: no takeover, zombie or forget can replace *)
(* or erase it, and a terminal record is never written again.              *)
(***************************************************************************)
DecidedIsFinal ==
    [][Decided => /\ Decided'
                  /\ record'.event = record.event
                  /\ record'.identity = record.identity
                  /\ record.state = "TERMINAL" => UNCHANGED record]_vars

(***************************************************************************)
(* Only the process that holds the claim decides, and only on the result   *)
(* of its own run: a worker whose lease was reclaimed cannot (the ownerId  *)
(* check of commit_pending_publish and the WATCH around it).               *)
(***************************************************************************)
OwnerDecides ==
    [][~Decided /\ Decided' =>
          /\ record.state = "PROCESSING"
          /\ record'.owner = record.owner
          /\ record'.event[2] = record.owner]_vars

(***************************************************************************)
(* The workers implement the abstract promise.                             *)
(***************************************************************************)
Outcome == INSTANCE JobOutcome WITH
    Result <- Event, NoResult <- None, decided <- record.event, announced <- published

ImplementsOutcome == Outcome!Spec

(***************************************************************************)
(* A cancel that is recorded while no run is past its first checkpoint and *)
(* nothing is decided is effective: from then on no run passes it and no   *)
(* result is ever decided or published (worker.py, is_cancelled before     *)
(* the start and check_cancelled in the pipeline).                         *)
(***************************************************************************)
CancelInTime ==
    /\ cancelled
    /\ ~Decided
    /\ published = {}
    /\ \A p \in Process : pc[p] \notin {"running", "commit", "committing"}

EarlyCancelHolds == [][CancelInTime => CancelInTime']_vars

(***************************************************************************)
(* A job that is going on is not started again: at most one pipeline run   *)
(* at a time, as long as no lease lapses and no connection is lost.        *)
(***************************************************************************)
RunInProgress(p) == pc[p] \in {"started", "running"} \/ hb[p] \in {"waiting", "renewing"}

NoConcurrentRuns ==
    \A p, q \in Process : RunInProgress(p) /\ RunInProgress(q) => p = q

(***************************************************************************)
(* A run that holds its claim under a standing lease keeps it until it     *)
(* ends: no other worker's resolve, takeover, commit or forget and no late *)
(* renewal takes it away (resolve's owner-pid check of a live lease).      *)
(***************************************************************************)
RunIsOn(p) == pc[p] \in {"claimed", "started", "running"}

LiveClaimIsKept ==
    [][\A p \in Process :
          RunIsOn(p) /\ HoldsClaim(p) /\ ~record.lapsed => HoldsClaim(p)']_vars

(***************************************************************************)
(* What a handler answers belongs to the request it answers: the result it *)
(* publishes was computed for the same jobType and input hash, also when   *)
(* it was somebody else's run (resolve's CONFLICT).                        *)
(***************************************************************************)
AnswersItsRequest ==
    \A p \in Process :
        pc[p] \in {"publish", "mark", "marking", "republish"} =>
            identityOf[event[p][3]] = IdentityAt(p)

(***************************************************************************)
(* A process between two messages holds no claim: every way out of         *)
(* handle_command has finished the job, released it, or lost it to another *)
(* worker, so the next delivery is not taken for a job in progress.        *)
(***************************************************************************)
IdleHoldsNoClaim ==
    \A p \in Process : pc[p] = "idle" => ~HoldsClaim(p)

(***************************************************************************)
(* A computed result is dropped only when the claim is no longer the       *)
(* worker's (commit_pending_publish: if it fails, somebody else has        *)
(* already taken the job over or finished it).                             *)
(***************************************************************************)
DropsOnlyIfTakenOver ==
    [][\A p \in Process :
          pc[p] \in {"commit", "committing"} /\ pc'[p] = "settle" => ~HoldsClaim(p)]_vars

(***************************************************************************)
(* A claim whose owner has crashed can still be taken over: some request   *)
(* for the job is yet to be handled (idempotency.py: if a worker crashes   *)
(* before it finishes, another can take the job over once the lease is     *)
(* out; it is not IN_PROGRESS forever).                                    *)
(***************************************************************************)
CrashedClaimIsReachable ==
    \A p \in Process :
        HoldsClaim(p) /\ pc[p] = "down" =>
            \E d \in Request : delivery[d] \in {"unsent", "ready", "unacked"}

(***************************************************************************)
(* Every command is settled in the end, by an ack or in the dead-letter    *)
(* queue, whichever processes die, as long as one lives.                   *)
(***************************************************************************)
EveryCommandSettles ==
    \A d \in Delivery : delivery[d] = "ready" ~> delivery[d] \in {"acked", "dead"}

(***************************************************************************)
(* Every request leads somewhere: to a published result, unless the job is *)
(* cancelled, a message is left in the dead-letter queue for it, or a      *)
(* worker is lost.  A lost worker can leave its claim behind, or forget it *)
(* only after the request has been redelivered and acked as in progress:   *)
(* then nothing answers (see CrashedClaimIsReachable).                     *)
(***************************************************************************)
Answered ==
    \/ published # {}
    \/ cancelled
    \/ \E d \in Request : delivery[d] = "dead"
    \/ connected # Process

EveryRequestAnswered ==
    \A d \in Request : delivery[d] = "ready" ~> Answered

-----------------------------------------------------------------------------
(***************************************************************************)
(* Why it works: an inductive invariant, in the parts it is made of.       *)
(***************************************************************************)
Resolving == {"resolve", "takeover"}
Running   == {"claimed", "started", "running"}
Committing == {"commit", "committing"}
Answering == {"publish", "mark", "marking", "republish"}
Releasing == {"forget", "forgetting"}

\* A handler past validation works on a request.
HandlersHoldMessages ==
    \A p \in Process :
        /\ pc[p] \in {"received", "settle"} => msg[p] \in Delivery
        /\ pc[p] \in Resolving \cup Running \cup Committing \cup Answering \cup Releasing =>
              msg[p] \in Request

\* The record carries a result exactly when the job is decided, and that result
\* was computed for the identity the record is kept under.
RecordCarriesResult ==
    /\ Decided => record.event \in Event /\ record.identity = identityOf[record.event[3]]
    /\ ~Decided => record.event = None
    /\ record.lapsed => record.state = "PROCESSING"
    /\ record.state = "TERMINAL" => record.owner = None

\* Only the recorded result is published, or about to be.
OnlyRecordedIsPublished ==
    /\ \A e \in published : Decided /\ record.event = e
    /\ \A p \in Process : pc[p] \in Answering =>
          Decided /\ event[p] = record.event /\ record.identity = IdentityAt(p)

\* A run's claim is kept under the identity of the request it serves, and the
\* result it commits is its own.
RunsServeTheirRequest ==
    \A p \in Process :
        /\ pc[p] \in Running \cup Committing /\ HoldsClaim(p) => record.identity = IdentityAt(p)
        /\ pc[p] \in Committing => /\ event[p] \in Event
                                   /\ event[p][2] = p
                                   /\ event[p][3] = msg[p]

\* While a WATCH holds, what its thread read is still true.
WatchedIsUnchanged ==
    \A p \in Process :
        /\ Main(p) \in watching =>
              /\ pc[p] \in {"committing", "forgetting"} => HoldsClaim(p)
              /\ pc[p] = "marking" => HoldsLease(p)
              /\ pc[p] = "takeover" => SeesTakeover(IdentityAt(p))
        /\ Beat(p) \in watching /\ hb[p] \in {"renewing", "late"} => HoldsLease(p)

\* The invariant that carries the safety theorems.
SafetyInvariant ==
    /\ TypeOK
    /\ HandlersHoldMessages
    /\ RecordCarriesResult
    /\ OnlyRecordedIsPublished
    /\ RunsServeTheirRequest
    /\ WatchedIsUnchanged

-----------------------------------------------------------------------------
(***************************************************************************)
(* Why a claim is released, while no renewal outlives its join: only the   *)
(* thread that runs or ends the job holds it, its heartbeat is over before *)
(* it commits or forgets, and so nothing but a takeover can come between   *)
(* its WATCH and its EXEC.  A handler whose connection broke under a run   *)
(* (PumpFails) leaves its heartbeat behind; it takes no further message.   *)
(***************************************************************************)
CutOff(p, phases) == p \notin connected /\ pc[p] \in phases

HeartbeatEndsWithRun ==
    \A p \in Process :
        /\ hb[p] \in {"waiting", "renewing"} =>
              pc[p] \in {"started", "running"} \/ CutOff(p, Releasing \cup {"settle"})
        /\ hb[p] = "late" => pc[p] \in {"commit", "forget"}

ClaimIsWorkedOn ==
    \A p \in Process :
        HoldsClaim(p) =>
            \/ pc[p] \in Running \cup Committing \cup Releasing \cup {"down"}
            \/ CutOff(p, {"settle"})

OwnWatchStands ==
    \A p \in Process :
        HoldsClaim(p) /\ pc[p] \in {"committing", "forgetting"} =>
            Main(p) \in watching \/ CutOff(p, {"forgetting"})

ReleaseInvariant == HeartbeatEndsWithRun /\ ClaimIsWorkedOn /\ OwnWatchStands

(***************************************************************************)
(* Why a job runs once at a time, while no lease lapses and no connection  *)
(* is lost: a heartbeat belongs to a run, and a run to the holder of the   *)
(* claim.                                                                  *)
(***************************************************************************)
RunInvariant ==
    /\ connected = Process
    /\ ~record.lapsed
    /\ \A p \in Process :
          /\ hb[p] \in {"waiting", "renewing"} => pc[p] \in {"started", "running"}
          /\ pc[p] \in Running => HoldsClaim(p)

=============================================================================
