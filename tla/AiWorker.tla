------------------------------ MODULE AiWorker ------------------------------
(***************************************************************************)
(* The worker processes of app/worker.py handling the commands of one job. *)
(*                                                                         *)
(* Each process runs handle_command on one delivery at a time, as the      *)
(* phases named by pc; a pipeline run has a lease heartbeat thread beside  *)
(* it (hb).  The handlers meet in the shared record (RedisJobStore), at    *)
(* the broker (CommandBroker) and in the cancellation intent.              *)
(*                                                                         *)
(* One jobId is enough: every key and every message names one job, and     *)
(* handlers of different jobs share nothing but the processes' time.       *)
(***************************************************************************)
EXTENDS RedisJobStore, CommandBroker

CONSTANTS
    Request,            \* the deliveries that are ai.job.requested commands ...
    Cancel,             \* ... and those that are ai.job.cancel.requested
    Invalid,            \* deliveries that fail parsing or contract validation
    Identity,           \* the <jobType, input.sha256> pairs requests carry
    identityOf,         \* identityOf[d], for a request d
    Mortal,             \* processes that may crash or lose their connection
    LeaseMayLapse,      \* whether a lease can lapse while it is held
    JoinMayTimeOut      \* whether a renewal can outlive thread.join(timeout=1.0)

(***************************************************************************)
(* The result a pipeline run leads to.  No run happens twice, and an LLM   *)
(* gives two runs different results, so a result is named for its run.     *)
(***************************************************************************)
Event == {"completed", "failed"} \X Process \X Request

ASSUME ConstantsAssumption ==
    /\ Delivery = Request \cup Cancel
    /\ Request \cap Cancel = {}
    /\ Invalid \subseteq Delivery
    /\ identityOf \in [Request -> Identity]
    /\ Mortal \subseteq Process
    /\ LeaseMayLapse \in BOOLEAN
    /\ JoinMayTimeOut \in BOOLEAN

ASSUME NoneAssumption == None \notin Process \cup Identity \cup Delivery \cup Event

VARIABLES
    cancelled,          \* the job's key in the CancellationStore exists
    pc,                 \* where handle_command of each process is
    msg,                \* the delivery it works on
    event,              \* the result event it holds
    verdict,            \* the ack or nack its handling will end with
    hb                  \* the lease heartbeat thread of its run

handlerVars == <<pc, msg, event, verdict>>
vars == <<storeVars, brokerVars, cancelled, handlerVars, hb>>

Phase == {"idle", "received", "resolve", "takeover", "claimed", "started", "running",
          "commit", "committing", "publish", "mark", "marking", "republish",
          "forget", "forgetting", "settle", "down"}

\* "late": told to stop with a renewal still in flight
Heartbeat == {"off", "waiting", "renewing", "late"}

RecordType == [state : {"ABSENT", "PROCESSING", "PENDING_PUBLISH", "TERMINAL"},
               owner : Process \cup {None}, identity : Identity \cup {None},
               lapsed : BOOLEAN, event : Event \cup {None}]

TypeOK ==
    /\ record \in RecordType
    /\ watching \subseteq Thread
    /\ delivery \in [Delivery -> DeliveryStatus]
    /\ connected \subseteq Process
    /\ published \subseteq Event
    /\ cancelled \in BOOLEAN
    /\ pc \in [Process -> Phase]
    /\ msg \in [Process -> Delivery \cup {None}]
    /\ event \in [Process -> Event \cup {None}]
    /\ verdict \in [Process -> {"ack", "nack"}]
    /\ hb \in [Process -> Heartbeat]

Init ==
    /\ StoreInit
    /\ BrokerInit(Process)
    /\ cancelled = FALSE
    /\ pc = [p \in Process |-> "idle"]
    /\ msg = [p \in Process |-> None]
    /\ event = [p \in Process |-> None]
    /\ verdict = [p \in Process |-> "ack"]
    /\ hb = [p \in Process |-> "off"]

-----------------------------------------------------------------------------
(***************************************************************************)
(* Steps of handle_command.                                                *)
(***************************************************************************)
Goto(p, from, to) == pc[p] = from /\ pc' = [pc EXCEPT ![p] = to]
Decide(p, v)      == verdict' = [verdict EXCEPT ![p] = v]
Hold(p, e)        == event' = [event EXCEPT ![p] = e]
IdentityAt(p)     == identityOf[msg[p]]

Dispatch(p, d) ==
    /\ Goto(p, "idle", "received")
    /\ Deliver(p, d)
    /\ msg' = [msg EXCEPT ![p] = d]
    /\ UNCHANGED <<storeVars, cancelled, event, verdict, hb>>

\* not JSON, not the schema, or not consistent with its routing key and producer
RejectInvalid(p) ==
    /\ msg[p] \in Invalid
    /\ Goto(p, "received", "settle")
    /\ Decide(p, "nack")
    /\ UNCHANGED <<storeVars, brokerVars, cancelled, msg, event, hb>>

MarkCancelled(p) ==
    /\ msg[p] \in Cancel \ Invalid
    /\ Goto(p, "received", "settle")
    /\ cancelled' = TRUE
    /\ Decide(p, "ack")
    /\ UNCHANGED <<storeVars, brokerVars, msg, event, hb>>

-----------------------------------------------------------------------------
(***************************************************************************)
(* _store.resolve and what follows from each Resolution.                   *)
(***************************************************************************)
ResolveSetNX(p) ==
    /\ msg[p] \in Request \ Invalid
    /\ \/ ClaimNew(p, IdentityAt(p)) /\ Goto(p, "received", "claimed")
       \/ ClaimTaken /\ Goto(p, "received", "resolve")
    /\ UNCHANGED <<brokerVars, cancelled, msg, event, verdict, hb>>

ResolveConflict(p) ==
    /\ Goto(p, "resolve", "settle")
    /\ SeesConflict(IdentityAt(p)) /\ ReadOnly
    /\ Decide(p, "nack")
    /\ UNCHANGED <<brokerVars, cancelled, msg, event, hb>>

ResolveTerminal(p) ==
    /\ Goto(p, "resolve", "republish")
    /\ SeesTerminal(IdentityAt(p)) /\ ReadOnly
    /\ Hold(p, record.event)
    /\ UNCHANGED <<brokerVars, cancelled, msg, verdict, hb>>

\* Faulty variant: a duplicate waits for the run instead of being acked.
ResolveInProgressWaits(p) ==
    /\ Goto(p, "resolve", "resolve")
    /\ SeesInProgress(IdentityAt(p)) /\ ReadOnly
    /\ UNCHANGED <<brokerVars, cancelled, msg, event, verdict, hb>>

ResolveInProgress(p) ==
    /\ Goto(p, "resolve", "settle")
    /\ SeesInProgress(IdentityAt(p)) /\ ReadOnly
    /\ Decide(p, "ack")
    /\ UNCHANGED <<brokerVars, cancelled, msg, event, hb>>

ResolveTakeover(p) ==
    /\ Goto(p, "resolve", "takeover")
    /\ SeesTakeover(IdentityAt(p)) /\ WatchAndGet(Main(p))
    /\ UNCHANGED <<brokerVars, cancelled, msg, event, verdict, hb>>

FinishTakeover(p) ==
    /\ \/ TakeOverPending(p) /\ Goto(p, "takeover", "publish") /\ Hold(p, record.event)
       \/ TakeOverClaim(p, IdentityAt(p)) /\ Goto(p, "takeover", "claimed") /\ UNCHANGED event
       \/ WatchError(Main(p)) /\ Goto(p, "takeover", "resolve") /\ UNCHANGED event
    /\ UNCHANGED <<brokerVars, cancelled, msg, verdict, hb>>

-----------------------------------------------------------------------------
(***************************************************************************)
(* The pipeline run.  It is "started" until its first check_cancelled() of *)
(* its first attempt, and "running" from then on: later checkpoints and    *)
(* attempts may still see the cancel, or all come too early to.            *)
(***************************************************************************)
\* Faulty variant: a cancelled job is skipped without releasing its claim.
SkipCancelledClaimed(p) ==
    /\ cancelled
    /\ Goto(p, "claimed", "settle")
    /\ Decide(p, "ack")
    /\ UNCHANGED <<storeVars, brokerVars, cancelled, msg, event, hb>>

SkipCancelled(p) ==
    /\ cancelled
    /\ Goto(p, "claimed", "forget")
    /\ Decide(p, "ack")
    /\ UNCHANGED <<storeVars, brokerVars, cancelled, msg, event, hb>>

\* A late renewal of an earlier run may still be there; the claim broke its WATCH,
\* so it can only fail and end, and its slot is reused at once.
StartPipeline(p) ==
    /\ ~cancelled
    /\ Goto(p, "claimed", "started")
    /\ hb' = [hb EXCEPT ![p] = "waiting"]
    /\ UNCHANGED <<storeVars, brokerVars, cancelled, msg, event, verdict>>

\* Faulty variant: the pipeline does not check before its first step.
FirstCheckpointUnchecked(p) ==
    /\ Goto(p, "started", "running")
    /\ UNCHANGED <<storeVars, brokerVars, cancelled, msg, event, verdict, hb>>

FirstCheckpoint(p) ==
    /\ ~cancelled
    /\ Goto(p, "started", "running")
    /\ UNCHANGED <<storeVars, brokerVars, cancelled, msg, event, verdict, hb>>

\* run_with_heartbeat's finally: stop_event.set()
StopHeartbeat(p) == hb' = [hb EXCEPT ![p] = IF @ = "renewing" THEN "late" ELSE "off"]

JobCancelled(p) ==
    /\ cancelled
    /\ Goto(p, "started", "forget") \/ Goto(p, "running", "forget")
    /\ Decide(p, "ack")
    /\ StopHeartbeat(p)
    /\ UNCHANGED <<storeVars, brokerVars, cancelled, msg, event>>

\* a completed event, or PipelineFailure and the failed event built from it
PipelineEnds(p, kind) ==
    /\ Goto(p, "running", "commit")
    /\ Hold(p, <<kind, p, msg[p]>>)
    /\ StopHeartbeat(p)
    /\ UNCHANGED <<storeVars, brokerVars, cancelled, msg, verdict>>

\* any other exception, or a failed event that fails validate_outgoing
UnexpectedError(p) ==
    /\ Goto(p, "started", "forget") \/ Goto(p, "running", "forget")
    /\ Decide(p, "nack")
    /\ StopHeartbeat(p)
    /\ UNCHANGED <<storeVars, brokerVars, cancelled, msg, event>>

\* process_data_events raises in the pumping thread: same handler, but the
\* pipeline thread and its heartbeat are still running
PumpFails(p) ==
    /\ p \notin connected
    /\ Goto(p, "started", "forget") \/ Goto(p, "running", "forget")
    /\ Decide(p, "nack")
    /\ UNCHANGED <<storeVars, brokerVars, cancelled, msg, event, hb>>

\* Faulty variant: the heartbeat is told to stop but not joined.
NotJoined(p) == TRUE

\* thread.join(timeout=1.0) has returned
Joined(p) == hb[p] = "late" => JoinMayTimeOut

-----------------------------------------------------------------------------
(***************************************************************************)
(* commit_pending_publish, publish_result, mark_terminal, forget.          *)
(***************************************************************************)
CommitReads(p) ==
    /\ Joined(p)
    /\ \/ HoldsClaim(p) /\ WatchAndGet(Main(p)) /\ Goto(p, "commit", "committing") /\ UNCHANGED verdict
       \/ ~HoldsClaim(p) /\ ReadOnly /\ Goto(p, "commit", "settle") /\ Decide(p, "ack")
    /\ UNCHANGED <<brokerVars, cancelled, msg, event, hb>>

CommitWrites(p) ==
    /\ \/ CommitPendingPublish(p, event[p]) /\ Goto(p, "committing", "publish") /\ UNCHANGED verdict
       \/ WatchError(Main(p)) /\ Goto(p, "committing", "settle") /\ Decide(p, "ack")
    /\ UNCHANGED <<brokerVars, cancelled, msg, event, hb>>

Publish(p) ==
    /\ \/ Confirm(p, event[p]) /\ Goto(p, "publish", "mark") /\ UNCHANGED verdict
       \/ Refuse(p) /\ Goto(p, "publish", "settle") /\ Decide(p, "nack")
    /\ UNCHANGED <<storeVars, cancelled, msg, event, hb>>

\* the result is acknowledged whether or not the record could be finished
MarkReads(p) ==
    /\ \/ HoldsLease(p) /\ WatchAndGet(Main(p)) /\ Goto(p, "mark", "marking") /\ UNCHANGED verdict
       \/ ~HoldsLease(p) /\ ReadOnly /\ Goto(p, "mark", "settle") /\ Decide(p, "ack")
    /\ UNCHANGED <<brokerVars, cancelled, msg, event, hb>>

MarkWrites(p) ==
    /\ Goto(p, "marking", "settle")
    /\ MarkTerminal(p, IdentityAt(p), event[p]) \/ WatchError(Main(p))
    /\ Decide(p, "ack")
    /\ UNCHANGED <<brokerVars, cancelled, msg, event, hb>>

\* a duplicate of a finished job: the stored event again, the record untouched
Republish(p) ==
    /\ Goto(p, "republish", "settle")
    /\ \/ Confirm(p, event[p]) /\ Decide(p, "ack")
       \/ Refuse(p) /\ Decide(p, "nack")
    /\ UNCHANGED <<storeVars, cancelled, msg, event, hb>>

ForgetReads(p) ==
    /\ Joined(p)
    /\ \/ HoldsClaim(p) /\ WatchAndGet(Main(p)) /\ Goto(p, "forget", "forgetting")
       \/ ~HoldsClaim(p) /\ ReadOnly /\ Goto(p, "forget", "settle")
    /\ UNCHANGED <<brokerVars, cancelled, msg, event, verdict, hb>>

\* a WatchError is swallowed
ForgetWrites(p) ==
    /\ Goto(p, "forgetting", "settle")
    /\ Forget(p) \/ WatchError(Main(p))
    /\ UNCHANGED <<brokerVars, cancelled, msg, event, verdict, hb>>

SettleDelivery(p) ==
    /\ Goto(p, "settle", "idle")
    /\ Settle(p, msg[p], verdict[p])
    /\ msg' = [msg EXCEPT ![p] = None]
    /\ Hold(p, None)
    /\ Decide(p, "ack")
    /\ UNCHANGED <<storeVars, cancelled, hb>>

-----------------------------------------------------------------------------
(***************************************************************************)
(* The heartbeat thread: renew_lease between two waits, until told to stop *)
(* or refused.                                                             *)
(***************************************************************************)
RenewReads(p) ==
    /\ hb[p] = "waiting"
    /\ \/ HoldsLease(p) /\ WatchAndGet(Beat(p)) /\ hb' = [hb EXCEPT ![p] = "renewing"]
       \/ ~HoldsLease(p) /\ ReadOnly /\ hb' = [hb EXCEPT ![p] = "off"]
    /\ UNCHANGED <<brokerVars, cancelled, handlerVars>>

RenewWrites(p) ==
    /\ hb[p] \in {"renewing", "late"}
    /\ \/ RenewLease(p) /\ hb' = [hb EXCEPT ![p] = IF @ = "late" THEN "off" ELSE "waiting"]
       \/ WatchError(Beat(p)) /\ hb' = [hb EXCEPT ![p] = "off"]
    /\ UNCHANGED <<brokerVars, cancelled, handlerVars>>

-----------------------------------------------------------------------------
(***************************************************************************)
(* Failures.  A process without a connection works on until it next needs  *)
(* the broker; the exception it then gets ends it.                         *)
(***************************************************************************)
Unsettled(p) == IF msg[p] = None THEN {} ELSE {msg[p]}

LoseConnection(p) ==
    /\ p \in Mortal
    /\ pc[p] # "down"
    /\ Disconnect(p, Unsettled(p))
    /\ UNCHANGED <<storeVars, cancelled, handlerVars, hb>>

\* the process ends, with all its threads; its unsettled delivery is requeued
Stop(p) ==
    /\ pc' = [pc EXCEPT ![p] = "down"]
    /\ msg' = [msg EXCEPT ![p] = None]
    /\ event' = [event EXCEPT ![p] = None]
    /\ verdict' = [verdict EXCEPT ![p] = "ack"]
    /\ hb' = [hb EXCEPT ![p] = "off"]
    /\ watching' = watching \ {Main(p), Beat(p)}
    /\ UNCHANGED <<record, cancelled>>

Crash(p) ==
    /\ p \in Mortal
    /\ pc[p] # "down"
    /\ \/ Disconnect(p, Unsettled(p))
       \/ p \notin connected /\ UNCHANGED brokerVars
    /\ Stop(p)

ChannelClosed(p) ==
    /\ p \notin connected
    /\ pc[p] \in {"idle", "publish", "republish", "settle"}
    /\ Stop(p)
    /\ UNCHANGED brokerVars

-----------------------------------------------------------------------------
Handle(p) ==
    \/ \E d \in Delivery : Dispatch(p, d)
    \/ RejectInvalid(p)
    \/ MarkCancelled(p)
    \/ ResolveSetNX(p)
    \/ ResolveConflict(p)
    \/ ResolveTerminal(p)
    \/ ResolveInProgress(p)
    \/ ResolveTakeover(p)
    \/ FinishTakeover(p)
    \/ SkipCancelled(p)
    \/ StartPipeline(p)
    \/ FirstCheckpoint(p)
    \/ JobCancelled(p)
    \/ \E kind \in {"completed", "failed"} : PipelineEnds(p, kind)
    \/ UnexpectedError(p)
    \/ PumpFails(p)
    \/ CommitReads(p)
    \/ CommitWrites(p)
    \/ Publish(p)
    \/ MarkReads(p)
    \/ MarkWrites(p)
    \/ Republish(p)
    \/ ForgetReads(p)
    \/ ForgetWrites(p)
    \/ SettleDelivery(p)
    \/ ChannelClosed(p)

Renew(p) == RenewReads(p) \/ RenewWrites(p)

SendCommand(d) == Send(d) /\ UNCHANGED <<storeVars, cancelled, handlerVars, hb>>

Lapse == LeaseMayLapse /\ LeaseLapses /\ UNCHANGED <<brokerVars, cancelled, handlerVars, hb>>

Next ==
    \/ \E p \in Process : Handle(p)
    \/ \E p \in Process : Renew(p)
    \/ \E p \in Process : LoseConnection(p)
    \/ \E p \in Process : Crash(p)
    \/ \E d \in Delivery : SendCommand(d)
    \/ Lapse

Spec == Init /\ [][Next]_vars

(***************************************************************************)
(* A handler that can go on does (a pipeline run ends: every provider call *)
(* has a timeout and there are at most three attempts), a renewal in       *)
(* flight is answered, and time passes.  Nothing obliges the sender to     *)
(* send, a process to fail or the heartbeat to begin another renewal.      *)
(***************************************************************************)
Fairness ==
    /\ \A p \in Process : WF_vars(Handle(p))
    /\ \A p \in Process : WF_vars(RenewWrites(p))

FairSpec == Spec /\ Fairness

=============================================================================
