---------------------------- MODULE AiWorkerProofs ----------------------------
(***************************************************************************)
(* Safety of the handlers of one job, for any number of worker processes,  *)
(* requests and cancels, any of which may crash or lose its connection,    *)
(* whether or not leases lapse and renewals outlive their join.            *)
(*                                                                         *)
(* The invariant says what each phase of handle_command may rely on.  Two  *)
(* of its parts carry the argument: WatchedIsUnchanged (an EXEC that is    *)
(* let through acts on the record its thread decided upon) and             *)
(* OnlyRecordedIsPublished (nothing is published, or held to be published, *)
(* but the result in the record).  Last comes the clock, which says when a *)
(* lease does not lapse under a live worker.                               *)
(***************************************************************************)
EXTENDS AiWorkerProperties, LeaseTiming, TLAPS

LEMMA Initially == Init => SafetyInvariant
<1> SUFFICES ASSUME Init PROVE SafetyInvariant
  OBVIOUS
<1> USE DEF Init, StoreInit, BrokerInit, Absent
<1>1. TypeOK
  BY DEF TypeOK, RecordType, DeliveryStatus, Phase, Heartbeat
<1>2. HandlersHoldMessages
  BY DEF HandlersHoldMessages, Resolving, Running, Committing, Answering, Releasing
<1>3. RecordCarriesResult
  BY DEF RecordCarriesResult, Decided
<1>4. OnlyRecordedIsPublished /\ RunsServeTheirRequest
  BY DEF OnlyRecordedIsPublished, RunsServeTheirRequest, Running, Committing, Answering
<1>5. WatchedIsUnchanged
  BY DEF WatchedIsUnchanged
<1>. QED  BY <1>1, <1>2, <1>3, <1>4, <1>5 DEF SafetyInvariant

(***************************************************************************)
(* A delivery taken, refused, or answered without the record.              *)
(***************************************************************************)
LEMMA TakeMessageSteps ==
  ASSUME SafetyInvariant, NEW p \in Process
  PROVE  /\ (\E d \in Delivery : Dispatch(p, d)) => SafetyInvariant'
         /\ RejectInvalid(p) => SafetyInvariant'
         /\ MarkCancelled(p) => SafetyInvariant'
         /\ SettleDelivery(p) => SafetyInvariant'
<1> USE ConstantsAssumption, NoneAssumption
<1> USE DEF SafetyInvariant, TypeOK, RecordType, Phase, Heartbeat, DeliveryStatus,
            storeVars, brokerVars, handlerVars, Main, Beat, Goto, Decide, Hold, IdentityAt
<1> USE DEF HandlersHoldMessages, RecordCarriesResult, OnlyRecordedIsPublished,
            RunsServeTheirRequest, WatchedIsUnchanged,
            Resolving, Running, Committing, Answering, Releasing,
            Decided, HoldsClaim, HoldsLease, SeesTakeover
<1>1. ASSUME NEW d \in Delivery, Dispatch(p, d) PROVE SafetyInvariant'
  BY <1>1 DEF Dispatch, Deliver, Move
<1>2. ASSUME RejectInvalid(p) PROVE SafetyInvariant'
  BY <1>2 DEF RejectInvalid
<1>3. ASSUME MarkCancelled(p) PROVE SafetyInvariant'
  BY <1>3 DEF MarkCancelled
<1>4. ASSUME SettleDelivery(p) PROVE SafetyInvariant'
  BY <1>4 DEF SettleDelivery, Settle, Move
<1>. QED  BY <1>1, <1>2, <1>3, <1>4

(***************************************************************************)
(* The outcomes of resolve() that write nothing.                           *)
(***************************************************************************)
LEMMA ResolveSteps ==
  ASSUME SafetyInvariant, NEW p \in Process
  PROVE  /\ ResolveConflict(p) => SafetyInvariant'
         /\ ResolveInProgress(p) => SafetyInvariant'
         /\ ResolveTakeover(p) => SafetyInvariant'
<1> USE ConstantsAssumption, NoneAssumption
<1> USE DEF SafetyInvariant, TypeOK, RecordType, Phase, Heartbeat, DeliveryStatus,
            storeVars, brokerVars, handlerVars, Main, Beat, Goto, Decide, Hold, IdentityAt
<1> USE DEF HandlersHoldMessages, RecordCarriesResult, OnlyRecordedIsPublished,
            RunsServeTheirRequest, WatchedIsUnchanged,
            Resolving, Running, Committing, Answering, Releasing,
            Decided, HoldsClaim, HoldsLease, SeesTakeover
<1>1. ASSUME ResolveConflict(p) PROVE SafetyInvariant'
  BY <1>1 DEF ResolveConflict, ReadOnly
<1>2. ASSUME ResolveInProgress(p) PROVE SafetyInvariant'
  BY <1>2 DEF ResolveInProgress, ReadOnly
<1>3. ASSUME ResolveTakeover(p) PROVE SafetyInvariant'
  BY <1>3 DEF ResolveTakeover, WatchAndGet, SeesTakeover, Thread
<1>. QED  BY <1>1, <1>2, <1>3

(***************************************************************************)
(* From the claim to the end of the pipeline run.                          *)
(***************************************************************************)
LEMMA RunSteps ==
  ASSUME SafetyInvariant, NEW p \in Process
  PROVE  /\ SkipCancelled(p) => SafetyInvariant'
         /\ StartPipeline(p) => SafetyInvariant'
         /\ FirstCheckpoint(p) => SafetyInvariant'
         /\ JobCancelled(p) => SafetyInvariant'
         /\ (\E kind \in {"completed", "failed"} : PipelineEnds(p, kind)) => SafetyInvariant'
         /\ UnexpectedError(p) => SafetyInvariant'
         /\ PumpFails(p) => SafetyInvariant'
<1> USE ConstantsAssumption, NoneAssumption
<1> USE DEF SafetyInvariant, TypeOK, RecordType, Phase, Heartbeat, DeliveryStatus,
            storeVars, brokerVars, handlerVars, Main, Beat, Goto, Decide, Hold, IdentityAt
<1> USE DEF HandlersHoldMessages, RecordCarriesResult, OnlyRecordedIsPublished,
            RunsServeTheirRequest, WatchedIsUnchanged,
            Resolving, Running, Committing, Answering, Releasing,
            Decided, HoldsClaim, HoldsLease, SeesTakeover
<1>1. ASSUME SkipCancelled(p) PROVE SafetyInvariant'
  BY <1>1 DEF SkipCancelled
<1>2. ASSUME StartPipeline(p) PROVE SafetyInvariant'
  BY <1>2 DEF StartPipeline
<1>3. ASSUME FirstCheckpoint(p) PROVE SafetyInvariant'
  BY <1>3 DEF FirstCheckpoint
<1>4. ASSUME JobCancelled(p) PROVE SafetyInvariant'
  BY <1>4 DEF JobCancelled, StopHeartbeat
<1>5. ASSUME NEW kind \in {"completed", "failed"}, PipelineEnds(p, kind) PROVE SafetyInvariant'
  BY <1>5 DEF PipelineEnds, StopHeartbeat, Event
<1>6. ASSUME UnexpectedError(p) PROVE SafetyInvariant'
  BY <1>6 DEF UnexpectedError, StopHeartbeat
<1>7. ASSUME PumpFails(p) PROVE SafetyInvariant'
  BY <1>7 DEF PumpFails
<1>. HIDE DEF SafetyInvariant, PipelineEnds
<1>. QED  BY <1>1, <1>2, <1>3, <1>4, <1>5, <1>6, <1>7

(***************************************************************************)
(* The first halves of commit, mark_terminal, forget and renew_lease.      *)
(***************************************************************************)
LEMMA ReadSteps ==
  ASSUME SafetyInvariant, NEW p \in Process
  PROVE  /\ CommitReads(p) => SafetyInvariant'
         /\ MarkReads(p) => SafetyInvariant'
         /\ ForgetReads(p) => SafetyInvariant'
         /\ RenewReads(p) => SafetyInvariant'
<1> USE ConstantsAssumption, NoneAssumption
<1> USE DEF SafetyInvariant, TypeOK, RecordType, Phase, Heartbeat, DeliveryStatus,
            storeVars, brokerVars, handlerVars, Main, Beat, Goto, Decide, Hold, IdentityAt
<1> USE DEF HandlersHoldMessages, RecordCarriesResult, OnlyRecordedIsPublished,
            RunsServeTheirRequest, WatchedIsUnchanged,
            Resolving, Running, Committing, Answering, Releasing,
            Decided, HoldsClaim, HoldsLease, SeesTakeover
<1>1. ASSUME CommitReads(p) PROVE SafetyInvariant'
  BY <1>1 DEF CommitReads, ReadOnly, WatchAndGet, Thread
<1>2. ASSUME MarkReads(p) PROVE SafetyInvariant'
  BY <1>2 DEF MarkReads, ReadOnly, WatchAndGet, Thread
<1>3. ASSUME ForgetReads(p) PROVE SafetyInvariant'
  BY <1>3 DEF ForgetReads, ReadOnly, WatchAndGet, Thread
<1>4. ASSUME RenewReads(p) PROVE SafetyInvariant'
  BY <1>4 DEF RenewReads, ReadOnly, WatchAndGet, Thread
<1>. QED  BY <1>1, <1>2, <1>3, <1>4

(***************************************************************************)
(* Crashes, lost connections, and the exception that ends a process.       *)
(***************************************************************************)
LEMMA FailureSteps ==
  ASSUME SafetyInvariant, NEW p \in Process
  PROVE  /\ LoseConnection(p) => SafetyInvariant'
         /\ Crash(p) => SafetyInvariant'
         /\ ChannelClosed(p) => SafetyInvariant'
<1> USE ConstantsAssumption, NoneAssumption
<1> USE DEF SafetyInvariant, TypeOK, RecordType, Phase, Heartbeat, DeliveryStatus,
            storeVars, brokerVars, handlerVars, Main, Beat, Goto, Decide, Hold, IdentityAt
<1> USE DEF HandlersHoldMessages, RecordCarriesResult, OnlyRecordedIsPublished,
            RunsServeTheirRequest, WatchedIsUnchanged,
            Resolving, Running, Committing, Answering, Releasing,
            Decided, HoldsClaim, HoldsLease, SeesTakeover
<1>1. ASSUME LoseConnection(p) PROVE SafetyInvariant'
  BY <1>1 DEF LoseConnection, Disconnect, Unsettled
<1>2. ASSUME Crash(p) PROVE SafetyInvariant'
  BY <1>2 DEF Crash, Disconnect, Unsettled, Stop
<1>3. ASSUME ChannelClosed(p) PROVE SafetyInvariant'
  BY <1>3 DEF ChannelClosed, Stop
<1>. QED  BY <1>1, <1>2, <1>3

LEMMA FinishTakeoverStep ==
  ASSUME SafetyInvariant, NEW p \in Process, FinishTakeover(p)
  PROVE  SafetyInvariant'
<1> USE ConstantsAssumption, NoneAssumption
<1> USE DEF SafetyInvariant, TypeOK, Phase, FinishTakeover, Goto, brokerVars
<1> DEFINE id == IdentityAt(p)
<1>0. /\ pc[p] = "takeover" /\ pc' = [pc EXCEPT ![p] = pc'[p]]
      /\ msg[p] \in Request /\ id \in Identity
      /\ UNCHANGED <<brokerVars, cancelled, msg, verdict, hb>>
  BY DEF HandlersHoldMessages, Resolving, IdentityAt
<1>1. CASE TakeOverPending(p) /\ Goto(p, "takeover", "publish") /\ Hold(p, record.event)
  <2>1. record.identity = id
    BY <1>0, <1>1 DEF TakeOverPending, Exec, WatchedIsUnchanged, SeesTakeover
  <2>2. /\ record' = [record EXCEPT !.owner = p, !.lapsed = FALSE]
        /\ record.state = "PENDING_PUBLISH"
        /\ watching' = {}
        /\ event' = [event EXCEPT ![p] = record.event]
    BY <1>1 DEF TakeOverPending, Exec, Write, Hold
  <2>3. /\ record' \in RecordType
        /\ record'.state = record.state /\ record'.event = record.event
        /\ record'.identity = record.identity /\ record'.owner = p /\ ~record'.lapsed
    BY <2>2 DEF RecordType
  <2>4. record.event \in Event
    BY <2>2 DEF RecordCarriesResult, Decided
  <2>5. TypeOK'
    BY <1>0, <1>1, <2>2, <2>3, <2>4
  <2>6. HandlersHoldMessages'
    BY <1>0, <1>1 DEF HandlersHoldMessages, Resolving, Running, Committing, Answering, Releasing
  <2>7. RecordCarriesResult' /\ Decided /\ Decided'
    BY <2>2, <2>3 DEF RecordCarriesResult, Decided
  <2>8. OnlyRecordedIsPublished'
    BY <1>0, <1>1, <2>1, <2>2, <2>3, <2>7
    DEF OnlyRecordedIsPublished, Answering, IdentityAt
  <2>9. RunsServeTheirRequest'
    BY <1>0, <1>1, <2>2, <2>3 DEF RunsServeTheirRequest, Running, Committing, HoldsClaim, IdentityAt
  <2>10. WatchedIsUnchanged'
    BY <2>2 DEF WatchedIsUnchanged
  <2>. QED  BY <2>5, <2>6, <2>7, <2>8, <2>9, <2>10
<1>2. CASE TakeOverClaim(p, id) /\ Goto(p, "takeover", "claimed") /\ UNCHANGED event
  <2>1. /\ record' = Processing(p, id)
        /\ watching' = {}
        /\ event' = event
    BY <1>2 DEF TakeOverClaim, Exec, Write
  <2>2. ~Decided
    BY <1>0, <1>2 DEF TakeOverClaim, Exec, WatchedIsUnchanged, SeesTakeover, Decided
  <2>3. /\ record' \in RecordType
        /\ record'.state = "PROCESSING" /\ record'.event = None
        /\ record'.identity = id /\ record'.owner = p /\ ~record'.lapsed
    BY <1>0, <2>1 DEF RecordType, Processing
  <2>5. TypeOK'
    BY <1>0, <1>2, <2>1, <2>3
  <2>6. HandlersHoldMessages'
    BY <1>0, <1>2 DEF HandlersHoldMessages, Resolving, Running, Committing, Answering, Releasing
  <2>7. RecordCarriesResult' /\ ~Decided'
    BY <2>3 DEF RecordCarriesResult, Decided
  <2>8. OnlyRecordedIsPublished'
    BY <1>0, <1>2, <2>1, <2>2, <2>3, <2>7
    DEF OnlyRecordedIsPublished, Answering, IdentityAt
  <2>9. RunsServeTheirRequest'
    BY <1>0, <1>2, <2>1, <2>3 DEF RunsServeTheirRequest, Running, Committing, HoldsClaim, IdentityAt
  <2>10. WatchedIsUnchanged'
    BY <2>1 DEF WatchedIsUnchanged
  <2>. QED  BY <2>5, <2>6, <2>7, <2>8, <2>9, <2>10
<1>3. CASE WatchError(Main(p)) /\ Goto(p, "takeover", "resolve") /\ UNCHANGED event
  <2> USE <1>0, <1>3 DEF WatchError, ReadOnly, storeVars
  <2>1. TypeOK'
    OBVIOUS
  <2>2. HandlersHoldMessages'
    BY DEF HandlersHoldMessages, Resolving, Running, Committing, Answering, Releasing
  <2>3. RecordCarriesResult'
    BY DEF RecordCarriesResult, Decided
  <2>4. OnlyRecordedIsPublished' /\ RunsServeTheirRequest'
    BY DEF OnlyRecordedIsPublished, RunsServeTheirRequest, Running, Committing, Answering,
           Decided, HoldsClaim, IdentityAt
  <2>5. WatchedIsUnchanged'
    BY DEF WatchedIsUnchanged, HoldsClaim, HoldsLease, SeesTakeover, IdentityAt
  <2>. QED  BY <2>1, <2>2, <2>3, <2>4, <2>5
<1>. QED  BY <1>1, <1>2, <1>3

(***************************************************************************)
(* SET NX, and the two steps that serve a stored result.                   *)
(***************************************************************************)
LEMMA ResolveSetNXStep ==
  ASSUME SafetyInvariant, NEW p \in Process, ResolveSetNX(p)
  PROVE  SafetyInvariant'
<1> USE ConstantsAssumption, NoneAssumption
<1> USE DEF SafetyInvariant, TypeOK, Phase, ResolveSetNX, Goto, brokerVars
<1> DEFINE id == IdentityAt(p)
<1>0. /\ pc[p] = "received" /\ msg[p] \in Request /\ id \in Identity
      /\ UNCHANGED <<brokerVars, cancelled, msg, event, verdict, hb>>
  BY DEF IdentityAt
<1>1. CASE ClaimNew(p, id) /\ Goto(p, "received", "claimed")
  <2>1. /\ record' = Processing(p, id)
        /\ watching' = {}
        /\ ~Decided
    BY <1>1 DEF ClaimNew, Write, Decided
  <2>2. /\ record' \in RecordType
        /\ record'.state = "PROCESSING" /\ record'.event = None
        /\ record'.identity = id /\ record'.owner = p /\ ~record'.lapsed
    BY <1>0, <2>1 DEF RecordType, Processing
  <2>3. TypeOK'
    BY <1>0, <1>1, <2>1, <2>2
  <2>4. HandlersHoldMessages'
    BY <1>0, <1>1 DEF HandlersHoldMessages, Resolving, Running, Committing, Answering, Releasing
  <2>5. RecordCarriesResult' /\ ~Decided'
    BY <2>2 DEF RecordCarriesResult, Decided
  <2>6. OnlyRecordedIsPublished'
    BY <1>0, <1>1, <2>1, <2>5 DEF OnlyRecordedIsPublished, Answering
  <2>7. RunsServeTheirRequest'
    BY <1>0, <1>1, <2>2 DEF RunsServeTheirRequest, Running, Committing, HoldsClaim, IdentityAt
  <2>8. WatchedIsUnchanged'
    BY <2>1 DEF WatchedIsUnchanged
  <2>. QED  BY <2>3, <2>4, <2>5, <2>6, <2>7, <2>8
<1>2. CASE ClaimTaken /\ Goto(p, "received", "resolve")
  <2> USE <1>0, <1>2 DEF ClaimTaken, ReadOnly, storeVars
  <2>1. TypeOK'
    OBVIOUS
  <2>2. HandlersHoldMessages'
    BY DEF HandlersHoldMessages, Resolving, Running, Committing, Answering, Releasing
  <2>3. RecordCarriesResult'
    BY DEF RecordCarriesResult, Decided
  <2>4. OnlyRecordedIsPublished' /\ RunsServeTheirRequest'
    BY DEF OnlyRecordedIsPublished, RunsServeTheirRequest, Running, Committing, Answering,
           Decided, HoldsClaim, IdentityAt
  <2>5. WatchedIsUnchanged'
    BY DEF WatchedIsUnchanged, HoldsClaim, HoldsLease, SeesTakeover, IdentityAt
  <2>. QED  BY <2>1, <2>2, <2>3, <2>4, <2>5
<1>. QED  BY <1>1, <1>2

LEMMA ResolveTerminalStep ==
  ASSUME SafetyInvariant, NEW p \in Process, ResolveTerminal(p)
  PROVE  SafetyInvariant'
<1> USE ConstantsAssumption
<1> USE DEF SafetyInvariant, TypeOK, Phase, ResolveTerminal, Goto, Hold, ReadOnly, storeVars, brokerVars
<1>1. Decided /\ record.event \in Event /\ record.identity = IdentityAt(p) /\ msg[p] \in Request
  BY DEF SeesTerminal, Decided, RecordCarriesResult, HandlersHoldMessages, Resolving
<1>2. TypeOK'
  BY <1>1
<1>3. HandlersHoldMessages'
  BY <1>1 DEF HandlersHoldMessages, Resolving, Running, Committing, Answering, Releasing
<1>4. RecordCarriesResult'
  BY DEF RecordCarriesResult, Decided
<1>5. OnlyRecordedIsPublished'
  BY <1>1 DEF OnlyRecordedIsPublished, Answering, Decided, IdentityAt
<1>6. RunsServeTheirRequest'
  BY DEF RunsServeTheirRequest, Running, Committing, HoldsClaim, IdentityAt
<1>7. WatchedIsUnchanged'
  BY DEF WatchedIsUnchanged, HoldsClaim, HoldsLease, SeesTakeover, IdentityAt
<1>. QED  BY <1>2, <1>3, <1>4, <1>5, <1>6, <1>7

(***************************************************************************)
(* Publishing: what is confirmed is what the record holds.                 *)
(***************************************************************************)
LEMMA PublishSteps ==
  ASSUME SafetyInvariant, NEW p \in Process, Publish(p) \/ Republish(p)
  PROVE  SafetyInvariant'
<1> USE ConstantsAssumption
<1> USE DEF SafetyInvariant, TypeOK, Phase, Goto, Decide, storeVars
<1>1. /\ pc[p] \in Answering
      /\ \E to \in {"mark", "settle"} : pc' = [pc EXCEPT ![p] = to]
      /\ UNCHANGED <<storeVars, cancelled, msg, event, hb, delivery, connected>>
  BY DEF Publish, Republish, Answering, Confirm, Refuse, brokerVars
<1>2. verdict' \in [Process -> {"ack", "nack"}]
  BY DEF Publish, Republish
<1>3. published' = published \/ published' = published \cup {event[p]}
  BY DEF Publish, Republish, Confirm, Refuse, brokerVars
<1>4. Decided /\ event[p] = record.event /\ record.event \in Event /\ msg[p] \in Request
  BY <1>1 DEF OnlyRecordedIsPublished, RecordCarriesResult, HandlersHoldMessages
<1>5. TypeOK'
  BY <1>1, <1>2, <1>3, <1>4
<1>6. HandlersHoldMessages'
  BY <1>1, <1>4 DEF HandlersHoldMessages, Resolving, Running, Committing, Answering, Releasing
<1>7. RecordCarriesResult'
  BY <1>1 DEF RecordCarriesResult, Decided
<1>8. OnlyRecordedIsPublished'
  BY <1>1, <1>3, <1>4 DEF OnlyRecordedIsPublished, Answering, Decided, IdentityAt
<1>9. RunsServeTheirRequest'
  BY <1>1 DEF RunsServeTheirRequest, Running, Committing, HoldsClaim, IdentityAt
<1>10. WatchedIsUnchanged'
  BY <1>1 DEF WatchedIsUnchanged, HoldsClaim, HoldsLease, SeesTakeover, IdentityAt
<1>. QED  BY <1>5, <1>6, <1>7, <1>8, <1>9, <1>10

(***************************************************************************)
(* A handler step after which the record is as it was: the WatchErrors.    *)
(***************************************************************************)
LEMMA GivesUpStep ==
  ASSUME SafetyInvariant, NEW p \in Process,
         pc[p] \in {"committing", "marking", "forgetting"},
         pc' = [pc EXCEPT ![p] = "settle"],
         verdict' \in [Process -> {"ack", "nack"}],
         UNCHANGED <<storeVars, brokerVars, cancelled, msg, event, hb>>
  PROVE  SafetyInvariant'
<1> USE ConstantsAssumption DEF SafetyInvariant, TypeOK, Phase, storeVars, brokerVars
<1>1. TypeOK'
  OBVIOUS
<1>2. HandlersHoldMessages'
  BY DEF HandlersHoldMessages, Resolving, Running, Committing, Answering, Releasing
<1>3. RecordCarriesResult'
  BY DEF RecordCarriesResult, Decided
<1>4. OnlyRecordedIsPublished' /\ RunsServeTheirRequest'
  BY DEF OnlyRecordedIsPublished, RunsServeTheirRequest, Running, Committing, Answering,
         Decided, HoldsClaim, IdentityAt
<1>5. WatchedIsUnchanged'
  BY DEF WatchedIsUnchanged, HoldsClaim, HoldsLease, SeesTakeover, IdentityAt
<1>. QED  BY <1>1, <1>2, <1>3, <1>4, <1>5

(***************************************************************************)
(* The writes of commit, mark_terminal and forget.  The WATCH still holds, *)
(* so the claim (or lease) the thread saw is still its own.                *)
(***************************************************************************)
LEMMA CommitWritesStep ==
  ASSUME SafetyInvariant, NEW p \in Process, CommitWrites(p)
  PROVE  SafetyInvariant'
<1> USE ConstantsAssumption, NoneAssumption
<1> USE DEF SafetyInvariant, TypeOK, Phase, CommitWrites, Goto, brokerVars
<1>0. /\ pc[p] = "committing" /\ msg[p] \in Request
      /\ event[p] \in Event /\ event[p][3] = msg[p]
      /\ UNCHANGED <<brokerVars, cancelled, msg, event, hb>>
  BY DEF HandlersHoldMessages, RunsServeTheirRequest, Committing
<1>1. CASE CommitPendingPublish(p, event[p]) /\ Goto(p, "committing", "publish") /\ UNCHANGED verdict
  <2>1. HoldsClaim(p) /\ record.identity = IdentityAt(p) /\ ~Decided
    BY <1>0, <1>1 DEF CommitPendingPublish, Exec, WatchedIsUnchanged, RunsServeTheirRequest,
                      Committing, HoldsClaim, Decided
  <2>2. /\ record' = [record EXCEPT !.state = "PENDING_PUBLISH", !.event = event[p], !.lapsed = FALSE]
        /\ watching' = {}
    BY <1>1 DEF CommitPendingPublish, Exec, Write
  <2>3. /\ record' \in RecordType
        /\ record'.state = "PENDING_PUBLISH" /\ record'.event = event[p]
        /\ record'.identity = record.identity /\ record'.owner = p /\ ~record'.lapsed
    BY <1>0, <2>1, <2>2 DEF RecordType, HoldsClaim
  <2>4. TypeOK'
    BY <1>0, <1>1, <2>2, <2>3
  <2>5. HandlersHoldMessages'
    BY <1>0, <1>1 DEF HandlersHoldMessages, Resolving, Running, Committing, Answering, Releasing
  <2>6. RecordCarriesResult' /\ Decided'
    BY <1>0, <2>1, <2>3 DEF RecordCarriesResult, Decided, IdentityAt
  <2>7. OnlyRecordedIsPublished'
    BY <1>0, <1>1, <2>1, <2>3, <2>6 DEF OnlyRecordedIsPublished, Answering, IdentityAt
  <2>8. RunsServeTheirRequest'
    BY <1>0, <1>1, <2>3 DEF RunsServeTheirRequest, Running, Committing, HoldsClaim, IdentityAt
  <2>9. WatchedIsUnchanged'
    BY <2>2 DEF WatchedIsUnchanged
  <2>. QED  BY <2>4, <2>5, <2>6, <2>7, <2>8, <2>9
<1>2. CASE WatchError(Main(p)) /\ Goto(p, "committing", "settle") /\ Decide(p, "ack")
  <2>1. verdict' \in [Process -> {"ack", "nack"}]
    BY <1>2 DEF Decide
  <2>2. UNCHANGED storeVars
    BY <1>2 DEF WatchError, ReadOnly
  <2> HIDE DEF SafetyInvariant, TypeOK, Phase
  <2>. QED  BY <1>0, <1>2, <2>1, <2>2, GivesUpStep
<1>. QED  BY <1>1, <1>2

LEMMA MarkWritesStep ==
  ASSUME SafetyInvariant, NEW p \in Process, MarkWrites(p)
  PROVE  SafetyInvariant'
<1> USE ConstantsAssumption, NoneAssumption
<1> USE DEF SafetyInvariant, TypeOK, Phase, MarkWrites, Goto, brokerVars, Decide
<1>0. /\ pc[p] = "marking" /\ pc' = [pc EXCEPT ![p] = "settle"]
      /\ msg[p] \in Request /\ IdentityAt(p) \in Identity
      /\ Decided /\ event[p] = record.event /\ record.identity = IdentityAt(p)
      /\ record.event \in Event /\ record.identity = identityOf[record.event[3]]
      /\ verdict' \in [Process -> {"ack", "nack"}]
      /\ UNCHANGED <<brokerVars, cancelled, msg, event, hb>>
  BY DEF HandlersHoldMessages, OnlyRecordedIsPublished, RecordCarriesResult, Answering, IdentityAt
<1>1. CASE MarkTerminal(p, IdentityAt(p), event[p])
  <2>1. /\ record' = Terminal(record.identity, record.event)
        /\ watching' = {}
    BY <1>0, <1>1 DEF MarkTerminal, Exec, Write
  <2>2. /\ record' \in RecordType
        /\ record'.state = "TERMINAL" /\ record'.event = record.event
        /\ record'.identity = record.identity /\ record'.owner = None /\ ~record'.lapsed
    BY <1>0, <2>1 DEF RecordType, Terminal
  <2>3. TypeOK'
    BY <1>0, <2>1, <2>2
  <2>4. HandlersHoldMessages'
    BY <1>0 DEF HandlersHoldMessages, Resolving, Running, Committing, Answering, Releasing
  <2>5. RecordCarriesResult' /\ Decided'
    BY <1>0, <2>2 DEF RecordCarriesResult, Decided
  <2>6. OnlyRecordedIsPublished'
    BY <1>0, <2>2, <2>5 DEF OnlyRecordedIsPublished, Answering, IdentityAt
  <2>7. RunsServeTheirRequest'
    BY <1>0, <2>2 DEF RunsServeTheirRequest, Running, Committing, HoldsClaim, IdentityAt
  <2>8. WatchedIsUnchanged'
    BY <2>1 DEF WatchedIsUnchanged
  <2>. QED  BY <2>3, <2>4, <2>5, <2>6, <2>7, <2>8
<1>2. CASE WatchError(Main(p))
  <2>1. verdict' \in [Process -> {"ack", "nack"}] /\ UNCHANGED storeVars
    BY <1>0, <1>2 DEF WatchError, ReadOnly
  <2> HIDE DEF SafetyInvariant, TypeOK, Phase
  <2>. QED  BY <1>0, <2>1, GivesUpStep
<1>. QED  BY <1>1, <1>2

LEMMA ForgetWritesStep ==
  ASSUME SafetyInvariant, NEW p \in Process, ForgetWrites(p)
  PROVE  SafetyInvariant'
<1> USE ConstantsAssumption, NoneAssumption
<1> USE DEF SafetyInvariant, TypeOK, Phase, ForgetWrites, Goto, brokerVars
<1>0. /\ pc[p] = "forgetting" /\ pc' = [pc EXCEPT ![p] = "settle"]
      /\ msg[p] \in Request
      /\ UNCHANGED <<brokerVars, cancelled, msg, event, verdict, hb>>
  BY DEF HandlersHoldMessages, Releasing
<1>1. CASE Forget(p)
  <2>1. /\ record' = Absent
        /\ watching' = {}
        /\ ~Decided
    BY <1>0, <1>1 DEF Forget, Exec, Write, WatchedIsUnchanged, HoldsClaim, Decided
  <2>2. /\ record' \in RecordType
        /\ record'.state = "ABSENT" /\ record'.event = None
        /\ record'.owner = None /\ ~record'.lapsed
    BY <2>1 DEF RecordType, Absent
  <2>3. TypeOK'
    BY <1>0, <2>1, <2>2
  <2>4. HandlersHoldMessages'
    BY <1>0 DEF HandlersHoldMessages, Resolving, Running, Committing, Answering, Releasing
  <2>5. RecordCarriesResult' /\ ~Decided'
    BY <2>2 DEF RecordCarriesResult, Decided
  <2>6. OnlyRecordedIsPublished'
    BY <1>0, <2>1, <2>5 DEF OnlyRecordedIsPublished, Answering
  <2>7. RunsServeTheirRequest'
    BY <1>0, <2>2 DEF RunsServeTheirRequest, Running, Committing, HoldsClaim, IdentityAt
  <2>8. WatchedIsUnchanged'
    BY <2>1 DEF WatchedIsUnchanged
  <2>. QED  BY <2>3, <2>4, <2>5, <2>6, <2>7, <2>8
<1>2. CASE WatchError(Main(p))
  <2>1. verdict' \in [Process -> {"ack", "nack"}] /\ UNCHANGED storeVars
    BY <1>0, <1>2 DEF WatchError, ReadOnly
  <2> HIDE DEF SafetyInvariant, TypeOK, Phase
  <2>. QED  BY <1>0, <2>1, GivesUpStep
<1>. QED  BY <1>1, <1>2

(***************************************************************************)
(* A renewal, a lapse: only the lease bit changes.                         *)
(***************************************************************************)
LEMMA RenewWritesStep ==
  ASSUME SafetyInvariant, NEW p \in Process, RenewWrites(p)
  PROVE  SafetyInvariant'
<1> USE ConstantsAssumption, NoneAssumption
<1> USE DEF SafetyInvariant, TypeOK, RenewWrites, brokerVars, handlerVars
<1>0. /\ hb' \in [Process -> Heartbeat]
      /\ UNCHANGED <<brokerVars, cancelled, handlerVars>>
  BY DEF Heartbeat
<1>1. HandlersHoldMessages'
  BY <1>0 DEF HandlersHoldMessages, Resolving, Running, Committing, Answering, Releasing
<1>2. CASE RenewLease(p)
  <2>1. record' = [record EXCEPT !.lapsed = FALSE] /\ watching' = {}
    BY <1>2 DEF RenewLease, Exec, Write
  <2>2. /\ record' \in RecordType
        /\ record'.state = record.state /\ record'.event = record.event
        /\ record'.identity = record.identity /\ record'.owner = record.owner /\ ~record'.lapsed
    BY <2>1 DEF RecordType
  <2>3. TypeOK'
    BY <1>0, <2>1, <2>2
  <2>4. RecordCarriesResult' /\ (Decided <=> Decided')
    BY <2>2 DEF RecordCarriesResult, Decided
  <2>5. OnlyRecordedIsPublished'
    BY <1>0, <2>2, <2>4 DEF OnlyRecordedIsPublished, Answering, IdentityAt
  <2>6. RunsServeTheirRequest'
    BY <1>0, <2>2 DEF RunsServeTheirRequest, Running, Committing, HoldsClaim, IdentityAt
  <2>7. WatchedIsUnchanged'
    BY <2>1 DEF WatchedIsUnchanged
  <2>. QED  BY <1>1, <2>3, <2>4, <2>5, <2>6, <2>7
<1>3. CASE WatchError(Beat(p)) /\ hb' = [hb EXCEPT ![p] = "off"]
  <2> USE <1>0, <1>3 DEF WatchError, ReadOnly, storeVars
  <2>1. TypeOK'
    OBVIOUS
  <2>2. RecordCarriesResult'
    BY DEF RecordCarriesResult, Decided
  <2>3. OnlyRecordedIsPublished' /\ RunsServeTheirRequest'
    BY DEF OnlyRecordedIsPublished, RunsServeTheirRequest, Running, Committing, Answering,
           Decided, HoldsClaim, IdentityAt
  <2>4. WatchedIsUnchanged'
    BY DEF WatchedIsUnchanged, HoldsClaim, HoldsLease, SeesTakeover, IdentityAt
  <2>. QED  BY <1>1, <2>1, <2>2, <2>3, <2>4
<1>. QED  BY <1>2, <1>3

LEMMA LapseStep ==
  ASSUME SafetyInvariant, Lapse
  PROVE  SafetyInvariant'
<1> USE ConstantsAssumption, NoneAssumption
<1> USE DEF SafetyInvariant, TypeOK, Lapse, LeaseLapses, brokerVars, handlerVars
<1>1. /\ record' \in RecordType
      /\ record.state = "PROCESSING"
      /\ record'.state = record.state /\ record'.event = record.event
      /\ record'.identity = record.identity /\ record'.owner = record.owner /\ record'.lapsed
  BY DEF RecordType
<1>2. TypeOK'
  BY <1>1
<1>3. HandlersHoldMessages'
  BY DEF HandlersHoldMessages, Resolving, Running, Committing, Answering, Releasing
<1>4. RecordCarriesResult' /\ (Decided <=> Decided')
  BY <1>1 DEF RecordCarriesResult, Decided
<1>5. OnlyRecordedIsPublished'
  BY <1>1, <1>4 DEF OnlyRecordedIsPublished, Answering, IdentityAt
<1>6. RunsServeTheirRequest'
  BY <1>1 DEF RunsServeTheirRequest, Running, Committing, HoldsClaim, IdentityAt
<1>7. WatchedIsUnchanged'
  BY <1>1 DEF WatchedIsUnchanged, HoldsClaim, HoldsLease, SeesTakeover, IdentityAt
<1>. QED  BY <1>2, <1>3, <1>4, <1>5, <1>6, <1>7

LEMMA SendStep ==
  ASSUME SafetyInvariant, NEW d \in Delivery, SendCommand(d)
  PROVE  SafetyInvariant'
<1> USE ConstantsAssumption
<1> USE DEF SafetyInvariant, TypeOK, SendCommand, Send, Move, storeVars, handlerVars
<1>1. TypeOK'
  BY DEF DeliveryStatus
<1>2. HandlersHoldMessages'
  BY DEF HandlersHoldMessages, Resolving, Running, Committing, Answering, Releasing
<1>3. RecordCarriesResult'
  BY DEF RecordCarriesResult, Decided
<1>4. OnlyRecordedIsPublished' /\ RunsServeTheirRequest'
  BY DEF OnlyRecordedIsPublished, RunsServeTheirRequest, Running, Committing, Answering,
         Decided, HoldsClaim, IdentityAt
<1>5. WatchedIsUnchanged'
  BY DEF WatchedIsUnchanged, HoldsClaim, HoldsLease, SeesTakeover, IdentityAt
<1>. QED  BY <1>1, <1>2, <1>3, <1>4, <1>5

LEMMA StutterStep == SafetyInvariant /\ UNCHANGED vars => SafetyInvariant'
<1> SUFFICES ASSUME SafetyInvariant, UNCHANGED vars PROVE SafetyInvariant'
  OBVIOUS
<1> USE DEF SafetyInvariant, TypeOK, vars, storeVars, brokerVars, handlerVars
<1>1. TypeOK' /\ HandlersHoldMessages' /\ RecordCarriesResult'
  BY DEF HandlersHoldMessages, RecordCarriesResult, Decided
<1>2. OnlyRecordedIsPublished' /\ RunsServeTheirRequest'
  BY DEF OnlyRecordedIsPublished, RunsServeTheirRequest, Decided, HoldsClaim, IdentityAt
<1>3. WatchedIsUnchanged'
  BY DEF WatchedIsUnchanged, HoldsClaim, HoldsLease, SeesTakeover, IdentityAt
<1>. QED  BY <1>1, <1>2, <1>3

-----------------------------------------------------------------------------
LEMMA HandleStep ==
  ASSUME SafetyInvariant, NEW p \in Process, Handle(p)
  PROVE  SafetyInvariant'
BY TakeMessageSteps, ResolveSteps, RunSteps, ReadSteps, FailureSteps, ResolveSetNXStep,
   ResolveTerminalStep, FinishTakeoverStep, PublishSteps, CommitWritesStep,
   MarkWritesStep, ForgetWritesStep
DEF Handle

LEMMA Inductive == SafetyInvariant /\ [Next]_vars => SafetyInvariant'
<1> SUFFICES ASSUME SafetyInvariant, Next PROVE SafetyInvariant'
  BY StutterStep
<1>1. ASSUME NEW p \in Process, Handle(p) PROVE SafetyInvariant'
  BY <1>1, HandleStep
<1>2. ASSUME NEW p \in Process, Renew(p) PROVE SafetyInvariant'
  BY <1>2, ReadSteps, RenewWritesStep DEF Renew
<1>3. ASSUME NEW p \in Process, LoseConnection(p) \/ Crash(p) PROVE SafetyInvariant'
  BY <1>3, FailureSteps
<1>. QED  BY <1>1, <1>2, <1>3, SendStep, LapseStep DEF Next

(***************************************************************************)
(* The invariant holds throughout.                                         *)
(***************************************************************************)
THEOREM Safety == Spec => []SafetyInvariant
<1>1. Init => SafetyInvariant
  BY Initially
<1>2. SafetyInvariant /\ [Next]_vars => SafetyInvariant'
  BY Inductive
<1>. QED  BY <1>1, <1>2, PTL DEF Spec

(***************************************************************************)
(* The variables keep their types.                                         *)
(***************************************************************************)
THEOREM TypeCorrect == Spec => []TypeOK
<1>1. SafetyInvariant => TypeOK
  BY DEF SafetyInvariant
<1>. QED  BY <1>1, Safety, PTL

(***************************************************************************)
(* No two different results of a job are ever published: each published    *)
(* one is the record's.                                                    *)
(***************************************************************************)
THEOREM OneResult == Spec => []OneResultPerJob
<1>1. SafetyInvariant => OneResultPerJob
  BY DEF SafetyInvariant, OnlyRecordedIsPublished, OneResultPerJob
<1>. QED  BY <1>1, Safety, PTL

(***************************************************************************)
(* A handler answers with a result computed for its request's input.       *)
(***************************************************************************)
THEOREM AnswersMatch == Spec => []AnswersItsRequest
<1>1. SafetyInvariant => AnswersItsRequest
  BY DEF SafetyInvariant, OnlyRecordedIsPublished, RecordCarriesResult, Answering, AnswersItsRequest
<1>. QED  BY <1>1, Safety, PTL

-----------------------------------------------------------------------------
(***************************************************************************)
(* What a step of the handlers may do to the record and to the published   *)
(* results, and the action properties and the refinement that follow.      *)
(***************************************************************************)

(***************************************************************************)
(* The four ways a step can change the record: claims come and go while    *)
(* nothing is decided, the claim's holder decides, and a decided record    *)
(* changes hands or becomes terminal with its result.                      *)
(***************************************************************************)
ClaimChange == ~Decided /\ ~Decided'

DecidingStep(p) ==
    /\ HoldsClaim(p) /\ pc[p] = "committing"
    /\ record'.state = "PENDING_PUBLISH" /\ record'.owner = p
    /\ record'.event = event[p] /\ event[p] \in Event /\ event[p][2] = p

HandOver ==
    /\ record.state = "PENDING_PUBLISH" /\ Decided'
    /\ record'.event = record.event /\ record'.identity = record.identity

RecordStep ==
    \/ UNCHANGED record
    \/ ClaimChange
    \/ \E p \in Process : DecidingStep(p)
    \/ HandOver

\* Every step of a handler, of a heartbeat and of the surroundings is one of these.
LEMMA RecordSteps == SafetyInvariant /\ [Next]_vars => RecordStep
<1> SUFFICES ASSUME SafetyInvariant, [Next]_vars PROVE RecordStep
  OBVIOUS
<1> USE DEF SafetyInvariant, RecordStep, storeVars
<1>1. ASSUME NEW p \in Process, ResolveSetNX(p) PROVE RecordStep
  BY <1>1 DEF ResolveSetNX, ClaimNew, ClaimTaken, ReadOnly, Write, Processing, ClaimChange, Decided
<1>2. ASSUME NEW p \in Process, FinishTakeover(p) PROVE RecordStep
  <2>1. CASE TakeOverPending(p)
    BY <2>1 DEF TakeOverPending, Exec, Write, HandOver, Decided, TypeOK, RecordType
  <2>2. CASE TakeOverClaim(p, IdentityAt(p))
    <3>1. ~Decided
      BY <1>2, <2>2 DEF FinishTakeover, TakeOverPending, TakeOverClaim, WatchError, Exec, Goto,
                        WatchedIsUnchanged, SeesTakeover, Decided
    <3>. QED  BY <2>2, <3>1 DEF TakeOverClaim, Exec, Write, Processing, ClaimChange, Decided
  <2>. QED  BY <1>2, <2>1, <2>2 DEF FinishTakeover, WatchError, ReadOnly
<1>3. ASSUME NEW p \in Process, CommitWrites(p) PROVE RecordStep
  <2>1. CASE CommitPendingPublish(p, event[p]) /\ Goto(p, "committing", "publish")
    BY <2>1 DEF CommitPendingPublish, Exec, Write, Goto, WatchedIsUnchanged, RunsServeTheirRequest,
                Committing, HoldsClaim, DecidingStep, TypeOK, RecordType
  <2>. QED  BY <1>3, <2>1 DEF CommitWrites, WatchError, ReadOnly
<1>4. ASSUME NEW p \in Process, MarkWrites(p) PROVE RecordStep
  <2>1. CASE MarkTerminal(p, IdentityAt(p), event[p])
    <3>1. /\ HoldsLease(p) /\ Decided
          /\ event[p] = record.event /\ record.identity = IdentityAt(p)
      BY <1>4, <2>1 DEF MarkWrites, MarkTerminal, Exec, Goto, WatchedIsUnchanged,
                        OnlyRecordedIsPublished, Answering
    <3>. QED  BY <2>1, <3>1 DEF MarkTerminal, Exec, Write, Terminal, HandOver, Decided, HoldsLease
  <2>. QED  BY <1>4, <2>1 DEF MarkWrites, WatchError, ReadOnly
<1>5. ASSUME NEW p \in Process, ForgetWrites(p) PROVE RecordStep
  <2>1. CASE Forget(p)
    BY <1>5, <2>1 DEF ForgetWrites, Forget, Exec, Write, Goto, WatchedIsUnchanged, HoldsClaim,
                      Absent, ClaimChange, Decided
  <2>. QED  BY <1>5, <2>1 DEF ForgetWrites, WatchError, ReadOnly
<1>6. ASSUME NEW p \in Process, RenewWrites(p) PROVE RecordStep
  <2>1. CASE RenewLease(p)
    <3>1. HoldsLease(p)
      BY <1>6, <2>1 DEF RenewWrites, RenewLease, Exec, WatchedIsUnchanged
    <3>. QED  BY <2>1, <3>1 DEF RenewLease, Exec, Write, HoldsLease, ClaimChange, HandOver, Decided,
                                TypeOK, RecordType
  <2>. QED  BY <1>6, <2>1 DEF RenewWrites, WatchError, ReadOnly
<1>7. ASSUME Lapse PROVE RecordStep
  BY <1>7 DEF Lapse, LeaseLapses, ClaimChange, Decided, TypeOK, RecordType
<1>8. ASSUME NEW p \in Process, Handle(p) PROVE RecordStep
  BY <1>1, <1>2, <1>3, <1>4, <1>5, <1>8
  DEF Handle, Dispatch, RejectInvalid, MarkCancelled, ResolveConflict, ResolveTerminal,
      ResolveInProgress, ResolveTakeover, SkipCancelled, StartPipeline, FirstCheckpoint,
      JobCancelled, PipelineEnds, UnexpectedError, PumpFails, CommitReads, Publish, MarkReads,
      Republish, ForgetReads, SettleDelivery, ChannelClosed, Stop, ReadOnly, WatchAndGet
<1>9. ASSUME NEW p \in Process, RenewReads(p) \/ LoseConnection(p) \/ Crash(p) PROVE RecordStep
  BY <1>9 DEF RenewReads, LoseConnection, Crash, Stop, ReadOnly, WatchAndGet
<1>10. ASSUME NEW d \in Delivery, SendCommand(d) PROVE RecordStep
  BY <1>10 DEF SendCommand
<1>. QED  BY <1>6, <1>7, <1>8, <1>9, <1>10 DEF Next, Renew, vars

(***************************************************************************)
(* A step that publishes anything publishes the recorded result.           *)
(***************************************************************************)
PublishingStep == Decided /\ UNCHANGED record /\ published' = published \cup {record.event}

LEMMA PublishedSteps ==
  SafetyInvariant /\ [Next]_vars => UNCHANGED published \/ PublishingStep
<1> SUFFICES ASSUME SafetyInvariant, [Next]_vars PROVE UNCHANGED published \/ PublishingStep
  OBVIOUS
<1> USE DEF brokerVars
<1>1. ASSUME NEW p \in Process, Publish(p) \/ Republish(p)
      PROVE  UNCHANGED published \/ PublishingStep
  <2>1. pc[p] \in Answering /\ UNCHANGED record
    BY <1>1 DEF Publish, Republish, Goto, Answering, storeVars
  <2>2. Decided /\ event[p] = record.event
    BY <2>1 DEF SafetyInvariant, OnlyRecordedIsPublished
  <2>. QED  BY <1>1, <2>1, <2>2 DEF Publish, Republish, Confirm, Refuse, PublishingStep
<1>2. ASSUME NEW p \in Process, Handle(p) PROVE UNCHANGED published \/ PublishingStep
  BY <1>1, <1>2
  DEF Handle, Dispatch, Deliver, RejectInvalid, MarkCancelled, ResolveSetNX, ResolveConflict,
      ResolveTerminal, ResolveInProgress, ResolveTakeover, FinishTakeover, SkipCancelled,
      StartPipeline, FirstCheckpoint, JobCancelled, PipelineEnds, UnexpectedError, PumpFails,
      CommitReads, CommitWrites, MarkReads, MarkWrites, ForgetReads, ForgetWrites,
      SettleDelivery, Settle, ChannelClosed
<1>3. ASSUME NEW p \in Process, Renew(p) \/ LoseConnection(p) \/ Crash(p)
      PROVE  UNCHANGED published
  BY <1>3 DEF Renew, RenewReads, RenewWrites, LoseConnection, Crash, Disconnect
<1>4. ASSUME NEW d \in Delivery, SendCommand(d) PROVE UNCHANGED published
  BY <1>4 DEF SendCommand, Send
<1>. QED  BY <1>2, <1>3, <1>4 DEF Next, Lapse, vars

-----------------------------------------------------------------------------
(***************************************************************************)
(* A decided result is for good, a terminal record untouched.              *)
(***************************************************************************)
THEOREM DecidedStays == Spec => DecidedIsFinal
<1> DEFINE Final == Decided => /\ Decided'
                               /\ record'.event = record.event
                               /\ record'.identity = record.identity
                               /\ record.state = "TERMINAL" => UNCHANGED record
<1>1. SafetyInvariant /\ [Next]_vars => [Final]_vars
  BY RecordSteps DEF RecordStep, ClaimChange, DecidingStep, HandOver, HoldsClaim, Decided
<1>. QED  BY <1>1, Safety, PTL DEF Spec, DecidedIsFinal

(***************************************************************************)
(* Only the holder of the claim decides, on its own run's result.          *)
(***************************************************************************)
THEOREM HolderDecides == Spec => OwnerDecides
<1> DEFINE ByHolder == ~Decided /\ Decided' =>
                          /\ record.state = "PROCESSING"
                          /\ record'.owner = record.owner
                          /\ record'.event[2] = record.owner
<1>1. SafetyInvariant /\ [Next]_vars => [ByHolder]_vars
  BY RecordSteps DEF RecordStep, ClaimChange, DecidingStep, HandOver, HoldsClaim, Decided
<1>. QED  BY <1>1, Safety, PTL DEF Spec, OwnerDecides

(***************************************************************************)
(* The handlers, with all their failures, implement the abstract promise:  *)
(* deciding is the commit, announcing any confirmed publish.               *)
(***************************************************************************)
THEOREM Implements == Spec => ImplementsOutcome
<1>1. Init => Outcome!Init
  BY DEF Init, StoreInit, BrokerInit, Absent, Outcome!Init
<1>2. SafetyInvariant /\ SafetyInvariant' /\ [Next]_vars => [Outcome!Next]_(Outcome!vars)
  <2> SUFFICES ASSUME SafetyInvariant, SafetyInvariant', [Next]_vars
               PROVE  [Outcome!Next]_(Outcome!vars)
    OBVIOUS
  <2> USE NoneAssumption
  <2>1. \/ UNCHANGED record.event
        \/ record.event = None /\ record'.event \in Event
    BY RecordSteps
    DEF SafetyInvariant, RecordStep, ClaimChange, DecidingStep, HandOver, RecordCarriesResult,
        HoldsClaim, Decided
  <2>2. CASE PublishingStep
    <3>1. record.event # None
      BY <2>2 DEF PublishingStep, SafetyInvariant, RecordCarriesResult
    <3>. QED  BY <2>2, <3>1 DEF PublishingStep, Outcome!Next, Outcome!Announce
  <2>3. CASE UNCHANGED published
    BY <2>1, <2>3 DEF Outcome!Next, Outcome!Decide, Outcome!vars
  <2>. QED  BY <2>2, <2>3, PublishedSteps
<1>. QED  BY <1>1, <1>2, Safety, PTL DEF Spec, ImplementsOutcome, Outcome!Spec

(***************************************************************************)
(* Nobody takes the claim of a run whose lease stands.                     *)
(***************************************************************************)
LEMMA LiveClaimSteps ==
  ASSUME SafetyInvariant, Next, NEW p \in Process,
         RunIsOn(p), HoldsClaim(p), ~record.lapsed
  PROVE  HoldsClaim(p)'
<1> USE DEF SafetyInvariant, HoldsClaim, RunIsOn
<1>1. ASSUME NEW q \in Process, ResolveSetNX(q) PROVE UNCHANGED record
  BY <1>1 DEF ResolveSetNX, ClaimNew, ClaimTaken, ReadOnly, storeVars
<1>2. ASSUME NEW q \in Process, FinishTakeover(q) PROVE UNCHANGED record
  <2>1. ~(Main(q) \in watching)
    BY <1>2 DEF FinishTakeover, WatchedIsUnchanged, SeesTakeover, Goto
  <2>. QED  BY <1>2, <2>1 DEF FinishTakeover, TakeOverPending, TakeOverClaim, WatchError, Exec,
                              ReadOnly, storeVars
<1>3. ASSUME NEW q \in Process, CommitWrites(q) \/ ForgetWrites(q) PROVE UNCHANGED record
  <2>1. ~(Main(q) \in watching)
    BY <1>3 DEF CommitWrites, ForgetWrites, WatchedIsUnchanged, Goto
  <2>. QED  BY <1>3, <2>1 DEF CommitWrites, ForgetWrites, CommitPendingPublish, Forget, WatchError,
                              Exec, ReadOnly, storeVars
<1>4. ASSUME NEW q \in Process, MarkWrites(q) PROVE UNCHANGED record
  <2>1. Decided
    BY <1>4 DEF MarkWrites, Goto, OnlyRecordedIsPublished, Answering
  <2>. QED  BY <2>1 DEF Decided
<1>5. ASSUME NEW q \in Process, RenewWrites(q) PROVE HoldsClaim(p)'
  BY <1>5 DEF RenewWrites, RenewLease, Exec, Write, WatchError, ReadOnly, storeVars, TypeOK, RecordType
<1>6. ASSUME Lapse PROVE HoldsClaim(p)'
  BY <1>6 DEF Lapse, LeaseLapses, TypeOK, RecordType
<1>7. ASSUME NEW q \in Process, Handle(q) PROVE UNCHANGED record
  BY <1>1, <1>2, <1>3, <1>4, <1>7
  DEF Handle, Dispatch, RejectInvalid, MarkCancelled, ResolveConflict, ResolveTerminal,
      ResolveInProgress, ResolveTakeover, SkipCancelled, StartPipeline, FirstCheckpoint,
      JobCancelled, PipelineEnds, UnexpectedError, PumpFails, CommitReads, Publish, MarkReads,
      Republish, ForgetReads, SettleDelivery, ChannelClosed, Stop, ReadOnly, WatchAndGet, storeVars
<1>8. ASSUME NEW q \in Process, RenewReads(q) \/ LoseConnection(q) \/ Crash(q)
      PROVE  UNCHANGED record
  BY <1>8 DEF RenewReads, LoseConnection, Crash, Stop, ReadOnly, WatchAndGet, storeVars
<1>9. ASSUME NEW d \in Delivery, SendCommand(d) PROVE UNCHANGED record
  BY <1>9 DEF SendCommand, storeVars
<1>. QED  BY <1>5, <1>6, <1>7, <1>8, <1>9 DEF Next, Renew

(***************************************************************************)
(* A live claim is kept, for any number of workers and requests.           *)
(***************************************************************************)
THEOREM LiveClaimStays == Spec => LiveClaimIsKept
<1> DEFINE Kept == \A p \in Process :
                      RunIsOn(p) /\ HoldsClaim(p) /\ ~record.lapsed => HoldsClaim(p)'
<1>1. SafetyInvariant /\ [Next]_vars => [Kept]_vars
  BY LiveClaimSteps
<1>. QED  BY <1>1, Safety, PTL DEF Spec, LiveClaimIsKept

(***************************************************************************)
(* A cancel recorded before any run passed its first checkpoint holds.     *)
(***************************************************************************)
THEOREM EarlyCancel == Spec => EarlyCancelHolds
<1>1. SafetyInvariant /\ [Next]_vars => [CancelInTime => CancelInTime']_vars
  <2> SUFFICES ASSUME SafetyInvariant, Next, CancelInTime PROVE CancelInTime'
    OBVIOUS
  <2> DEFINE Late == {"running", "commit", "committing"}
  <2>1. ~Decided'
    BY RecordSteps DEF RecordStep, ClaimChange, DecidingStep, HandOver, CancelInTime, Decided
  <2>2. published' = {}
    BY PublishedSteps DEF PublishingStep, CancelInTime
  <2>3. ASSUME NEW q \in Process, Handle(q)
        PROVE  cancelled' /\ \A p \in Process : pc'[p] \notin Late
    <3>1. cancelled' /\ \E to \in Phase \ Late : pc' = [pc EXCEPT ![q] = to]
      BY <2>3
      DEF CancelInTime, Handle, Goto, Dispatch, RejectInvalid, MarkCancelled, ResolveSetNX,
          ResolveConflict, ResolveTerminal, ResolveInProgress, ResolveTakeover, FinishTakeover,
          SkipCancelled, StartPipeline, FirstCheckpoint, JobCancelled, PipelineEnds,
          UnexpectedError, PumpFails, CommitReads, CommitWrites, Publish, MarkReads, MarkWrites,
          Republish, ForgetReads, ForgetWrites, SettleDelivery, ChannelClosed, Stop, Phase
    <3>. QED  BY <3>1 DEF CancelInTime, SafetyInvariant, TypeOK
  <2>4. ASSUME NEW q \in Process, LoseConnection(q) \/ Crash(q)
        PROVE  cancelled' /\ \A p \in Process : pc'[p] \notin Late
    BY <2>4 DEF CancelInTime, LoseConnection, Crash, Stop, handlerVars, SafetyInvariant, TypeOK
  <2>5. ASSUME UNCHANGED <<cancelled, pc>>
        PROVE  cancelled' /\ \A p \in Process : pc'[p] \notin Late
    BY <2>5 DEF CancelInTime
  <2>6. cancelled' /\ \A p \in Process : pc'[p] \notin Late
    BY <2>3, <2>4, <2>5
    DEF Next, Renew, RenewReads, RenewWrites, SendCommand, Lapse, handlerVars
  <2>. QED  BY <2>1, <2>2, <2>6 DEF CancelInTime
<1>. QED  BY <1>1, Safety, PTL DEF Spec, EarlyCancelHolds

-----------------------------------------------------------------------------
(***************************************************************************)
(* Who holds the claim of a job.  Two results, each under the condition    *)
(* the configuration and the network have to meet: while renewals do not   *)
(* outlive their join, every claim is released; while leases hold and      *)
(* connections last, a job runs once at a time.                            *)
(***************************************************************************)

-----------------------------------------------------------------------------
(***************************************************************************)
(* Every claim is released.                                                *)
(***************************************************************************)
LEMMA ReleaseInitially == Init => ReleaseInvariant
BY NoneAssumption
DEF Init, StoreInit, BrokerInit, Absent, ReleaseInvariant, HeartbeatEndsWithRun,
    ClaimIsWorkedOn, OwnWatchStands, HoldsClaim

\* Steps that leave the record alone.
LEMMA ReleaseKeptByReading ==
  ASSUME SafetyInvariant, ReleaseInvariant, NEW q \in Process
  PROVE  /\ (\E d \in Delivery : Dispatch(q, d)) => ReleaseInvariant'
         /\ RejectInvalid(q) \/ MarkCancelled(q) => ReleaseInvariant'
         /\ ResolveConflict(q) \/ ResolveTerminal(q) => ReleaseInvariant'
         /\ ResolveInProgress(q) \/ ResolveTakeover(q) => ReleaseInvariant'
         /\ SkipCancelled(q) \/ StartPipeline(q) \/ FirstCheckpoint(q) => ReleaseInvariant'
         /\ JobCancelled(q) \/ UnexpectedError(q) \/ PumpFails(q) => ReleaseInvariant'
         /\ (\E kind \in {"completed", "failed"} : PipelineEnds(q, kind)) => ReleaseInvariant'
         /\ Publish(q) \/ Republish(q) \/ MarkReads(q) => ReleaseInvariant'
         /\ SettleDelivery(q) => ReleaseInvariant'
<1> USE DEF SafetyInvariant, TypeOK, Phase, Heartbeat,
            ReleaseInvariant, HeartbeatEndsWithRun, ClaimIsWorkedOn, OwnWatchStands, CutOff,
            Running, Committing, Releasing, HoldsClaim, HoldsLease, StopHeartbeat,
            storeVars, brokerVars, handlerVars, Goto, ReadOnly, WatchAndGet
<1>1. ASSUME NEW d \in Delivery, Dispatch(q, d) PROVE ReleaseInvariant'
  BY <1>1 DEF Dispatch, Deliver
<1>2. ASSUME RejectInvalid(q) \/ MarkCancelled(q) PROVE ReleaseInvariant'
  BY <1>2 DEF RejectInvalid, MarkCancelled
<1>3. ASSUME ResolveConflict(q) \/ ResolveTerminal(q) PROVE ReleaseInvariant'
  BY <1>3 DEF ResolveConflict, ResolveTerminal
<1>4. ASSUME ResolveInProgress(q) \/ ResolveTakeover(q) PROVE ReleaseInvariant'
  BY <1>4 DEF ResolveInProgress, ResolveTakeover
<1>5. ASSUME SkipCancelled(q) \/ StartPipeline(q) \/ FirstCheckpoint(q) PROVE ReleaseInvariant'
  BY <1>5 DEF SkipCancelled, StartPipeline, FirstCheckpoint
<1>6. ASSUME JobCancelled(q) \/ UnexpectedError(q) \/ PumpFails(q) PROVE ReleaseInvariant'
  BY <1>6 DEF JobCancelled, UnexpectedError, PumpFails
<1>7. ASSUME NEW kind \in {"completed", "failed"}, PipelineEnds(q, kind) PROVE ReleaseInvariant'
  BY <1>7 DEF PipelineEnds
<1>8. ASSUME Publish(q) \/ Republish(q) \/ MarkReads(q) PROVE ReleaseInvariant'
  BY <1>8 DEF Publish, Republish, MarkReads, Confirm, Refuse
<1>9. ASSUME SettleDelivery(q) PROVE ReleaseInvariant'
  BY <1>9 DEF SettleDelivery, Settle
<1>. QED  BY <1>1, <1>2, <1>3, <1>4, <1>5, <1>6, <1>7, <1>8, <1>9

\* The reads that find the claim held or gone.
LEMMA ReleaseKeptByClaimReads ==
  ASSUME ~JoinMayTimeOut, SafetyInvariant, ReleaseInvariant, NEW q \in Process
  PROVE  /\ CommitReads(q) => ReleaseInvariant'
         /\ ForgetReads(q) => ReleaseInvariant'
         /\ RenewReads(q) => ReleaseInvariant'
<1> USE DEF SafetyInvariant, TypeOK, Phase, Heartbeat,
            ReleaseInvariant, HeartbeatEndsWithRun, ClaimIsWorkedOn, OwnWatchStands, CutOff,
            Running, Committing, Releasing, HoldsClaim, HoldsLease, Main, Beat, Joined,
            storeVars, brokerVars, handlerVars, Goto, ReadOnly, WatchAndGet
<1>1. ASSUME CommitReads(q) PROVE ReleaseInvariant'
  BY <1>1 DEF CommitReads
<1>2. ASSUME ForgetReads(q) PROVE ReleaseInvariant'
  BY <1>2 DEF ForgetReads
<1>3. ASSUME RenewReads(q) PROVE ReleaseInvariant'
  BY <1>3 DEF RenewReads
<1>. QED  BY <1>1, <1>2, <1>3

\* Steps that may write the record: whoever writes holds the claim, or takes it.
LEMMA ReleaseKeptByWriting ==
  ASSUME SafetyInvariant, ReleaseInvariant, NEW q \in Process
  PROVE  /\ ResolveSetNX(q) => ReleaseInvariant'
         /\ FinishTakeover(q) => ReleaseInvariant'
         /\ CommitWrites(q) => ReleaseInvariant'
         /\ MarkWrites(q) => ReleaseInvariant'
         /\ ForgetWrites(q) => ReleaseInvariant'
         /\ RenewWrites(q) => ReleaseInvariant'
<1> USE NoneAssumption
<1> USE DEF SafetyInvariant, TypeOK, Phase, Heartbeat, ReleaseInvariant, CutOff,
            storeVars, brokerVars, handlerVars, Goto, ReadOnly, Exec, Write, WatchError
<1>1. ASSUME ResolveSetNX(q) PROVE ReleaseInvariant'
  <2>1. HeartbeatEndsWithRun'
    BY <1>1 DEF ResolveSetNX, HeartbeatEndsWithRun, Releasing
  <2>2. CASE ClaimNew(q, IdentityAt(q)) /\ Goto(q, "received", "claimed")
    <3>1. \A p \in Process : HoldsClaim(p)' => p = q
      BY <2>2 DEF ClaimNew, Processing, HoldsClaim
    <3>. QED
      BY <1>1, <2>1, <2>2, <3>1 DEF ClaimIsWorkedOn, OwnWatchStands, Running, Committing, Releasing
  <2>3. CASE ClaimTaken /\ Goto(q, "received", "resolve")
    BY <1>1, <2>1, <2>3
    DEF ResolveSetNX, ClaimTaken, ClaimIsWorkedOn, OwnWatchStands, HoldsClaim,
        Running, Committing, Releasing
  <2>. QED  BY <1>1, <2>2, <2>3 DEF ResolveSetNX
<1>2. ASSUME FinishTakeover(q) PROVE ReleaseInvariant'
  <2>1. HeartbeatEndsWithRun'
    BY <1>2 DEF FinishTakeover, HeartbeatEndsWithRun, Releasing
  <2>2. CASE TakeOverPending(q)
    <3>1. \A p \in Process : ~HoldsClaim(p)'
      BY <2>2 DEF TakeOverPending, HoldsClaim, RecordType
    <3>. QED  BY <2>1, <3>1 DEF ClaimIsWorkedOn, OwnWatchStands
  <2>3. CASE TakeOverClaim(q, IdentityAt(q)) /\ Goto(q, "takeover", "claimed")
    <3>1. \A p \in Process : HoldsClaim(p)' => p = q
      BY <2>3 DEF TakeOverClaim, Processing, HoldsClaim
    <3>. QED  BY <2>1, <2>3, <3>1 DEF ClaimIsWorkedOn, OwnWatchStands, Running, Committing, Releasing
  <2>4. CASE WatchError(Main(q)) /\ Goto(q, "takeover", "resolve")
    BY <1>2, <2>1, <2>4
    DEF FinishTakeover, ClaimIsWorkedOn, OwnWatchStands, HoldsClaim, Running, Committing, Releasing
  <2>. QED  BY <1>2, <2>2, <2>3, <2>4 DEF FinishTakeover
<1>3. ASSUME CommitWrites(q) PROVE ReleaseInvariant'
  <2>1. HeartbeatEndsWithRun'
    BY <1>3 DEF CommitWrites, HeartbeatEndsWithRun, Releasing
  <2>2. CASE CommitPendingPublish(q, event[q])
    <3>1. \A p \in Process : ~HoldsClaim(p)'
      BY <2>2 DEF CommitPendingPublish, HoldsClaim, RecordType
    <3>. QED  BY <2>1, <3>1 DEF ClaimIsWorkedOn, OwnWatchStands
  <2>3. CASE WatchError(Main(q)) /\ Goto(q, "committing", "settle")
    <3>1. ~HoldsClaim(q)
      BY <2>3 DEF OwnWatchStands
    <3>. QED
      BY <1>3, <2>1, <2>3, <3>1
      DEF CommitWrites, ClaimIsWorkedOn, OwnWatchStands, HoldsClaim, Running, Committing, Releasing
  <2>. QED  BY <1>3, <2>2, <2>3 DEF CommitWrites
<1>4. ASSUME MarkWrites(q) PROVE ReleaseInvariant'
  <2>1. HeartbeatEndsWithRun'
    BY <1>4 DEF MarkWrites, HeartbeatEndsWithRun, Releasing
  <2>2. CASE MarkTerminal(q, IdentityAt(q), event[q])
    <3>1. \A p \in Process : ~HoldsClaim(p)'
      BY <2>2 DEF MarkTerminal, Terminal, HoldsClaim
    <3>. QED  BY <2>1, <3>1 DEF ClaimIsWorkedOn, OwnWatchStands
  <2>3. CASE WatchError(Main(q))
    <3>1. ~HoldsClaim(q)
      BY <1>4 DEF MarkWrites, OnlyRecordedIsPublished, Answering, Decided, HoldsClaim
    <3>. QED
      BY <1>4, <2>1, <2>3, <3>1
      DEF MarkWrites, ClaimIsWorkedOn, OwnWatchStands, HoldsClaim, Running, Committing, Releasing
  <2>. QED  BY <1>4, <2>2, <2>3 DEF MarkWrites
<1>5. ASSUME ForgetWrites(q) PROVE ReleaseInvariant'
  <2>1. HeartbeatEndsWithRun'
    BY <1>5 DEF ForgetWrites, HeartbeatEndsWithRun, Releasing
  <2>2. CASE Forget(q)
    <3>1. \A p \in Process : ~HoldsClaim(p)'
      BY <2>2 DEF Forget, Absent, HoldsClaim
    <3>. QED  BY <2>1, <3>1 DEF ClaimIsWorkedOn, OwnWatchStands
  <2>3. CASE WatchError(Main(q))
    <3>1. HoldsClaim(q) => q \notin connected
      BY <1>5, <2>3 DEF ForgetWrites, OwnWatchStands
    <3>. QED
      BY <1>5, <2>1, <2>3, <3>1
      DEF ForgetWrites, ClaimIsWorkedOn, OwnWatchStands, HoldsClaim, Running, Committing, Releasing
  <2>. QED  BY <1>5, <2>2, <2>3 DEF ForgetWrites
<1>6. ASSUME RenewWrites(q) PROVE ReleaseInvariant'
  <2>1. HeartbeatEndsWithRun'
    BY <1>6 DEF RenewWrites, HeartbeatEndsWithRun
  <2>2. CASE RenewLease(q)
    \* only the holder of the lease renews it, and then it is at no WATCH of its own
    <3>1. HoldsLease(q)
      BY <1>6, <2>2 DEF RenewWrites, RenewLease, WatchedIsUnchanged
    <3>2. \A p \in Process : HoldsClaim(p)' <=> HoldsClaim(p)
      BY <2>2 DEF RenewLease, HoldsClaim, RecordType
    <3>3. \A p \in Process : HoldsClaim(p) => p = q
      BY <3>1 DEF HoldsClaim, HoldsLease
    <3>4. pc[q] \notin {"committing", "forgetting"} \/ CutOff(q, {"forgetting"})
      BY <1>6 DEF RenewWrites, HeartbeatEndsWithRun, Releasing
    <3>. QED
      BY <1>6, <2>1, <3>2, <3>3, <3>4
      DEF RenewWrites, ClaimIsWorkedOn, OwnWatchStands
  <2>3. CASE WatchError(Beat(q))
    BY <1>6, <2>1, <2>3 DEF RenewWrites, ClaimIsWorkedOn, OwnWatchStands, HoldsClaim
  <2>. QED  BY <1>6, <2>2, <2>3 DEF RenewWrites
<1>. QED  BY <1>1, <1>2, <1>3, <1>4, <1>5, <1>6

\* Failures and the surroundings.
LEMMA ReleaseKeptByFailing ==
  ASSUME SafetyInvariant, ReleaseInvariant
  PROVE  /\ \A q \in Process : LoseConnection(q) => ReleaseInvariant'
         /\ \A q \in Process : Crash(q) \/ ChannelClosed(q) => ReleaseInvariant'
         /\ \A d \in Delivery : SendCommand(d) => ReleaseInvariant'
         /\ Lapse \/ UNCHANGED vars => ReleaseInvariant'
<1> USE DEF SafetyInvariant, TypeOK, RecordType, Phase, Heartbeat, CutOff, HoldsClaim,
            ReleaseInvariant, HeartbeatEndsWithRun, ClaimIsWorkedOn, OwnWatchStands,
            Running, Committing, Releasing, storeVars, brokerVars, handlerVars
<1>1. ASSUME NEW q \in Process, LoseConnection(q) PROVE ReleaseInvariant'
  BY <1>1 DEF LoseConnection, Disconnect
<1>2. ASSUME NEW q \in Process, Crash(q) \/ ChannelClosed(q) PROVE ReleaseInvariant'
  <2>1. /\ pc' = [pc EXCEPT ![q] = "down"] /\ hb' = [hb EXCEPT ![q] = "off"]
        /\ UNCHANGED record /\ connected' \subseteq connected
        /\ watching' = watching \ {Main(q), Beat(q)}
    BY <1>2 DEF Crash, ChannelClosed, Stop, Disconnect
  <2>2. \A p \in Process : p # q => (Main(p) \in watching => Main(p) \in watching')
    BY <2>1 DEF Main, Beat
  <2>. QED  BY <2>1, <2>2
<1>3. ASSUME NEW d \in Delivery, SendCommand(d) PROVE ReleaseInvariant'
  BY <1>3 DEF SendCommand, Send
<1>4. ASSUME Lapse \/ UNCHANGED vars PROVE ReleaseInvariant'
  BY <1>4 DEF Lapse, LeaseLapses, vars
<1>. QED  BY <1>1, <1>2, <1>3, <1>4

LEMMA ReleaseStep ==
  ASSUME ~JoinMayTimeOut
  PROVE  SafetyInvariant /\ ReleaseInvariant /\ [Next]_vars => ReleaseInvariant'
<1> SUFFICES ASSUME SafetyInvariant, ReleaseInvariant, [Next]_vars PROVE ReleaseInvariant'
  OBVIOUS
<1>1. ASSUME NEW q \in Process, Handle(q) \/ Renew(q) PROVE ReleaseInvariant'
  BY <1>1, ReleaseKeptByReading, ReleaseKeptByClaimReads, ReleaseKeptByWriting,
     ReleaseKeptByFailing DEF Handle, Renew
<1>. QED  BY <1>1, ReleaseKeptByFailing DEF Next

(***************************************************************************)
(* Who holds a claim, and with which WATCH, whatever crashes and lapses    *)
(* (worker.py:148-347 with the finally of run_with_heartbeat).             *)
(***************************************************************************)
THEOREM ClaimsAreHeldByRuns == ASSUME ~JoinMayTimeOut PROVE Spec => []ReleaseInvariant
BY ReleaseInitially, ReleaseStep, Safety, PTL DEF Spec

(***************************************************************************)
(* A process between two messages holds no claim, so that the next         *)
(* delivery of the job is not taken for one in progress (forget in every   *)
(* branch that ends without a result, worker.py:221, 255, 280, 318).       *)
(***************************************************************************)
THEOREM ClaimsAreReleased == ASSUME ~JoinMayTimeOut PROVE Spec => []IdleHoldsNoClaim
<1>1. ReleaseInvariant => IdleHoldsNoClaim
  BY DEF ReleaseInvariant, ClaimIsWorkedOn, IdleHoldsNoClaim, CutOff, Running, Committing, Releasing
<1>. QED  BY <1>1, ClaimsAreHeldByRuns, PTL

(***************************************************************************)
(* A computed result is dropped only after somebody else took the job:     *)
(* what the comment on commit_pending_publish (idempotency.py:258-260)     *)
(* takes a failed commit for.                                              *)
(***************************************************************************)
THEOREM DropsOnlyAfterTakeover == ASSUME ~JoinMayTimeOut PROVE Spec => DropsOnlyIfTakenOver
<1> DEFINE Drops == \A p \in Process :
               pc[p] \in {"commit", "committing"} /\ pc'[p] = "settle" => ~HoldsClaim(p)
<1>1. SafetyInvariant /\ ReleaseInvariant /\ [Next]_vars => [Drops]_vars
  <2> SUFFICES ASSUME SafetyInvariant, ReleaseInvariant, Next PROVE Drops
    OBVIOUS
  <2> USE DEF SafetyInvariant, TypeOK, Phase, Goto
  <2>1. ASSUME NEW q \in Process, CommitReads(q) PROVE Drops
    BY <2>1 DEF CommitReads
  <2>2. ASSUME NEW q \in Process, CommitWrites(q) PROVE Drops
    BY <2>2 DEF CommitWrites, WatchError, ReleaseInvariant, OwnWatchStands, CutOff
  <2>3. ASSUME NEW q \in Process, Handle(q), ~CommitReads(q), ~CommitWrites(q) PROVE Drops
    BY <2>3
    DEF Handle, Dispatch, RejectInvalid, MarkCancelled, ResolveSetNX, ResolveConflict,
        ResolveTerminal, ResolveInProgress, ResolveTakeover, FinishTakeover, SkipCancelled,
        StartPipeline, FirstCheckpoint, JobCancelled, PipelineEnds, UnexpectedError, PumpFails,
        Publish, MarkReads, MarkWrites, Republish, ForgetReads, ForgetWrites, SettleDelivery,
        ChannelClosed, Stop
  <2>4. ASSUME NEW q \in Process, Renew(q) \/ LoseConnection(q) \/ Crash(q) PROVE Drops
    BY <2>4 DEF Renew, RenewReads, RenewWrites, LoseConnection, Crash, Stop, handlerVars
  <2>5. ASSUME UNCHANGED pc PROVE Drops
    BY <2>5
  <2>. QED  BY <2>1, <2>2, <2>3, <2>4, <2>5 DEF Next, SendCommand, Lapse, handlerVars
<1>. QED  BY <1>1, ClaimsAreHeldByRuns, Safety, PTL DEF Spec, DropsOnlyIfTakenOver

-----------------------------------------------------------------------------
(***************************************************************************)
(* A job runs once at a time.                                              *)
(***************************************************************************)
Steady == ~LeaseMayLapse /\ Mortal = {}

LEMMA RunInitially == Init => RunInvariant
BY DEF Init, StoreInit, BrokerInit, Absent, RunInvariant, Running

LEMMA RunKeptByReading ==
  ASSUME SafetyInvariant, RunInvariant, NEW q \in Process
  PROVE  /\ (\E d \in Delivery : Dispatch(q, d)) => RunInvariant'
         /\ RejectInvalid(q) \/ MarkCancelled(q) => RunInvariant'
         /\ ResolveConflict(q) \/ ResolveTerminal(q) => RunInvariant'
         /\ ResolveInProgress(q) \/ ResolveTakeover(q) => RunInvariant'
         /\ SkipCancelled(q) \/ StartPipeline(q) \/ FirstCheckpoint(q) => RunInvariant'
         /\ JobCancelled(q) \/ UnexpectedError(q) \/ PumpFails(q) => RunInvariant'
         /\ (\E kind \in {"completed", "failed"} : PipelineEnds(q, kind)) => RunInvariant'
         /\ Publish(q) \/ Republish(q) \/ MarkReads(q) => RunInvariant'
         /\ CommitReads(q) \/ ForgetReads(q) => RunInvariant'
         /\ SettleDelivery(q) \/ ChannelClosed(q) => RunInvariant'
         /\ RenewReads(q) => RunInvariant'
<1> USE DEF SafetyInvariant, TypeOK, Phase, Heartbeat, RunInvariant, Running, HoldsClaim,
            storeVars, brokerVars, handlerVars, Goto, ReadOnly, WatchAndGet, StopHeartbeat
<1>1. ASSUME NEW d \in Delivery, Dispatch(q, d) PROVE RunInvariant'
  BY <1>1 DEF Dispatch, Deliver
<1>2. ASSUME RejectInvalid(q) \/ MarkCancelled(q) PROVE RunInvariant'
  BY <1>2 DEF RejectInvalid, MarkCancelled
<1>3. ASSUME ResolveConflict(q) \/ ResolveTerminal(q) PROVE RunInvariant'
  BY <1>3 DEF ResolveConflict, ResolveTerminal
<1>4. ASSUME ResolveInProgress(q) \/ ResolveTakeover(q) PROVE RunInvariant'
  BY <1>4 DEF ResolveInProgress, ResolveTakeover
<1>5. ASSUME SkipCancelled(q) \/ StartPipeline(q) \/ FirstCheckpoint(q) PROVE RunInvariant'
  BY <1>5 DEF SkipCancelled, StartPipeline, FirstCheckpoint
<1>6. ASSUME JobCancelled(q) \/ UnexpectedError(q) \/ PumpFails(q) PROVE RunInvariant'
  BY <1>6 DEF JobCancelled, UnexpectedError, PumpFails
<1>7. ASSUME NEW kind \in {"completed", "failed"}, PipelineEnds(q, kind) PROVE RunInvariant'
  BY <1>7 DEF PipelineEnds
<1>8. ASSUME Publish(q) \/ Republish(q) \/ MarkReads(q) PROVE RunInvariant'
  BY <1>8 DEF Publish, Republish, MarkReads, Confirm, Refuse
<1>9. ASSUME CommitReads(q) \/ ForgetReads(q) PROVE RunInvariant'
  BY <1>9 DEF CommitReads, ForgetReads
<1>10. ASSUME SettleDelivery(q) \/ ChannelClosed(q) PROVE RunInvariant'
  BY <1>10 DEF SettleDelivery, Settle, ChannelClosed
<1>11. ASSUME RenewReads(q) PROVE RunInvariant'
  BY <1>11 DEF RenewReads
<1>. QED
  BY <1>1, <1>2, <1>3, <1>4, <1>5, <1>6, <1>7, <1>8, <1>9, <1>10, <1>11

LEMMA RunKeptByWriting ==
  ASSUME SafetyInvariant, RunInvariant, NEW q \in Process
  PROVE  /\ ResolveSetNX(q) => RunInvariant'
         /\ FinishTakeover(q) => RunInvariant'
         /\ CommitWrites(q) => RunInvariant'
         /\ MarkWrites(q) => RunInvariant'
         /\ ForgetWrites(q) => RunInvariant'
         /\ RenewWrites(q) => RunInvariant'
<1> USE DEF SafetyInvariant, TypeOK, Phase, Heartbeat, RunInvariant, Running, HoldsClaim,
            storeVars, brokerVars, handlerVars, Goto, ReadOnly, Exec, Write, WatchError
<1>1. ASSUME ResolveSetNX(q) PROVE RunInvariant'
  BY <1>1 DEF ResolveSetNX, ClaimNew, ClaimTaken, Processing
<1>2. ASSUME FinishTakeover(q) PROVE RunInvariant'
  \* with no lease lapsed, only an absent or a pending record can be taken over
  <2>1. CASE TakeOverPending(q)
    <3>1. \A p \in Process : ~HoldsClaim(p)
      BY <2>1 DEF TakeOverPending
    <3>2. ~record'.lapsed
      BY <2>1 DEF TakeOverPending, RecordType
    <3>3. pc' = [pc EXCEPT ![q] = "publish"] /\ UNCHANGED <<connected, hb>>
      BY <1>2, <2>1 DEF FinishTakeover, TakeOverPending, TakeOverClaim
    <3>. QED  BY <3>1, <3>2, <3>3
  <2>2. CASE TakeOverClaim(q, IdentityAt(q)) /\ Goto(q, "takeover", "claimed")
    <3>1. \A p \in Process : ~HoldsClaim(p)
      BY <2>2 DEF TakeOverClaim, WatchedIsUnchanged, SeesTakeover
    <3>. QED  BY <1>2, <2>2, <3>1 DEF FinishTakeover, TakeOverClaim, Processing
  <2>3. CASE WatchError(Main(q)) /\ Goto(q, "takeover", "resolve")
    BY <1>2, <2>3 DEF FinishTakeover
  <2>. QED  BY <1>2, <2>1, <2>2, <2>3 DEF FinishTakeover
<1>3. ASSUME CommitWrites(q) PROVE RunInvariant'
  <2>1. CASE CommitPendingPublish(q, event[q]) /\ Goto(q, "committing", "publish")
    <3>1. HoldsClaim(q)
      BY <2>1 DEF CommitPendingPublish, WatchedIsUnchanged
    <3>. QED  BY <1>3, <2>1, <3>1 DEF CommitWrites, CommitPendingPublish, RecordType
  <2>. QED  BY <1>3, <2>1 DEF CommitWrites
<1>4. ASSUME MarkWrites(q) PROVE RunInvariant'
  <2>1. Decided
    BY <1>4 DEF MarkWrites, OnlyRecordedIsPublished, Answering
  <2>. QED  BY <1>4, <2>1 DEF MarkWrites, MarkTerminal, Terminal, Decided
<1>5. ASSUME ForgetWrites(q) PROVE RunInvariant'
  <2>1. CASE Forget(q)
    <3>1. HoldsClaim(q)
      BY <1>5, <2>1 DEF ForgetWrites, Forget, WatchedIsUnchanged
    <3>. QED  BY <1>5, <2>1, <3>1 DEF ForgetWrites, Forget, Absent
  <2>. QED  BY <1>5, <2>1 DEF ForgetWrites
<1>6. ASSUME RenewWrites(q) PROVE RunInvariant'
  BY <1>6 DEF RenewWrites, RenewLease, RecordType
<1>. QED  BY <1>1, <1>2, <1>3, <1>4, <1>5, <1>6

LEMMA RunStepKeeps ==
  ASSUME Steady PROVE SafetyInvariant /\ RunInvariant /\ [Next]_vars => RunInvariant'
<1> SUFFICES ASSUME SafetyInvariant, RunInvariant, [Next]_vars PROVE RunInvariant'
  OBVIOUS
<1>1. ASSUME NEW q \in Process, Handle(q) \/ Renew(q) PROVE RunInvariant'
  BY <1>1, RunKeptByReading, RunKeptByWriting DEF Handle, Renew
<1>2. ASSUME NEW q \in Process, LoseConnection(q) \/ Crash(q) PROVE FALSE
  BY <1>2 DEF LoseConnection, Crash, Steady
<1>3. ~Lapse
  BY DEF Lapse, Steady
<1>4. ASSUME (\E d \in Delivery : SendCommand(d)) \/ UNCHANGED vars PROVE RunInvariant'
  BY <1>4 DEF SendCommand, Send, RunInvariant, HoldsClaim, vars, storeVars, brokerVars, handlerVars
<1>. QED  BY <1>1, <1>2, <1>3, <1>4 DEF Next

(***************************************************************************)
(* While no lease lapses and no connection is lost, the pipeline of a job  *)
(* runs once at a time, however often its request is delivered             *)
(* (idempotency.py:192-252).                                               *)
(***************************************************************************)
THEOREM RunsOnceAtATime == ASSUME Steady PROVE Spec => []NoConcurrentRuns
<1>1. Spec => []RunInvariant
  BY RunInitially, RunStepKeeps, Safety, PTL DEF Spec
<1>2. RunInvariant => NoConcurrentRuns
  BY DEF RunInvariant, NoConcurrentRuns, RunInProgress, Running, HoldsClaim
<1>. QED  BY <1>1, <1>2, PTL

-----------------------------------------------------------------------------
(***************************************************************************)
(* The clock.  A live worker keeps its claim, for every lease, interval,   *)
(* delay and clock skew with Interval + 4 * Delay + Skew < Lease, and for  *)
(* runs of any length: the justification of LeaseMayLapse = FALSE.  The    *)
(* invariant bounds the age of the last renewal in each phase of the       *)
(* heartbeat thread: at most one interval, the delay of the renewal that   *)
(* wrote it, of the thread's next wake-up, of its next write and, once the *)
(* run has ended, of the commit.                                           *)
(***************************************************************************)
LEMMA TimingInitially == TimingInit => TimingInvariant
<1> SUFFICES ASSUME TimingInit PROVE TimingInvariant
  OBVIOUS
<1>1. TimingTypeOK /\ ~taken
  BY TimingAssumption DEF TimingInit, TimingTypeOK
<1>2. PhaseIsOnTime
  BY TimingAssumption DEF TimingInit, PhaseIsOnTime, Pending
<1>. QED  BY <1>1, <1>2 DEF TimingInvariant

LEMMA TimingStep == TimingInvariant /\ [TimingNext]_timingVars => TimingInvariant'
<1> SUFFICES ASSUME TimingInvariant, [TimingNext]_timingVars PROVE TimingInvariant'
  OBVIOUS
<1> USE TimingAssumption
<1> USE DEF TimingInvariant, TimingTypeOK, PhaseIsOnTime, Pending
<1>1. CASE Tick
  BY <1>1 DEF Tick
<1>2. CASE StartHeartbeat
  BY <1>2 DEF StartHeartbeat, WaitInterval
<1>3. CASE WakeUp
  BY <1>3 DEF WakeUp
<1>4. CASE RenewSucceeds
  BY <1>4 DEF RenewSucceeds, ExtendLease, WaitInterval
<1>5. CASE RenewFails
  BY <1>5 DEF RenewFails
<1>6. CASE RunEnds
  BY <1>6 DEF RunEnds
<1>7. CASE Finish
  BY <1>7 DEF Finish
<1>8. CASE TakeOver
  <2> USE DEF TakeOver, SeesLapsed
  <2>1. CASE failures = 0
    \* no phase the worker may be in lets the lease look lapsed
    <3>1. leaseUntil > now + Skew
      BY <2>1, <1>8
    <3>. QED  BY <3>1, <1>8
  <2>2. CASE failures # 0
    BY <2>2, <1>8
  <2>. QED  BY <2>1, <2>2
<1>9. CASE UNCHANGED timingVars
  BY <1>9 DEF timingVars
<1>. QED  BY <1>1, <1>2, <1>3, <1>4, <1>5, <1>6, <1>7, <1>8, <1>9 DEF TimingNext

(***************************************************************************)
(* In each phase of the heartbeat thread the last renewal is young enough  *)
(* for the next to come in time (run_with_heartbeat, heartbeat.py:18-45).  *)
(***************************************************************************)
THEOREM BeatsInTime == TimingSpec => []TimingInvariant
BY TimingInitially, TimingStep, PTL DEF TimingSpec

(***************************************************************************)
(* However long its pipeline takes, a worker whose renewals succeed is     *)
(* never taken for crashed: the justification of LeaseMayLapse = FALSE.    *)
(***************************************************************************)
THEOREM KeepsClaim == TimingSpec => []LiveRunKeepsClaim
<1>1. TimingInvariant => LiveRunKeepsClaim
  BY DEF TimingInvariant, LiveRunKeepsClaim
<1>. QED  BY BeatsInTime, <1>1, PTL

=============================================================================
