---------------------------- MODULE LocalJobStore ----------------------------
(***************************************************************************)
(* The in-memory JobStore (app/common/idempotency.py:84) under             *)
(* handle_command, in a single worker process.                             *)
(*                                                                         *)
(* The store has the interface of RedisJobStore and none of its leases:    *)
(* every operation is one step under a lock, a result is terminal as soon  *)
(* as it is committed, and the entries end with the process.  A crash and  *)
(* a lost connection both end it (start_consuming returns by exception),   *)
(* so they are one action, Restart.  The cancellation intents live in      *)
(* Redis and stay.  One jobId is enough, as in AiWorker.                   *)
(***************************************************************************)
EXTENDS Naturals

CONSTANTS
    Delivery,           \* the requests sent for the job, resent ones included
    Identity,           \* the <jobType, input.sha256> pairs they carry
    identityOf,         \* identityOf[d], for a request d
    MaxRestarts,        \* bounds how often the process ends
    None                \* no entry, no event, no delivery

\* A result is named for the run it comes from: a delivery starts at most
\* one run in each life of the process.
Event == [kind : {"completed", "failed"}, request : Delivery, life : Nat]

Entry == [identity : Identity, event : Event \cup {None}]

ASSUME LocalAssumption ==
    /\ identityOf \in [Delivery -> Identity]
    /\ MaxRestarts \in Nat
    /\ None \notin Delivery \cup Event \cup Entry

VARIABLES
    entry,              \* the store's entry for the job
    phase,              \* where handle_command is
    msg,                \* the delivery it works on
    settled,            \* how each delivery was settled
    cancelled,          \* whether the job's cancellation intent is recorded
    announced,          \* the confirmed publishes: [to : Delivery, event : Event]
    lives               \* how often the process was started again

vars == <<entry, phase, msg, settled, cancelled, announced, lives>>

Phase == {"idle", "claimed", "running", "publish", "mark", "republish"}

LocalTypeOK ==
    /\ entry \in Entry \cup {None}
    /\ phase \in Phase
    /\ msg \in Delivery \cup {None}
    /\ settled \in [Delivery -> {"waiting", "taken", "acked", "dead"}]
    /\ cancelled \in BOOLEAN
    /\ announced \subseteq [to : Delivery, event : Event]
    /\ lives \in Nat

Init ==
    /\ entry = None
    /\ phase = "idle"
    /\ msg = None
    /\ settled = [d \in Delivery |-> "waiting"]
    /\ cancelled = FALSE
    /\ announced = {}
    /\ lives = 0

-----------------------------------------------------------------------------
(***************************************************************************)
(* The store.                                                              *)
(***************************************************************************)
\* Faulty variant: the entry is found by its jobId alone.
ResolutionByJobId(d) ==
    CASE entry = None       -> "NEW"
      [] entry # None       -> IF entry.event = None THEN "IN_PROGRESS" ELSE "TERMINAL"

\* resolve's answer
Resolution(d) ==
    CASE entry = None                                          -> "NEW"
      [] entry # None /\ entry.identity # identityOf[d]        -> "CONFLICT"
      [] entry # None /\ entry.identity = identityOf[d]        ->
            IF entry.event = None THEN "IN_PROGRESS" ELSE "TERMINAL"

\* mark_terminal, and commit_pending_publish, which is the same here
MarkTerminal(d, e) == entry' = [identity |-> identityOf[d], event |-> e]

Forget ==
    entry' = IF entry # None /\ entry.event = None THEN None ELSE entry

-----------------------------------------------------------------------------
(***************************************************************************)
(* handle_command.                                                         *)
(***************************************************************************)
Settle(how) ==
    /\ settled' = [settled EXCEPT ![msg] = how]
    /\ msg' = None
    /\ phase' = "idle"

Take(d, to) ==
    /\ settled' = [settled EXCEPT ![d] = "taken"]
    /\ msg' = d
    /\ phase' = to

SettleAtOnce(d, how) ==
    /\ settled' = [settled EXCEPT ![d] = how]
    /\ UNCHANGED <<msg, phase>>

\* resolve, and the branches that end there
Resolve(d) ==
    /\ phase = "idle"
    /\ settled[d] = "waiting"
    /\ entry' = IF Resolution(d) = "NEW"
                THEN [identity |-> identityOf[d], event |-> None] ELSE entry
    /\ CASE Resolution(d) = "NEW"         -> Take(d, "claimed")
         [] Resolution(d) = "TERMINAL"    -> Take(d, "republish")
         [] Resolution(d) = "CONFLICT"    -> SettleAtOnce(d, "dead")
         [] Resolution(d) = "IN_PROGRESS" -> SettleAtOnce(d, "acked")
    /\ UNCHANGED <<cancelled, announced, lives>>

Announce(e) == announced' = announced \cup {[to |-> msg, event |-> e]}

\* a duplicate of a finished job gets the stored event
Republish ==
    /\ phase = "republish"
    /\ \/ Announce(entry.event) /\ Settle("acked")
       \/ Settle("dead") /\ UNCHANGED announced
    /\ UNCHANGED <<entry, cancelled, lives>>

SkipCancelled ==
    /\ phase = "claimed" /\ cancelled
    /\ Forget
    /\ Settle("acked")
    /\ UNCHANGED <<cancelled, announced, lives>>

StartPipeline ==
    /\ phase = "claimed" /\ ~cancelled
    /\ phase' = "running"
    /\ UNCHANGED <<entry, msg, settled, cancelled, announced, lives>>

\* a checkpoint of the pipeline sees the intent
JobCancelled ==
    /\ phase = "running" /\ cancelled
    /\ Forget
    /\ Settle("acked")
    /\ UNCHANGED <<cancelled, announced, lives>>

\* any other exception, or a failed event that its schema rejects
UnexpectedError ==
    /\ phase = "running"
    /\ Forget
    /\ Settle("dead")
    /\ UNCHANGED <<cancelled, announced, lives>>

\* a completed or a failed event, committed before it is published
CommitResult ==
    /\ phase = "running"
    /\ \E kind \in {"completed", "failed"} :
          MarkTerminal(msg, [kind |-> kind, request |-> msg, life |-> lives])
    /\ phase' = "publish"
    /\ UNCHANGED <<msg, settled, cancelled, announced, lives>>

\* Faulty variant: a result the broker did not confirm is forgotten.
PublishOrForget ==
    /\ phase = "publish"
    /\ \/ Announce(entry.event) /\ phase' = "mark" /\ UNCHANGED <<entry, msg, settled>>
       \/ entry' = None /\ Settle("dead") /\ UNCHANGED announced
    /\ UNCHANGED <<cancelled, lives>>

Publish ==
    /\ phase = "publish"
    /\ \/ Announce(entry.event) /\ phase' = "mark" /\ UNCHANGED <<msg, settled>>
       \/ Settle("dead") /\ UNCHANGED announced
    /\ UNCHANGED <<entry, cancelled, lives>>

FinishRecord ==
    /\ phase = "mark"
    /\ MarkTerminal(msg, entry.event)
    /\ Settle("acked")
    /\ UNCHANGED <<cancelled, announced, lives>>

\* a cancel command, whichever process it is delivered to
MarkCancelled ==
    /\ ~cancelled
    /\ cancelled' = TRUE
    /\ UNCHANGED <<entry, phase, msg, settled, announced, lives>>

\* the entries are gone, and the broker requeues the unsettled delivery
Restart ==
    /\ lives < MaxRestarts
    /\ lives' = lives + 1
    /\ entry' = None
    /\ phase' = "idle"
    /\ msg' = None
    /\ settled' = [d \in Delivery |-> IF settled[d] = "taken" THEN "waiting" ELSE settled[d]]
    /\ UNCHANGED <<cancelled, announced>>

Next ==
    \/ \E d \in Delivery : Resolve(d)
    \/ Republish
    \/ SkipCancelled
    \/ StartPipeline
    \/ JobCancelled
    \/ UnexpectedError
    \/ CommitResult
    \/ Publish
    \/ FinishRecord
    \/ MarkCancelled
    \/ Restart

Spec == Init /\ [][Next]_vars

-----------------------------------------------------------------------------
Decided == IF entry = None THEN None ELSE entry.event

AnnouncedThisLife == {a.event : a \in {b \in announced : b.event.life = lives}}

Outcome == INSTANCE JobOutcome WITH
    Result <- Event, NoResult <- None, decided <- Decided, announced <- AnnouncedThisLife

(***************************************************************************)
(* While one process lives, its store keeps the promise RedisJobStore      *)
(* keeps for the whole fleet: the result is decided once, before anybody   *)
(* hears of it, and only that result is announced, a refused publish and   *)
(* every resend included (idempotency.py:14-16, 118-121).                  *)
(***************************************************************************)
OutcomeWhileItLives ==
    Outcome!Init /\ [][Outcome!Next \/ lives' # lives]_(Outcome!vars)

(***************************************************************************)
(* What is published for a request was computed for its input, although    *)
(* jobIds are reused and entries are forgotten and made again              *)
(* (idempotency.py:99-101).                                                *)
(***************************************************************************)
AnswersItsInput ==
    \A a \in announced : identityOf[a.event.request] = identityOf[a.to]

(***************************************************************************)
(* A request that is acknowledged was answered, or its job is cancelled.   *)
(* With one handler no claim outlives its run, so nothing is acked as a    *)
(* duplicate of a run that never ends (worker.py:166-171, 215-222,         *)
(* 318-324); with leases this does not hold (CrashedClaimIsReachable).     *)
(***************************************************************************)
AckedIsAnswered ==
    \A d \in Delivery :
        settled[d] = "acked" => cancelled \/ \E a \in announced : a.to = d

(***************************************************************************)
(* Both: a request is acknowledged only with an answer of its own or a     *)
(* cancel (worker.py:148-347).                                             *)
(***************************************************************************)
RequestsAreServed == AnswersItsInput /\ AckedIsAnswered

-----------------------------------------------------------------------------
(***************************************************************************)
(* Why they hold: what the entry is in each phase.                         *)
(***************************************************************************)
\* an undecided entry belongs to the run under way
ClaimHasItsRun ==
    entry # None /\ entry.event = None <=> phase \in {"claimed", "running"}

EntryIsOurs ==
    phase # "idle" =>
        msg \in Delivery /\ entry # None /\ entry.identity = identityOf[msg]

ResultIsOfInput ==
    entry # None /\ entry.event # None => identityOf[entry.event.request] = entry.identity

\* entries end with the process, so what one holds was computed in this life
ResultIsOfThisLife ==
    entry # None /\ entry.event # None => entry.event.life = lives

PublishedIsAnswered ==
    phase = "mark" => \E a \in announced : a.to = msg

LocalInvariant ==
    /\ LocalTypeOK
    /\ ClaimHasItsRun
    /\ EntryIsOurs
    /\ ResultIsOfInput
    /\ ResultIsOfThisLife
    /\ PublishedIsAnswered
    /\ AnswersItsInput
    /\ AckedIsAnswered

=============================================================================
