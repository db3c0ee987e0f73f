----------------------------- MODULE LeaseTiming -----------------------------
(***************************************************************************)
(* The clockwork behind the lease: one worker that claimed a job at time 0 *)
(* and runs its pipeline, the heartbeat thread that renews the lease every *)
(* Interval, and another worker that would take the job over as soon as    *)
(* its own clock is past leaseUntil (app/config.py:69-82,                  *)
(* app/common/heartbeat.py, renew_lease and resolve of idempotency.py).    *)
(*                                                                         *)
(* AiWorker leaves time out: there a lease lapses at any moment, or never. *)
(* This module says when "never" is right.                                 *)
(*                                                                         *)
(* The threads are late by at most Delay: a thread acts no later than      *)
(* Delay after the time it is due, and a renewal's write reaches Redis no  *)
(* later than Delay after it read the clock.  The clocks of two workers    *)
(* differ by at most Skew.  A renewal fails when Redis cannot be reached:  *)
(* renew_lease raises (or, inside a WATCH, returns False) and the thread   *)
(* ends.  A renewal in flight when the run ends is taken for lost, which   *)
(* only shortens the lease.                                                *)
(***************************************************************************)
EXTENDS Integers

CONSTANTS
    Lease,          \* idempotency_lease_seconds
    Interval,       \* idempotency_heartbeat_interval_seconds
    Delay,          \* how late a thread, or a write to Redis, may be
    Skew,           \* how far two workers' clocks may differ
    Horizon,        \* the time the model stops at (a bound on `now')
    MaxFailures     \* renewals that may fail (a bound on `failures')

ASSUME TimingAssumption ==
    /\ Lease \in Nat /\ Interval \in Nat /\ Delay \in Nat /\ Skew \in Nat
    /\ Horizon \in Nat /\ MaxFailures \in Nat
    /\ Interval + 4 * Delay + Skew < Lease

VARIABLES
    now,            \* the claiming worker's clock
    leaseUntil,     \* of the PROCESSING record
    taken,          \* another worker has taken the claim over
    run,            \* the pipeline run
    beat,           \* the heartbeat thread
    due,            \* when the thread's pending step is due
    failures        \* renewals that failed

timingVars == <<now, leaseUntil, taken, run, beat, due, failures>>

TimingTypeOK ==
    /\ now \in Nat
    /\ leaseUntil \in Nat
    /\ taken \in BOOLEAN
    /\ run \in {"running", "ending", "done"}
    /\ beat \in {"starting", "waiting", "renewing", "off"}
    /\ due \in Nat
    /\ failures \in Nat

\* resolve() at time 0 has returned NEW
TimingInit ==
    /\ now = 0
    /\ leaseUntil = Lease
    /\ taken = FALSE
    /\ run = "running"
    /\ beat = "starting"
    /\ due = 0
    /\ failures = 0

\* Something of the worker's is still to be done, and it is done by due + Delay.
Pending == beat # "off" \/ run = "ending"

Tick ==
    /\ now < Horizon
    /\ Pending => now < due + Delay
    /\ now' = now + 1
    /\ UNCHANGED <<leaseUntil, taken, run, beat, due, failures>>

\* Faulty variant: the thread waits for a whole lease before it renews.
WaitALease == beat' = "waiting" /\ due' = now + Lease

\* stop_event.wait(interval_seconds)
WaitInterval == beat' = "waiting" /\ due' = now + Interval

StartHeartbeat ==
    /\ run = "running" /\ beat = "starting"
    /\ WaitInterval
    /\ UNCHANGED <<now, leaseUntil, taken, run, failures>>

\* renew_lease begins, and reads the clock
WakeUp ==
    /\ run = "running" /\ beat = "waiting"
    /\ now >= due
    /\ beat' = "renewing" /\ due' = now
    /\ UNCHANGED <<now, leaseUntil, taken, run, failures>>

\* leaseUntil = the `now' of when renew_lease began + lease
ExtendLease == leaseUntil' = due + Lease

\* (once taken, the ownerId is another worker's: renew_lease is refused for good)
RenewSucceeds ==
    /\ run = "running" /\ beat = "renewing"
    /\ ~taken
    /\ ExtendLease
    /\ WaitInterval
    /\ UNCHANGED <<now, taken, run, failures>>

RenewFails ==
    /\ run = "running" /\ beat = "renewing"
    /\ failures < MaxFailures
    /\ failures' = failures + 1
    /\ beat' = "off"
    /\ UNCHANGED <<now, leaseUntil, taken, run, due>>

\* the operation has returned: the heartbeat is stopped, the commit is next
RunEnds ==
    /\ run = "running"
    /\ run' = "ending"
    /\ beat' = "off"
    /\ due' = now
    /\ UNCHANGED <<now, leaseUntil, taken, failures>>

\* the commit, or the forget, has reached Redis
Finish ==
    /\ run = "ending"
    /\ run' = "done"
    /\ UNCHANGED <<now, leaseUntil, taken, beat, due, failures>>

\* resolve() of another worker: leaseUntil is not after its own `now'
SeesLapsed == leaseUntil <= now + Skew

TakeOver ==
    /\ run # "done" /\ ~taken
    /\ SeesLapsed
    /\ taken' = TRUE
    /\ UNCHANGED <<now, leaseUntil, run, beat, due, failures>>

TimingNext ==
    \/ Tick
    \/ StartHeartbeat
    \/ WakeUp
    \/ RenewSucceeds
    \/ RenewFails
    \/ RunEnds
    \/ Finish
    \/ TakeOver

TimingSpec == TimingInit /\ [][TimingNext]_timingVars

-----------------------------------------------------------------------------
(***************************************************************************)
(* A worker that is alive keeps its job: however long the pipeline takes,  *)
(* while no renewal fails nobody takes the claim over before the result is *)
(* committed (heartbeat.py: a run longer than the lease must not be taken  *)
(* for a crash).                                                           *)
(***************************************************************************)
LiveRunKeepsClaim == failures = 0 => ~taken

(***************************************************************************)
(* The heartbeat outlives one missed renewal (config.py:80-81: even if one *)
(* heartbeat is missed, the next arrives before the lease is out).         *)
(***************************************************************************)
OneMissedBeatIsHarmless == failures <= 1 => ~taken

-----------------------------------------------------------------------------
(***************************************************************************)
(* Why it holds: how old the last renewal can be in each phase.            *)
(***************************************************************************)
PhaseIsOnTime ==
    /\ Pending => now <= due + Delay
    /\ beat = "starting" => run = "running" /\ due = 0 /\ leaseUntil = Lease
    /\ beat = "waiting" => run = "running" /\ leaseUntil + Interval + Delay >= due + Lease
    /\ beat = "renewing" => run = "running" /\ leaseUntil + Interval + 2 * Delay >= due + Lease
    /\ run = "ending" => leaseUntil + Interval + 3 * Delay >= due + Lease
    /\ run = "running" => beat # "off"

TimingInvariant ==
    /\ TimingTypeOK
    /\ failures = 0 => ~taken /\ PhaseIsOnTime

=============================================================================
