--------------------------- MODULE RedisJobStore ---------------------------
(***************************************************************************)
(* The shared job record of app/common/idempotency.py, for ONE jobId: one  *)
(* Redis key, the worker processes that claim, renew, finish and release   *)
(* it, and the optimistic locking (WATCH ... MULTI ... EXEC) they use.     *)
(*                                                                         *)
(* Every operation of RedisJobStore is two round trips: the one that       *)
(* WATCHes and GETs the key, and the one that EXECs the write the Python   *)
(* code computed from what it read.  Any write to the key in between, by   *)
(* any thread of any process, makes the EXEC fail with a WatchError.  The  *)
(* variable `watching' is the set of threads whose WATCH is still intact;  *)
(* while it is, the record still is the one the thread read, so an EXEC    *)
(* may be written as a function of the current record.                     *)
(*                                                                         *)
(* leaseUntil is kept as one bit, `lapsed'.  Lapsing is not a write and a  *)
(* lease may lapse at any moment of its owner's run (a paused process, a   *)
(* late heartbeat).  A lapsed lease may still look valid to a reader whose *)
(* `now' is older, so seeing it valid is always allowed.  `attempt', which *)
(* no code reads back, and the 72 h TTL of the key are left out.           *)
(***************************************************************************)
CONSTANTS
    Process,        \* worker processes; a restart is a new one, with a new ownerId
    None            \* Python's None

VARIABLES
    record,         \* the value under the job's key
    watching        \* the threads whose WATCH on the key is unbroken

storeVars == <<record, watching>>

(***************************************************************************)
(* A process touches the key from the thread that runs handle_command and  *)
(* from its lease heartbeat; each has a connection, so a WATCH, of its own.*)
(***************************************************************************)
Main(p) == <<p, "main">>
Beat(p) == <<p, "heartbeat">>
Thread  == Process \X {"main", "heartbeat"}

Absent == [state |-> "ABSENT", owner |-> None, identity |-> None,
           lapsed |-> FALSE, event |-> None]

\* _encode_processing: a claim with a fresh lease
Processing(p, id) == [state |-> "PROCESSING", owner |-> p, identity |-> id,
                      lapsed |-> FALSE, event |-> None]

\* _encode_terminal: the result for good, owned by nobody
Terminal(id, e) == [state |-> "TERMINAL", owner |-> None, identity |-> id,
                    lapsed |-> FALSE, event |-> e]

StoreInit == record = Absent /\ watching = {}

(***************************************************************************)
(* The Redis commands.                                                     *)
(***************************************************************************)
Write(r) == record' = r /\ watching' = {}

WatchAndGet(t) == watching' = watching \cup {t} /\ UNCHANGED record

ReadOnly == UNCHANGED storeVars

\* EXEC by a thread whose WATCH holds, and the WatchError one gets otherwise
Exec(t, r)    == t \in watching /\ Write(r)
WatchError(t) == t \notin watching /\ ReadOnly

(***************************************************************************)
(* What the operations require of the record they have read.               *)
(***************************************************************************)
\* Faulty variant: commit and forget check the state but not the ownerId.
HoldsClaimByState(p) == record.state = "PROCESSING"

HoldsClaim(p) == record.owner = p /\ record.state = "PROCESSING"
HoldsLease(p) == record.owner = p /\ record.state \in {"PROCESSING", "PENDING_PUBLISH"}

(***************************************************************************)
(* resolve(): the atomic SET NX first ...                                  *)
(***************************************************************************)
ClaimNew(p, id) == record.state = "ABSENT" /\ Write(Processing(p, id))
ClaimTaken      == record.state # "ABSENT" /\ ReadOnly

(***************************************************************************)
(* ... then, on failure, the WATCH loop.  Each outcome but the takeovers   *)
(* returns at once (unwatch).  A takeover of a PENDING_PUBLISH record does *)
(* not wait for the lease; one of a PROCESSING record does.                *)
(***************************************************************************)
\* Faulty variants: a result is served by jobId alone; a live claim is taken over.
SeesTerminalByJobId(id)  == record.state = "TERMINAL"
SeesTakeoverUnlapsed(id) == record.state # "TERMINAL" /\ record.identity \in {id, None}

SeesConflict(id)   == record.state # "ABSENT" /\ record.identity # id
SeesTerminal(id)   == record.state = "TERMINAL" /\ record.identity = id
SeesInProgress(id) == record.state = "PROCESSING" /\ record.identity = id
SeesTakeover(id)   == \/ record.state = "ABSENT"
                      \/ /\ record.identity = id
                         /\ \/ record.state = "PENDING_PUBLISH"
                            \/ record.state = "PROCESSING" /\ record.lapsed

TakeOverPending(p) ==
    /\ record.state = "PENDING_PUBLISH"
    /\ Exec(Main(p), [record EXCEPT !.owner = p, !.lapsed = FALSE])

\* Faulty variant: a PENDING_PUBLISH record is reclaimed like an abandoned run.
TakeOverAnything(p, id) == Exec(Main(p), Processing(p, id))

TakeOverClaim(p, id) ==
    /\ record.state # "PENDING_PUBLISH"
    /\ Exec(Main(p), Processing(p, id))

(***************************************************************************)
(* The second round trip of the other four operations.                     *)
(***************************************************************************)
\* Faulty variant: the terminal record is written without its event.
MarkTerminalEmpty(p, id, e) == Exec(Main(p), Terminal(id, None))

CommitPendingPublish(p, e) ==
    Exec(Main(p), [record EXCEPT !.state = "PENDING_PUBLISH", !.event = e, !.lapsed = FALSE])

MarkTerminal(p, id, e) == Exec(Main(p), Terminal(id, e))

Forget(p) == Exec(Main(p), Absent)

RenewLease(p) == Exec(Beat(p), [record EXCEPT !.lapsed = FALSE])

(***************************************************************************)
(* Time passes beyond leaseUntil.                                          *)
(***************************************************************************)
LeaseLapses ==
    /\ record.state = "PROCESSING"
    /\ ~record.lapsed
    /\ record' = [record EXCEPT !.lapsed = TRUE]
    /\ UNCHANGED watching

=============================================================================
