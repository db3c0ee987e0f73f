----------------------------- MODULE JobOutcome -----------------------------
(***************************************************************************)
(* What the worker fleet promises the rest of the system about one job     *)
(* (app/common/idempotency.py, module docstring): its result is decided at *)
(* most once, durably, before anybody hears of it, and whatever is ever    *)
(* announced, however many times, is that result.                          *)
(***************************************************************************)
CONSTANTS
    Result,         \* the result events pipeline runs may produce
    NoResult

VARIABLES
    decided,        \* the durable result of the job
    announced       \* the result events the broker has confirmed

vars == <<decided, announced>>

Init == decided = NoResult /\ announced = {}

Decide ==
    /\ decided = NoResult
    /\ decided' \in Result
    /\ UNCHANGED announced

Announce ==
    /\ decided # NoResult
    /\ announced' = announced \cup {decided}
    /\ UNCHANGED decided

Next == Decide \/ Announce

Spec == Init /\ [][Next]_vars

=============================================================================
