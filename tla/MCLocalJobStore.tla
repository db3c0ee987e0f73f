--------------------------- MODULE MCLocalJobStore ---------------------------
(***************************************************************************)
(* One job, whose request is sent three times, once with another input.    *)
(***************************************************************************)
EXTENDS LocalJobStore, TLC

CONSTANTS d1, d2, d3, inputA, inputB

MCIdentityOf == d1 :> inputA @@ d2 :> inputA @@ d3 :> inputB

=============================================================================
