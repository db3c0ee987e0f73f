----------------------------- MODULE MCAiWorker -----------------------------
(***************************************************************************)
(* Small instances of AiWorker.                                            *)
(***************************************************************************)
EXTENDS AiWorkerProperties, TLC

CONSTANTS p1, p2, r1, r2, r3, c1, i1, i2

SameIdentity == [d \in Request |-> i1]

\* r1 and r2 are the same job; r3 reuses its jobId for another input
ReusedJobId == [d \in Request |-> IF d = r3 THEN i2 ELSE i1]

Symmetry == Permutations(Process) \cup Permutations({r1, r2})

=============================================================================
