----------------------------- MODULE MCSwarmJobs -----------------------------
(* Small instances of SwarmJobs for TLC.                                   *)
EXTENDS SwarmJobs, TLC

CONSTANTS j1, j2, k1

\* One task type: a second queue would only add rows nobody pauses.
MCKindOf == [j \in Jobs |-> k1]

\* j1 has a retry, j2 is given up by its first failure; three is enough for a
\* stale worker to meet two later leases of the same job.
MCMaxAttempts == [j \in Jobs |-> IF j = j1 THEN 2 ELSE 1]
MCThreeAttempts == [j \in Jobs |-> 3]

\* j1 schedules j2, as one stage of the pipeline schedules the next.
MCNextTasks == [j \in Jobs |-> IF j = j1 THEN Jobs \ {j1} ELSE {}]

\* Workers are interchangeable: no action or property tells them apart.
Symmetry == Permutations(Workers)

=============================================================================
