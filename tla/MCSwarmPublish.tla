---------------------------- MODULE MCSwarmPublish ----------------------------
(* A small instance of SwarmPublish for TLC: one composition, whose          *)
(* publication meets two workers, a retry and an account that is paused.     *)
EXTENDS SwarmPublish, TLC

CONSTANTS j1, publish

MCKindOf == [j \in Jobs |-> publish]
MCNextTasks == [j \in Jobs |-> {}]
MCMaxAttempts == [j \in Jobs |-> 2]

\* Workers are interchangeable: no action or property tells them apart.
Symmetry == Permutations(Workers)

=============================================================================
