--------------------------- MODULE MCSwarmDispatch ----------------------------
(* A small instance of SwarmDispatch for TLC: two jobs share the outbox, so    *)
(* that a refused entry holds up the one behind it.                            *)
EXTENDS SwarmDispatch, TLC

CONSTANTS j1, j2, k1

MCKindOf == [j \in Jobs |-> k1]
MCNextTasks == [j \in Jobs |-> IF j = j1 THEN {j2} ELSE {}]
MCMaxAttempts == [j \in Jobs |-> 1]

=============================================================================
